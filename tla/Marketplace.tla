---------------------------- MODULE Marketplace ----------------------------
(***************************************************************************)
(* The deployed marketplace: factory, clones, dispute panel, reviewer      *)
(* registry, fee router and reputation registry over one payment token.    *)
(* A transaction is one action; block time passes between transactions,    *)
(* and any number of them share a block.                                   *)
(***************************************************************************)
EXTENDS ReputationRegistry, Functions

CONSTANT InitialFunds   \* what each party holds to begin with

ASSUME MarketAssumption == InitialFunds \in Nat

vars == <<now, tokenVars, registryVars, panelVars, escrowVars, isEscrow,
          reputationVars>>

Init ==
    /\ now = 1
    /\ balance = [x \in Accounts |-> IF x \in Parties THEN InitialFunds ELSE 0]
    /\ frozen = {}
    /\ RegistryInit
    /\ PanelInit
    /\ EscrowInit
    /\ FactoryInit
    /\ ReputationInit

TimePasses ==
    /\ Tick
    /\ UNCHANGED <<tokenVars, registryVars, panelVars, escrowVars, isEscrow,
                   reputationVars>>

TokenIssuer ==
    /\ \E x \in Freezable : Freeze(x)
    /\ UNCHANGED <<registryVars, panelVars, escrowVars, isEscrow,
                   reputationVars>>

RegistryOwner ==
    /\ \E a \in Arbiters : AddArbiter(a) \/ RemoveArbiter(a)
    /\ UNCHANGED <<now, tokenVars, panelVars, escrowVars, isEscrow,
                   reputationVars>>

PanelOwner ==
    /\ SetFactory
    /\ UNCHANGED <<now, tokenVars, registryVars, escrowVars, isEscrow,
                   reputationVars>>

Vendor(e) ==
    /\ \E seller, buyer \in Parties, amount \in Amounts,
          work \in WorkDurations, review \in ReviewWindows :
            CreateEscrow(e, seller, buyer, amount, work, review)
    /\ UNCHANGED <<now, tokenVars, registryVars, panelVars, reputationVars>>

Buyer(e) ==
    /\ \E method \in FundingMethods : GiveConsent(e, method)
    /\ UNCHANGED <<now, tokenVars, registryVars, panelVars, isEscrow,
                   reputationVars>>

\* The calls that settle or move one clone and touch no other contract.
CloneCall(e) ==
    /\ \/ DepositFunds(e)
       \/ FundWithAuthorization(e)
       \/ CancelOffer(e)
       \/ SubmitDelivery(e)
       \/ ReleaseFunds(e)
       \/ RefundBuyer(e)
       \/ TimeoutRefund(e)
       \/ Finalize(e)
       \/ \E p \in Parties : SubmitCounterEvidence(e, p)
       \/ \E outcome \in Votes : CouncilResolve(e, outcome)
       \/ \E p \in Parties : Donate(e, p)
    /\ UNCHANGED <<now, registryVars, panelVars, isEscrow, reputationVars>>

\* The calls in which a clone and the panel change together.
PanelCall(e) ==
    /\ \/ \E p \in Parties : RaiseDispute(e, p, isEscrow[e])
       \/ Execute(e)
    /\ UNCHANGED <<now, registryVars, isEscrow, reputationVars>>

Reviewer(e) ==
    /\ \E a \in Arbiters :
            \/ Commit(e, a)
            \/ \E v \in Votes : Reveal(e, a, v)
    /\ UNCHANGED <<now, tokenVars, registryVars, escrowVars, isEscrow,
                   reputationVars>>

Attester(e) ==
    /\ Attest(e)
    /\ UNCHANGED <<now, tokenVars, registryVars, panelVars, escrowVars,
                   isEscrow>>

Next ==
    \/ TimePasses
    \/ TokenIssuer
    \/ RegistryOwner
    \/ PanelOwner
    \/ \E e \in Escrows :
            \/ Vendor(e) \/ Buyer(e) \/ CloneCall(e) \/ PanelCall(e)
            \/ Reviewer(e) \/ Attester(e)

Spec == Init /\ [][Next]_vars

-----------------------------------------------------------------------------
(***************************************************************************)
(* Fairness.  timeoutRefund, finalize, cancelOffer and execute take no     *)
(* particular caller: whoever wants the order closed can send them, and a  *)
(* call that stays possible is sent in the end.  Nobody is assumed to      *)
(* deliver, pay, release, refund, dispute, vote or use the council.        *)
(***************************************************************************)
TimeoutCall(e) ==
    /\ CancelOffer(e) \/ TimeoutRefund(e) \/ Finalize(e)
    /\ UNCHANGED <<now, registryVars, panelVars, isEscrow, reputationVars>>

ExecuteCall(e) ==
    /\ Execute(e)
    /\ UNCHANGED <<now, registryVars, isEscrow, reputationVars>>

Fairness ==
    /\ WF_vars(TimePasses)
    /\ \A e \in Escrows : WF_vars(TimeoutCall(e)) /\ WF_vars(ExecuteCall(e))

FairSpec == Spec /\ Fairness

-----------------------------------------------------------------------------
TypeOK ==
    /\ TokenTypeOK
    /\ RegistryTypeOK
    /\ PanelTypeOK
    /\ EscrowTypeOK
    /\ FactoryTypeOK
    /\ ReputationTypeOK

(***************************************************************************)
(* A clone holds its order's amount exactly while the order is live, and   *)
(* nothing else but what strangers sent it: no path out of a live state    *)
(* leaves money behind, and no settlement reaches into other money.        *)
(***************************************************************************)
Custody ==
    \A e \in Escrows :
        balance[e] = donated[e] + (IF In(e, Live) THEN escrow[e].amount ELSE 0)

(***************************************************************************)
(* Everything a clone ever pays out, over all its functions, is nothing    *)
(* until it is resolved and then the amount to the last unit: the client   *)
(* all of it for a REFUND, half rounded down for a SPLIT, none for a       *)
(* RELEASE, and the fee never above its rate on what the vendor is paid.   *)
(***************************************************************************)
PaidInFull ==
    \A e \in Escrows :
        LET paid == paidOut[e]
            amount == escrow[e].amount
        IN IF ~In(e, {"RESOLVED"}) THEN PaidOut(paid) = 0 ELSE
           /\ PaidOut(paid) = amount
           /\ paid.fee * BpDenominator <= (paid.net + paid.fee) * FeeBp
           /\ CASE escrow[e].resolution = "REFUND"  -> paid.buyer = amount
                [] escrow[e].resolution = "RELEASE" -> paid.buyer = 0
                [] escrow[e].resolution = "SPLIT"   ->
                     amount - 2 * paid.buyer \in {0, 1}

(***************************************************************************)
(* No token is created or lost: the balances of all accounts add up to     *)
(* what the parties began with.                                            *)
(***************************************************************************)
SupplyConserved == SumFunction(balance) = Cardinality(Parties) * InitialFunds

(***************************************************************************)
(* The ledger agrees with the clones: each holds, or has paid, exactly its *)
(* amount, and what it does not hold is with the others.                   *)
(***************************************************************************)
LedgersAgree == Custody /\ PaidInFull /\ SupplyConserved

(***************************************************************************)
(* RESOLVED and EXPIRED are final: no later call by party, panel or        *)
(* council changes the clone, its payments, or whether its case counts as  *)
(* executed by the panel.                                                  *)
(***************************************************************************)
OutcomeIsFinal ==
    [][\A e \in Escrows :
            In(e, {"RESOLVED", "EXPIRED"}) =>
                /\ escrow'[e] = escrow[e]
                /\ paidOut'[e] = paidOut[e]
                /\ cases'[e].executed = cases[e].executed]_vars

VotesFor(e, v) == {a \in revealed[e] : commitments[e][a] = <<e, a, v>>}

(***************************************************************************)
(* The tallies a case is executed on count, once each, the reviewers whose *)
(* own seal for this very case was opened to that vote.                    *)
(***************************************************************************)
TallyMatchesSeals ==
    \A e \in Escrows :
        /\ cases[e].revealCount = Cardinality(revealed[e])
        /\ cases[e].releaseVotes = Cardinality(VotesFor(e, "RELEASE"))
        /\ cases[e].refundVotes = Cardinality(VotesFor(e, "REFUND"))
        /\ cases[e].splitVotes = Cardinality(VotesFor(e, "SPLIT"))

(***************************************************************************)
(* Evidence, then seals, then votes: no reviewer commits, or changes a     *)
(* commitment, in a case where a vote has already been shown, and no       *)
(* evidence is added once a reviewer has committed, but for the one        *)
(* instant that both windows include.                                      *)
(***************************************************************************)
Committed(e) == \E a \in Arbiters : commitments[e][a] # NoCommitment

PhasesInOrder ==
    [][\A e \in Escrows :
            /\ revealed'[e] # {} => commitments'[e] = commitments[e]
            /\ Committed(e) /\ now # escrow[e].counterEvidenceDeadline =>
                 (escrow'[e].counterEvidenceSubmitted =>
                      escrow[e].counterEvidenceSubmitted)]_vars

(***************************************************************************)
(* A case marked executed has settled its clone, in the same transaction,  *)
(* as the shown votes say: two for RELEASE, else two for REFUND, else      *)
(* SPLIT.                                                                  *)
(***************************************************************************)
VerdictIsTheTally ==
    \A e \in Escrows :
        cases[e].executed =>
            /\ In(e, {"RESOLVED"})
            /\ escrow[e].resolution =
                 CASE Cardinality(VotesFor(e, "RELEASE")) >= 2 -> "RELEASE"
                   [] /\ Cardinality(VotesFor(e, "RELEASE")) < 2
                      /\ Cardinality(VotesFor(e, "REFUND")) >= 2 -> "REFUND"
                   [] OTHER -> "SPLIT"

(***************************************************************************)
(* A party's record counts each of its attested orders exactly once, under *)
(* the way that order ended, and as disputed exactly if it went to a case. *)
(***************************************************************************)
ScoresMatchSettlements ==
    LET Orders(p) == {e \in Escrows :
            isAttested[e] /\ p \in {escrow[e].buyer, escrow[e].seller}}
        Ended(p, r) == {e \in Orders(p) : escrow[e].resolution = r}
    IN \A p \in Parties :
        /\ scores[p].settled = Cardinality(Orders(p))
        /\ scores[p].released = Cardinality(Ended(p, "RELEASE"))
        /\ scores[p].refunded = Cardinality(Ended(p, "REFUND"))
        /\ scores[p].splits = Cardinality(Ended(p, "SPLIT"))
        /\ scores[p].disputed = Cardinality({e \in Orders(p) : Opened(e)})

-----------------------------------------------------------------------------
(***************************************************************************)
(* No offer stays open forever: it is taken up or lapses.                  *)
(***************************************************************************)
OffersClose ==
    \A e \in Escrows :
        In(e, {"CREATED"}) /\ escrow[e].offerDeadline < MaxTime
            ~> ~In(e, {"CREATED"})

(***************************************************************************)
(* A vendor who never delivers, or whose delivery the contract cannot      *)
(* accept because the review deadline would overflow, does not keep the    *)
(* money locked: the order moves on within the block times of the model.   *)
(***************************************************************************)
LockedMovesOn ==
    \A e \in Escrows :
        In(e, {"LOCKED"}) /\ escrow[e].workDeadline < MaxTime
            ~> ~In(e, {"LOCKED"})

(***************************************************************************)
(* A silent client does not keep a delivered order open.                   *)
(***************************************************************************)
SubmittedMovesOn ==
    \A e \in Escrows :
        In(e, {"SUBMITTED"}) /\ escrow[e].reviewDeadline < MaxTime
            ~> ~In(e, {"SUBMITTED"})

(***************************************************************************)
(* A dispute ends even if no reviewer ever votes, the registry is emptied  *)
(* under it, and the council never acts.                                   *)
(***************************************************************************)
DisputesEnd ==
    \A e \in Escrows :
        In(e, {"DISPUTED"}) /\ cases[e].revealDeadline <= MaxTime
            ~> In(e, {"RESOLVED"})

(***************************************************************************)
(* The token's issuer has frozen an account that the order pays from or to.*)
(***************************************************************************)
Blocked(e) == {e, escrow[e].buyer, escrow[e].seller, Treasury} \cap frozen # {}

TimeoutDue(e) ==
    \/ In(e, {"CREATED"}) /\ OfferLapsed(e)
    \/ ~Blocked(e) /\ In(e, {"LOCKED"}) /\ WorkOverdue(e)
    \/ ~Blocked(e) /\ In(e, {"SUBMITTED"}) /\ ReviewOver(e)

ExecuteDue(e) ==
    ~Blocked(e) /\ In(e, {"DISPUTED"}) /\ now >= cases[e].revealDeadline

(***************************************************************************)
(* A call that is due does not revert: the clone holds what it has to pay, *)
(* and the case was opened and not yet executed.                           *)
(***************************************************************************)
DueCallsPass ==
    [](\A e \in Escrows :
            /\ TimeoutDue(e) => ENABLED <<TimeoutCall(e)>>_vars
            /\ ExecuteDue(e) => ENABLED <<ExecuteCall(e)>>_vars)

(***************************************************************************)
(* Silence locks no money: whoever falls silent in whatever stage, the     *)
(* callers of the functions that are open to anyone end it, and none of    *)
(* these calls reverts when it is due.                                     *)
(***************************************************************************)
NoSilenceLocks ==
    OffersClose /\ LockedMovesOn /\ SubmittedMovesOn /\ DisputesEnd /\ DueCallsPass

-----------------------------------------------------------------------------
Phase(e) ==
    CASE In(e, {"NONE"})     -> "none"
      [] In(e, {"CREATED"})  -> "offered"
      [] In(e, Live)         -> "held"
      [] In(e, {"RESOLVED"}) -> "paid"
      [] In(e, {"EXPIRED"})  -> "lapsed"

Promise == INSTANCE EscrowPromise WITH
    phase  <- [e \in Escrows |-> Phase(e)],
    stake  <- [e \in Escrows |-> escrow[e].amount],
    payout <- paidOut

(***************************************************************************)
(* The contracts together implement the abstract escrow.                   *)
(***************************************************************************)
KeepsPromise == Promise!Spec

=============================================================================
