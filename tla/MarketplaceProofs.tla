------------------------- MODULE MarketplaceProofs -------------------------
(***************************************************************************)
(* Safety of the marketplace for every number of orders, parties and       *)
(* reviewers, every amount, fee and window: first the money of an order,   *)
(* the token's supply, the disputes, the scores, that the contracts        *)
(* implement the abstract escrow, and at the end the ways out of an order. *)
(***************************************************************************)
EXTENDS Marketplace, FiniteSetTheorems, WellFoundedInduction, TLAPS

-----------------------------------------------------------------------------
(***************************************************************************)
(* Arithmetic of a settlement.  FeeRouter's fee is a natural number, never *)
(* above the gross amount nor above its rate.                              *)
(***************************************************************************)
LEMMA FeeBounds ==
    ASSUME NEW gross \in Nat
    PROVE  /\ Fee(gross) \in Nat
           /\ Fee(gross) <= gross
           /\ Fee(gross) * BpDenominator <= gross * FeeBp
<1> DEFINE product == gross * FeeBp
<1>1. product \in Nat /\ product <= gross * 10000
  BY FeeAssumption DEF BpDenominator
<1> HIDE DEF product
<1>2. /\ product \div 10000 \in Nat
      /\ product \div 10000 <= gross
      /\ (product \div 10000) * 10000 <= product
  BY <1>1
<1>3. QED
  BY <1>2 DEF Fee, BpDenominator, product

(***************************************************************************)
(* _settle: whatever the resolution, the payout is made of three natural   *)
(* numbers that add up to the amount, with the fee within its rate and the *)
(* client's part as the resolution says.                                   *)
(***************************************************************************)
LEMMA PayoutFacts ==
    ASSUME NEW result \in Resolutions, NEW amount \in Nat
    PROVE  LET p == PayoutOf(result, amount) IN
           /\ p \in Payout
           /\ PaidOut(p) = amount
           /\ p.fee * BpDenominator <= (p.net + p.fee) * FeeBp
           /\ result = "REFUND" => p.buyer = amount
           /\ result = "RELEASE" => p.buyer = 0
           /\ result = "SPLIT" => amount - 2 * p.buyer \in {0, 1}
<1> DEFINE half == amount \div 2
<1>0. half \in Nat /\ half <= amount /\ amount - 2 * half \in {0, 1}
  OBVIOUS
<1>1. ASSUME NEW b \in Nat, NEW gross \in Nat
      PROVE  LET p == Distribute(b, gross) IN
             /\ p \in Payout
             /\ p.buyer = b
             /\ PaidOut(p) = b + gross
             /\ p.fee * BpDenominator <= (p.net + p.fee) * FeeBp
  <2>1. /\ Fee(gross) \in Nat
        /\ gross - Fee(gross) \in Nat
        /\ gross - Fee(gross) + Fee(gross) = gross
        /\ b + (gross - Fee(gross)) + Fee(gross) = b + gross
        /\ Fee(gross) * BpDenominator <= gross * FeeBp
    BY FeeBounds
  <2>2. QED
    BY <2>1 DEF Distribute, Payout, PaidOut
<1>2. CASE result = "REFUND"
  <2>1. 0 * BpDenominator <= (0 + 0) * FeeBp
    BY FeeAssumption DEF BpDenominator
  <2>2. QED
    BY <1>2, <2>1 DEF PayoutOf, NoPayout, Payout, PaidOut
<1>3. CASE result = "RELEASE"
  <2>1. PayoutOf(result, amount) = Distribute(0, amount)
    BY <1>3 DEF PayoutOf
  <2>2. QED
    BY <1>1, <1>3, <2>1
<1>4. CASE result = "SPLIT"
  <2>1. PayoutOf(result, amount) = Distribute(half, amount - half)
    BY <1>4 DEF PayoutOf, SplitPayout
  <2>2. amount - half \in Nat /\ half + (amount - half) = amount
    BY <1>0
  <2> DEFINE q == Distribute(half, amount - half)
  <2>3. /\ q \in Payout
        /\ q.buyer = half
        /\ PaidOut(q) = amount
        /\ q.fee * BpDenominator <= (q.net + q.fee) * FeeBp
    <3> HIDE DEF half
    <3>1. QED
      BY <1>0, <1>1, <2>2
  <2> HIDE DEF q
  <2>4. PayoutOf(result, amount) = q
    BY <2>1 DEF q
  <2>5. amount - 2 * q.buyer \in {0, 1}
    BY <1>0, <2>3
  <2>6. QED
    BY <1>4, <2>3, <2>4, <2>5
<1>5. QED
  BY <1>2, <1>3, <1>4 DEF Resolutions

-----------------------------------------------------------------------------
(***************************************************************************)
(* Type correctness needs one fact more than the types: the registry's     *)
(* count is the number of listed reviewers, so that removing one never     *)
(* takes it below zero.                                                    *)
(***************************************************************************)
TypeInv == TypeOK /\ arbiterCount = Cardinality(arbiters)

LEMMA TypeInit == Init => TypeInv
<1> SUFFICES ASSUME Init PROVE TypeInv
  OBVIOUS
<1>1. TokenTypeOK
  BY TokenAssumption, MarketAssumption, EscrowAssumption DEF Init, TokenTypeOK
<1>2. RegistryTypeOK /\ arbiterCount = Cardinality(arbiters)
  <2>1. IsFiniteSet(InitialArbiters)
    BY ArbiterAssumption, FS_Subset
  <2>2. QED
    BY <2>1, ArbiterAssumption, FS_CardinalityType
       DEF Init, RegistryInit, RegistryTypeOK
<1>3. PanelTypeOK
  BY DEF Init, PanelInit, PanelTypeOK, NoCase, Case
<1>4. EscrowTypeOK
  BY EscrowAssumption
     DEF Init, EscrowInit, EscrowTypeOK, FreshClone, Clone, States, NoPayout,
         Payout
<1>5. FactoryTypeOK
  BY DEF Init, FactoryInit, FactoryTypeOK
<1>6. ReputationTypeOK
  BY DEF Init, ReputationInit, ReputationTypeOK, NoScore, Score
<1>7. QED
  BY <1>1, <1>2, <1>3, <1>4, <1>5, <1>6 DEF TypeInv, TypeOK

(***************************************************************************)
(* Settle keeps the types of what it changes: it never pays a clone below  *)
(* zero, because the clone must hold what leaves it.                       *)
(***************************************************************************)
LEMMA SettleTypes ==
    ASSUME TypeOK, NEW e \in Escrows, NEW result \in Resolutions,
           Settle(e, result)
    PROVE  /\ balance' \in [Accounts -> Nat]
           /\ EscrowTypeOK'
           /\ UNCHANGED frozen
<1> DEFINE payout == PayoutOf(result, escrow[e].amount)
<1>1. escrow[e] \in Clone /\ escrow[e].amount \in Nat
  BY DEF TypeOK, EscrowTypeOK, Clone
<1>2. payout \in Payout /\ PaidOut(payout) \in Nat
  BY <1>1, PayoutFacts
<1>3. balance' \in [Accounts -> Nat]
  <2>1. /\ Pay(e, payout)
        /\ balance[e] >= PaidOut(payout)
    BY DEF Settle, CanPay
  <2>2. /\ payout.buyer \in Nat
        /\ payout.net \in Nat
        /\ payout.fee \in Nat
    BY <1>2 DEF Payout
  <2>3. balance \in [Accounts -> Nat] /\ e \in Accounts
    BY PanelAssumption DEF TypeOK, TokenTypeOK
  <2> HIDE DEF payout
  <2>4. QED
    BY <1>2, <2>1, <2>2, <2>3 DEF Pay
<1>4. escrow' \in [Escrows -> Clone]
  BY <1>1 DEF TypeOK, EscrowTypeOK, Settle, Close, Clone, States
<1>5. paidOut' \in [Escrows -> Payout]
  <2>1. paidOut \in [Escrows -> Payout]
    BY DEF TypeOK, EscrowTypeOK
  <2>2. paidOut' = [paidOut EXCEPT ![e] =
              [buyer |-> paidOut[e].buyer + payout.buyer,
               net   |-> paidOut[e].net + payout.net,
               fee   |-> paidOut[e].fee + payout.fee]]
    BY DEF Settle
  <2> HIDE DEF payout
  <2>3. QED
    BY <1>2, <2>1, <2>2 DEF Payout
<1>6. QED
  BY <1>3, <1>4, <1>5 DEF TypeOK, EscrowTypeOK, Settle

(***************************************************************************)
(* The calls a clone answers keep the types of token and clone.            *)
(***************************************************************************)
LEMMA PullTypes ==
    ASSUME TypeOK, NEW e \in Escrows, Pull(e)
    PROVE  /\ balance' \in [Accounts -> Nat]
           /\ escrow' \in [Escrows -> Clone]
           /\ UNCHANGED <<frozen, donated, paidOut>>
<1>1. /\ escrow[e] \in Clone
      /\ escrow[e].amount \in Nat
      /\ escrow[e].workDuration \in Nat
      /\ escrow[e].buyer \in Parties \cup {NoAccount}
  BY DEF TypeOK, EscrowTypeOK, Clone
<1>2. balance' \in [Accounts -> Nat]
  <2>1. PICK skim \in Skims :
            /\ skim <= escrow[e].amount
            /\ Move(escrow[e].buyer, e, escrow[e].amount,
                    escrow[e].amount - skim)
    BY DEF Pull
  <2>2. skim \in Nat /\ escrow[e].amount - skim \in Nat
    BY <1>1, <2>1, TokenAssumption
  <2>3. balance[escrow[e].buyer] >= escrow[e].amount
    BY DEF Pull, CanMove
  <2>4. QED
    BY <1>1, <2>1, <2>2, <2>3 DEF TypeOK, TokenTypeOK, Move
<1>3. escrow' \in [Escrows -> Clone]
  <2> DEFINE new == [escrow[e] EXCEPT
                        !.state = "LOCKED",
                        !.workDeadline = Deadline(escrow[e].workDuration)]
  <2>1. Deadline(escrow[e].workDuration) \in Nat
    BY <1>1, TokenAssumption DEF TypeOK, TokenTypeOK, Deadline
  <2>2. new \in Clone
    BY <1>1, <2>1 DEF Clone, States
  <2>3. escrow' = [escrow EXCEPT ![e] = new]
    BY DEF Pull, Lock
  <2> HIDE DEF new
  <2>4. QED
    BY <2>2, <2>3 DEF TypeOK, EscrowTypeOK
<1>4. QED
  BY <1>2, <1>3 DEF Pull

LEMMA CloneCallTypes ==
    ASSUME TypeOK, NEW e \in Escrows, CloneCall(e)
    PROVE  /\ balance' \in [Accounts -> Nat]
           /\ EscrowTypeOK'
           /\ UNCHANGED frozen
<1>1. /\ balance \in [Accounts -> Nat]
      /\ EscrowTypeOK
      /\ escrow[e] \in Clone
      /\ now \in Nat
  BY TokenAssumption DEF TypeOK, TokenTypeOK, EscrowTypeOK
<1>2. CASE DepositFunds(e)
  BY <1>1, <1>2, PullTypes DEF DepositFunds, EscrowTypeOK
<1>3. CASE FundWithAuthorization(e)
  BY <1>1, <1>3, PullTypes DEF FundWithAuthorization, EscrowTypeOK
<1>4. CASE CancelOffer(e)
  BY <1>1, <1>4 DEF CancelOffer, EscrowTypeOK, Clone, States, tokenVars
<1>5. CASE SubmitDelivery(e)
  <2>1. Deadline(escrow[e].reviewWindow) \in Nat
    BY <1>1 DEF Deadline, Clone
  <2>2. QED
    BY <1>1, <1>5, <2>1
       DEF SubmitDelivery, EscrowTypeOK, Clone, States, tokenVars
<1>6. CASE ReleaseFunds(e) \/ RefundBuyer(e) \/ TimeoutRefund(e) \/ Finalize(e)
  BY <1>6, SettleTypes
     DEF ReleaseFunds, RefundBuyer, TimeoutRefund, Finalize, Resolutions
<1>7. CASE \E p \in Parties : SubmitCounterEvidence(e, p)
  <2> DEFINE new == [escrow[e] EXCEPT !.counterEvidenceSubmitted = TRUE]
  <2>1. new \in Clone
    BY <1>1 DEF Clone
  <2>2. /\ escrow' = [escrow EXCEPT ![e] = new]
        /\ UNCHANGED <<tokenVars, consent, donated, paidOut>>
    BY <1>7 DEF SubmitCounterEvidence
  <2> HIDE DEF new
  <2>3. QED
    BY <1>1, <2>1, <2>2 DEF EscrowTypeOK, tokenVars
<1>8. CASE \E outcome \in Votes : CouncilResolve(e, outcome)
  BY <1>8, SettleTypes DEF CouncilResolve, Votes, Resolutions
<1>9. CASE \E p \in Parties : Donate(e, p)
  <2>1. PICK p \in Parties : Donate(e, p)
    BY <1>9
  <2>2. donated' \in [Escrows -> 0..MaxDonation]
    BY <1>1, <2>1, EscrowAssumption DEF Donate, EscrowTypeOK
  <2>3. balance' \in [Accounts -> Nat]
    BY <1>1, <2>1, EscrowAssumption DEF Donate, CanMove, Move
  <2>4. QED
    BY <1>1, <2>1, <2>2, <2>3 DEF Donate, EscrowTypeOK
<1>10. QED
  BY <1>2, <1>3, <1>4, <1>5, <1>6, <1>7, <1>8, <1>9 DEF CloneCall

(***************************************************************************)
(* reveal: one more vote shown, counted under that vote and no other.      *)
(***************************************************************************)
LEMMA CountedFacts ==
    ASSUME NEW c \in Case, NEW v \in Votes
    PROVE  /\ Counted(c, v) \in Case
           /\ Counted(c, v).revealCount = c.revealCount + 1
           /\ Counted(c, v).releaseVotes = c.releaseVotes + One("RELEASE", v)
           /\ Counted(c, v).refundVotes = c.refundVotes + One("REFUND", v)
           /\ Counted(c, v).splitVotes = c.splitVotes + One("SPLIT", v)
           /\ Counted(c, v).commitStart = c.commitStart
           /\ Counted(c, v).commitDeadline = c.commitDeadline
           /\ Counted(c, v).revealDeadline = c.revealDeadline
           /\ Counted(c, v).executed = c.executed
<1>1. /\ c.revealCount + 1 \in Nat
      /\ c.releaseVotes + One("RELEASE", v) \in Nat
      /\ c.refundVotes + One("REFUND", v) \in Nat
      /\ c.splitVotes + One("SPLIT", v) \in Nat
  BY DEF Case, One
<1>2. Counted(c, v) \in Case
  BY <1>1, Zenon DEF Counted, Case
<1>3. QED
  BY <1>2, Zenon DEF Counted, Case

LEMMA TypeStep == TypeInv /\ [Next]_vars => TypeInv'
<1> SUFFICES ASSUME TypeInv, [Next]_vars
             PROVE  TypeInv'
  OBVIOUS
<1>0. TypeOK /\ arbiterCount = Cardinality(arbiters) /\ now \in Nat
  BY TokenAssumption DEF TypeInv, TypeOK, TokenTypeOK
<1>1. CASE TimePasses
  <2>1. now' \in 1..MaxTime
    BY <1>0, <1>1, TokenAssumption DEF TimePasses, Tick
  <2>2. QED
    BY <1>0, <1>1, <2>1
       DEF TimePasses, TypeInv, TypeOK, TokenTypeOK, RegistryTypeOK,
           PanelTypeOK, EscrowTypeOK, FactoryTypeOK, ReputationTypeOK,
           tokenVars, registryVars, panelVars, escrowVars, reputationVars
<1>2. CASE TokenIssuer
  BY <1>0, <1>2
     DEF TokenIssuer, Freeze, TypeInv, TypeOK, TokenTypeOK, RegistryTypeOK,
         PanelTypeOK, EscrowTypeOK, FactoryTypeOK, ReputationTypeOK,
         registryVars, panelVars, escrowVars, reputationVars
<1>3. CASE RegistryOwner
  <2>1. PICK a \in Arbiters : AddArbiter(a) \/ RemoveArbiter(a)
    BY <1>3 DEF RegistryOwner
  <2>2. IsFiniteSet(arbiters) /\ arbiters \subseteq Arbiters
    BY <1>0, ArbiterAssumption, FS_Subset DEF TypeOK, RegistryTypeOK
  <2>3. /\ arbiters' \subseteq Arbiters
        /\ arbiterCount' = Cardinality(arbiters')
    BY <1>0, <2>1, <2>2, FS_AddElement, FS_RemoveElement
       DEF AddArbiter, RemoveArbiter
  <2>4. arbiterCount' \in Nat
    BY <2>3, ArbiterAssumption, FS_Subset, FS_CardinalityType
  <2>5. QED
    BY <1>0, <1>3, <2>3, <2>4
       DEF RegistryOwner, TypeInv, TypeOK, TokenTypeOK, RegistryTypeOK,
           PanelTypeOK, EscrowTypeOK, FactoryTypeOK, ReputationTypeOK,
           tokenVars, panelVars, escrowVars, reputationVars
<1>4. CASE PanelOwner
  BY <1>0, <1>4
     DEF PanelOwner, SetFactory, TypeInv, TypeOK, TokenTypeOK, RegistryTypeOK,
         PanelTypeOK, EscrowTypeOK, FactoryTypeOK, ReputationTypeOK,
         tokenVars, registryVars, escrowVars, reputationVars
<1>5. ASSUME NEW e \in Escrows, Vendor(e)
      PROVE  TypeInv'
  <2>1. PICK seller \in Parties, buyer \in Parties, amount \in Amounts,
             work \in WorkDurations, review \in ReviewWindows :
               CreateEscrow(e, seller, buyer, amount, work, review)
    BY <1>5 DEF Vendor
  <2>2. /\ amount \in Nat
        /\ work \in Nat
        /\ review \in Nat
        /\ Deadline(OfferTtl) \in Nat
    BY <1>0, EscrowAssumption, FactoryAssumption DEF Deadline
  <2>3. EscrowTypeOK'
    BY <1>0, <2>1, <2>2
       DEF TypeOK, EscrowTypeOK, CreateEscrow, Initialize, FreshClone, Clone,
           States
  <2>4. FactoryTypeOK'
    BY <1>0, <2>1 DEF TypeOK, FactoryTypeOK, CreateEscrow
  <2>5. QED
    BY <1>0, <1>5, <2>3, <2>4
       DEF Vendor, TypeInv, TypeOK, TokenTypeOK, RegistryTypeOK, PanelTypeOK,
           ReputationTypeOK, tokenVars, registryVars, panelVars,
           reputationVars
<1>6. ASSUME NEW e \in Escrows, Buyer(e)
      PROVE  TypeInv'
  BY <1>0, <1>6
     DEF Buyer, GiveConsent, TypeInv, TypeOK, TokenTypeOK, RegistryTypeOK,
         PanelTypeOK, EscrowTypeOK, FactoryTypeOK, ReputationTypeOK,
         tokenVars, registryVars, panelVars, reputationVars
<1>7. ASSUME NEW e \in Escrows, CloneCall(e)
      PROVE  TypeInv'
  <2>1. /\ balance' \in [Accounts -> Nat]
        /\ EscrowTypeOK'
        /\ UNCHANGED frozen
    BY <1>0, <1>7, CloneCallTypes
  <2>2. QED
    BY <1>0, <1>7, <2>1
       DEF CloneCall, TypeInv, TypeOK, TokenTypeOK, RegistryTypeOK,
           PanelTypeOK, FactoryTypeOK, ReputationTypeOK, registryVars,
           panelVars, reputationVars
<1>8. ASSUME NEW e \in Escrows, PanelCall(e)
      PROVE  TypeInv'
  <2>1. CASE \E p \in Parties : RaiseDispute(e, p, isEscrow[e])
    <3>1. PICK p \in Parties : RaiseDispute(e, p, isEscrow[e])
      BY <2>1
    <3>2. EscrowTypeOK'
      <4> DEFINE new == [escrow[e] EXCEPT
                            !.state = "DISPUTED",
                            !.disputedAt = now,
                            !.counterEvidenceDeadline = Deadline(EvidenceWindow),
                            !.disputeRaisedBy = p]
      <4>1. Deadline(EvidenceWindow) \in Nat
        BY <1>0, PanelAssumption DEF Deadline
      <4>2. EscrowTypeOK /\ escrow[e] \in Clone
        BY <1>0 DEF TypeOK, EscrowTypeOK
      <4>3. new \in Clone
        BY <1>0, <4>1, <4>2 DEF Clone, States
      <4>4. /\ escrow' = [escrow EXCEPT ![e] = new]
            /\ UNCHANGED <<tokenVars, consent, donated, paidOut>>
        BY <3>1 DEF RaiseDispute
      <4> HIDE DEF new
      <4>5. QED
        BY <4>2, <4>3, <4>4 DEF EscrowTypeOK
    <3>3. PanelTypeOK'
      <4>1. /\ now + EvidenceWindow \in Nat
            /\ now + EvidenceWindow + CommitWindow \in Nat
            /\ now + EvidenceWindow + CommitWindow + RevealWindow \in Nat
        BY <1>0, PanelAssumption
      <4>2. QED
        BY <1>0, <3>1, <4>1
           DEF RaiseDispute, Open, Deadline, TypeOK, PanelTypeOK, Case
    <3>4. TokenTypeOK'
      BY <1>0, <1>8, <3>1
         DEF PanelCall, RaiseDispute, TypeOK, TokenTypeOK, tokenVars
    <3>5. QED
      BY <1>0, <1>8, <3>2, <3>3, <3>4
         DEF PanelCall, TypeInv, TypeOK, RegistryTypeOK, FactoryTypeOK,
             ReputationTypeOK, registryVars, reputationVars
  <2>2. CASE Execute(e)
    <3>1. Outcome(cases[e]) \in Resolutions
      BY DEF Outcome, Resolutions
    <3>2. /\ balance' \in [Accounts -> Nat]
          /\ EscrowTypeOK'
          /\ UNCHANGED frozen
      BY <1>0, <2>2, <3>1, SettleTypes DEF Execute
    <3>3. PanelTypeOK'
      BY <1>0, <2>2 DEF Execute, MarkExecuted, TypeOK, PanelTypeOK, Case
    <3>4. QED
      BY <1>0, <1>8, <3>2, <3>3
         DEF PanelCall, TypeInv, TypeOK, TokenTypeOK, RegistryTypeOK,
             FactoryTypeOK, ReputationTypeOK, registryVars, reputationVars
  <2>3. QED
    BY <1>8, <2>1, <2>2 DEF PanelCall
<1>9. ASSUME NEW e \in Escrows, Reviewer(e)
      PROVE  TypeInv'
  <2>1. PICK a \in Arbiters :
            Commit(e, a) \/ \E v \in Votes : Reveal(e, a, v)
    BY <1>9 DEF Reviewer
  <2>2. PanelTypeOK'
    <3>1. CASE Commit(e, a)
      <4>1. Submittable(e, a) \subseteq Seals
        BY <1>0 DEF Submittable, Seals, TypeOK, PanelTypeOK
      <4>2. PICK seal \in Seals :
                commitments' = [commitments EXCEPT ![e][a] = seal]
        BY <3>1, <4>1 DEF Commit
      <4>3. QED
        BY <1>0, <3>1, <4>2 DEF Commit, TypeOK, PanelTypeOK
    <3>2. CASE \E v \in Votes : Reveal(e, a, v)
      <4>1. PICK v \in Votes : Reveal(e, a, v)
        BY <3>2
      <4>2. PanelTypeOK /\ Counted(cases[e], v) \in Case
        BY <1>0, CountedFacts DEF TypeOK, PanelTypeOK
      <4>3. QED
        BY <4>1, <4>2 DEF Reveal, PanelTypeOK
    <3>3. QED
      BY <2>1, <3>1, <3>2
  <2>3. QED
    BY <1>0, <1>9, <2>2
       DEF Reviewer, TypeInv, TypeOK, TokenTypeOK, RegistryTypeOK,
           EscrowTypeOK, FactoryTypeOK, ReputationTypeOK, tokenVars,
           registryVars, escrowVars, reputationVars
<1>10. ASSUME NEW e \in Escrows, Attester(e)
       PROVE  TypeInv'
  <2>1. ReputationTypeOK'
    <3>1. ASSUME NEW score \in Score, NEW result, NEW wasDisputed
          PROVE  Record(score, result, wasDisputed) \in Score
      BY DEF Record, Score
    <3>2. QED
      BY <1>0, <1>10, <3>1
         DEF Attester, Attest, TypeOK, ReputationTypeOK
  <2>2. QED
    BY <1>0, <1>10, <2>1
       DEF Attester, TypeInv, TypeOK, TokenTypeOK, RegistryTypeOK,
           PanelTypeOK, EscrowTypeOK, FactoryTypeOK, tokenVars,
           registryVars, panelVars, escrowVars
<1>11. CASE UNCHANGED vars
  BY <1>0, <1>11
     DEF vars, TypeInv, TypeOK, TokenTypeOK, RegistryTypeOK, PanelTypeOK,
         EscrowTypeOK, FactoryTypeOK, ReputationTypeOK, tokenVars,
         registryVars, panelVars, escrowVars, reputationVars
<1>12. QED
  BY <1>1, <1>2, <1>3, <1>4, <1>5, <1>6, <1>7, <1>8, <1>9, <1>10, <1>11
     DEF Next

(***************************************************************************)
(* Type correctness of the whole marketplace.                              *)
(***************************************************************************)
THEOREM TypeCorrect == Spec => []TypeOK
<1>1. Spec => []TypeInv
  BY TypeInit, TypeStep, PTL DEF Spec
<1>2. TypeInv => TypeOK
  BY DEF TypeInv
<1>3. QED
  BY <1>1, <1>2, PTL

-----------------------------------------------------------------------------
(***************************************************************************)
(* Money.  Custody and PaidInFull are proved together: a settlement pays   *)
(* what it should because the clone held it and had paid nothing before.   *)
(***************************************************************************)
MoneyInv == Custody /\ PaidInFull

LEMMA MoneyInit == Init => MoneyInv
<1> SUFFICES ASSUME Init PROVE MoneyInv
  OBVIOUS
<1>1. ASSUME NEW e \in Escrows
      PROVE  /\ balance[e] = 0 /\ donated[e] = 0
             /\ ~In(e, Live) /\ ~In(e, {"RESOLVED"})
             /\ PaidOut(paidOut[e]) = 0
  <2>1. e \in Accounts \ Parties
    BY PanelAssumption, EscrowAssumption
  <2>2. balance[e] = 0
    BY <2>1 DEF Init
  <2>3. escrow[e].state = "NONE" /\ donated[e] = 0 /\ paidOut[e] = NoPayout
    BY DEF Init, EscrowInit, FreshClone
  <2>4. QED
    BY <2>2, <2>3 DEF In, Live, NoPayout, PaidOut
<1>2. Custody
  BY <1>1 DEF Custody
<1>3. PaidInFull
  BY <1>1 DEF PaidInFull
<1>4. QED
  BY <1>2, <1>3 DEF MoneyInv

(***************************************************************************)
(* No clone is a party, the treasury or address(0).                        *)
(***************************************************************************)
LEMMA ClonesApart ==
    ASSUME TypeOK, NEW e \in Escrows, NEW f \in Escrows
    PROVE  f # escrow[e].buyer /\ f # escrow[e].seller /\ f # Treasury
<1>1. escrow[e].buyer \in Parties \cup {NoAccount}
  BY DEF TypeOK, EscrowTypeOK, Clone
<1>2. escrow[e].seller \in Parties \cup {NoAccount}
  BY DEF TypeOK, EscrowTypeOK, Clone
<1>3. QED
  BY <1>1, <1>2, PanelAssumption, EscrowAssumption

(***************************************************************************)
(* A call that moves no token and takes no clone into or out of the states *)
(* with money leaves both parts as they are.                               *)
(***************************************************************************)
LEMMA NoMoneyMoved ==
    ASSUME MoneyInv,
           UNCHANGED <<balance, donated, paidOut>>,
           \A f \in Escrows :
               /\ In(f, Live)' <=> In(f, Live)
               /\ In(f, {"RESOLVED"})' <=> In(f, {"RESOLVED"})
               /\ In(f, Live) \/ In(f, {"RESOLVED"}) =>
                    /\ escrow'[f].amount = escrow[f].amount
                    /\ escrow'[f].resolution = escrow[f].resolution
    PROVE  MoneyInv'
<1>1. Custody'
  BY DEF MoneyInv, Custody
<1>2. PaidInFull'
  BY DEF MoneyInv, PaidInFull
<1>3. QED
  BY <1>1, <1>2 DEF MoneyInv

LEMMA MoneyKept ==
    ASSUME MoneyInv, UNCHANGED <<balance, donated, paidOut, escrow>>
    PROVE  MoneyInv'
BY DEF MoneyInv, Custody, PaidInFull, In

(***************************************************************************)
(* Only one clone changes, and not its money.                              *)
(***************************************************************************)
LEMMA MoveOnKeepsMoney ==
    ASSUME TypeOK, MoneyInv, NEW e \in Escrows, NEW new,
           escrow' = [escrow EXCEPT ![e] = new],
           UNCHANGED <<balance, donated, paidOut>>,
           \/ /\ {escrow[e].state, new.state} \subseteq {"NONE", "CREATED", "EXPIRED"}
           \/ /\ {escrow[e].state, new.state} \subseteq Live
              /\ new.amount = escrow[e].amount
              /\ new.resolution = escrow[e].resolution
    PROVE  MoneyInv'
<1>1. /\ escrow'[e] = new
      /\ \A f \in Escrows \ {e} : escrow'[f] = escrow[f]
  BY DEF TypeOK, EscrowTypeOK
<1>2. QED
  BY <1>1, NoMoneyMoved DEF In, Live

(***************************************************************************)
(* A settlement empties the clone of its amount and of nothing else, and   *)
(* is the first payment the clone makes.                                   *)
(***************************************************************************)
LEMMA SettleMoney ==
    ASSUME TypeOK, MoneyInv, NEW e \in Escrows, NEW result \in Resolutions,
           In(e, Live), Settle(e, result)
    PROVE  MoneyInv'
<1> DEFINE payout == PayoutOf(result, escrow[e].amount)
           new == [escrow[e] EXCEPT !.state = "RESOLVED", !.resolution = result]
<1>1. /\ escrow[e] \in Clone
      /\ escrow[e].amount \in Nat
      /\ paidOut[e] \in Payout
      /\ escrow \in [Escrows -> Clone]
      /\ paidOut \in [Escrows -> Payout]
      /\ balance \in [Accounts -> Nat]
      /\ Escrows \subseteq Accounts
  BY PanelAssumption DEF TypeOK, EscrowTypeOK, TokenTypeOK, Clone
<1>2. /\ payout \in Payout
      /\ PaidOut(payout) = escrow[e].amount
      /\ payout.fee * BpDenominator <= (payout.net + payout.fee) * FeeBp
      /\ result = "REFUND" => payout.buyer = escrow[e].amount
      /\ result = "RELEASE" => payout.buyer = 0
      /\ result = "SPLIT" => escrow[e].amount - 2 * payout.buyer \in {0, 1}
  BY <1>1, PayoutFacts
<1>3. /\ new.state = "RESOLVED"
      /\ new.resolution = result
      /\ new.amount = escrow[e].amount
  BY <1>1 DEF Clone
<1>4. /\ escrow' = [escrow EXCEPT ![e] = new]
      /\ Pay(e, payout)
      /\ UNCHANGED donated
      /\ paidOut' = [paidOut EXCEPT ![e] =
              [buyer |-> paidOut[e].buyer + payout.buyer,
               net   |-> paidOut[e].net + payout.net,
               fee   |-> paidOut[e].fee + payout.fee]]
  BY DEF Settle, Close
<1>5. PaidOut(paidOut[e]) = 0
  BY DEF MoneyInv, PaidInFull, In, Live
<1> HIDE DEF payout, new
<1>6. paidOut'[e] = payout
  <2>1. paidOut[e].buyer = 0 /\ paidOut[e].net = 0 /\ paidOut[e].fee = 0
    BY <1>1, <1>5 DEF Payout, PaidOut
  <2>2. /\ paidOut[e].buyer + payout.buyer = payout.buyer
        /\ paidOut[e].net + payout.net = payout.net
        /\ paidOut[e].fee + payout.fee = payout.fee
    BY <1>2, <2>1 DEF Payout
  <2>3. QED
    BY <1>1, <1>2, <1>4, <2>2 DEF Payout
<1>7. ASSUME NEW f \in Escrows, f # e
      PROVE  /\ balance'[f] = balance[f]
             /\ paidOut'[f] = paidOut[f]
             /\ escrow'[f] = escrow[f]
  <2>1. balance'[f] = balance[f]
    BY <1>1, <1>4, <1>7, ClonesApart DEF Pay
  <2>2. QED
    BY <1>1, <1>4, <1>7, <2>1
<1>8. balance'[e] = balance[e] - escrow[e].amount
  BY <1>1, <1>2, <1>4, ClonesApart DEF Pay
<1>9. Custody'
  <2> SUFFICES ASSUME NEW f \in Escrows
               PROVE  balance'[f] = donated'[f]
                        + (IF In(f, Live)' THEN escrow'[f].amount ELSE 0)
    BY DEF Custody
  <2>1. CASE f = e
    <3>1. balance[e] = donated[e] + escrow[e].amount
      BY DEF MoneyInv, Custody
    <3>2. ~In(e, Live)'
      BY <1>1, <1>3, <1>4 DEF In, Live
    <3>3. donated[e] \in Nat
      BY EscrowAssumption DEF TypeOK, EscrowTypeOK
    <3>4. QED
      BY <1>1, <1>4, <1>8, <2>1, <3>1, <3>2, <3>3
  <2>2. CASE f # e
    BY <1>4, <1>7, <2>2 DEF MoneyInv, Custody, In
  <2>3. QED
    BY <2>1, <2>2
<1>10. PaidInFull'
  <2>1. escrow'[e] = new
    BY <1>1, <1>4
  <2> SUFFICES ASSUME NEW f \in Escrows
               PROVE  LET paid == paidOut'[f]
                          amount == escrow'[f].amount
                      IN IF ~In(f, {"RESOLVED"})' THEN PaidOut(paid) = 0 ELSE
                         /\ PaidOut(paid) = amount
                         /\ paid.fee * BpDenominator
                                <= (paid.net + paid.fee) * FeeBp
                         /\ CASE escrow'[f].resolution = "REFUND"  ->
                                   paid.buyer = amount
                              [] escrow'[f].resolution = "RELEASE" ->
                                   paid.buyer = 0
                              [] escrow'[f].resolution = "SPLIT"   ->
                                   amount - 2 * paid.buyer \in {0, 1}
    BY DEF PaidInFull
  <2>2. CASE f = e
    BY <1>2, <1>3, <1>6, <2>1, <2>2 DEF In, Resolutions
  <2>3. CASE f # e
    BY <1>7, <2>3 DEF MoneyInv, PaidInFull, In
  <2>4. QED
    BY <2>2, <2>3
<1>11. QED
  BY <1>9, <1>10 DEF MoneyInv

(***************************************************************************)
(* Funding brings in the amount asked for, to the last unit: that is what  *)
(* the balance check of _finishFunding is for.                             *)
(***************************************************************************)
LEMMA PullMoney ==
    ASSUME TypeOK, MoneyInv, NEW e \in Escrows, Pull(e)
    PROVE  MoneyInv'
<1> DEFINE new == [escrow[e] EXCEPT
                      !.state = "LOCKED",
                      !.workDeadline = Deadline(escrow[e].workDuration)]
<1>1. /\ escrow[e] \in Clone
      /\ escrow[e].amount \in Nat
      /\ escrow \in [Escrows -> Clone]
      /\ balance \in [Accounts -> Nat]
      /\ Escrows \subseteq Accounts
      /\ Skims \subseteq Nat
  BY PanelAssumption, TokenAssumption
     DEF TypeOK, EscrowTypeOK, TokenTypeOK, Clone
<1>2. /\ new.state = "LOCKED"
      /\ new.amount = escrow[e].amount
  BY <1>1 DEF Clone
<1>3. /\ escrow' = [escrow EXCEPT ![e] = new]
      /\ Move(escrow[e].buyer, e, escrow[e].amount, escrow[e].amount)
      /\ escrow[e].state = "CREATED"
      /\ UNCHANGED <<donated, paidOut>>
  <2>1. PICK skim \in Skims :
            /\ DeliveredInFull(e, escrow[e].amount - skim)
            /\ Move(escrow[e].buyer, e, escrow[e].amount,
                    escrow[e].amount - skim)
    BY DEF Pull
  <2>2. escrow[e].amount - skim = escrow[e].amount
    BY <2>1 DEF DeliveredInFull
  <2>3. QED
    BY <2>1, <2>2 DEF Pull, Lock, In
<1> HIDE DEF new
<1>4. escrow'[e] = new
  BY <1>1, <1>3
<1>5. ASSUME NEW f \in Escrows, f # e
      PROVE  balance'[f] = balance[f] /\ escrow'[f] = escrow[f]
  BY <1>1, <1>3, <1>5, ClonesApart DEF Move
<1>6. balance'[e] = balance[e] + escrow[e].amount
  BY <1>1, <1>3, ClonesApart DEF Move
<1>7. Custody'
  <2> SUFFICES ASSUME NEW f \in Escrows
               PROVE  balance'[f] = donated'[f]
                        + (IF In(f, Live)' THEN escrow'[f].amount ELSE 0)
    BY DEF Custody
  <2>1. CASE f = e
    <3>1. balance[e] = donated[e] + 0
      BY <1>3 DEF MoneyInv, Custody, In, Live
    <3>2. In(e, Live)'
      BY <1>2, <1>4 DEF In, Live
    <3>3. donated[e] \in Nat
      BY EscrowAssumption DEF TypeOK, EscrowTypeOK
    <3>4. QED
      BY <1>1, <1>2, <1>3, <1>4, <1>6, <2>1, <3>1, <3>2, <3>3
  <2>2. CASE f # e
    BY <1>3, <1>5, <2>2 DEF MoneyInv, Custody, In
  <2>3. QED
    BY <2>1, <2>2
<1>8. PaidInFull'
  <2>1. \A f \in Escrows : In(f, {"RESOLVED"})' <=> In(f, {"RESOLVED"})
    BY <1>2, <1>3, <1>4, <1>5 DEF In
  <2>2. \A f \in Escrows : In(f, {"RESOLVED"}) => escrow'[f] = escrow[f]
    BY <1>3, <1>5 DEF In
  <2>3. QED
    BY <1>3, <2>1, <2>2 DEF MoneyInv, PaidInFull
<1>9. QED
  BY <1>7, <1>8 DEF MoneyInv

LEMMA DonateMoney ==
    ASSUME TypeOK, MoneyInv, NEW e \in Escrows, NEW p \in Parties, Donate(e, p)
    PROVE  MoneyInv'
<1>1. /\ balance \in [Accounts -> Nat]
      /\ donated \in [Escrows -> 0..MaxDonation]
      /\ Escrows \subseteq Accounts
      /\ p \notin Escrows
      /\ MaxDonation \in Nat
  BY PanelAssumption, EscrowAssumption
     DEF TypeOK, EscrowTypeOK, TokenTypeOK
<1>2. PaidInFull'
  BY DEF Donate, MoneyInv, PaidInFull, In
<1>3. ASSUME NEW f \in Escrows
      PROVE  balance'[f] - balance[f] = donated'[f] - donated[f]
  <2>1. CASE f = e
    <3>1. balance'[f] = balance[f] - 0 + 1 /\ donated'[f] = donated[f] + 1
      BY <1>1, <2>1 DEF Donate, Move
    <3>2. QED
      BY <1>1, <3>1
  <2>2. CASE f # e
    <3>1. balance'[f] = balance[f] - 0 + 0 /\ donated'[f] = donated[f]
      BY <1>1, <2>2 DEF Donate, Move
    <3>2. QED
      BY <1>1, <3>1
  <2>3. QED
    BY <2>1, <2>2
<1>4. Custody'
  <2> SUFFICES ASSUME NEW f \in Escrows
               PROVE  balance'[f] = donated'[f]
                        + (IF In(f, Live)' THEN escrow'[f].amount ELSE 0)
    BY DEF Custody
  <2> DEFINE held == IF In(f, Live) THEN escrow[f].amount ELSE 0
  <2>1. held \in Nat /\ balance[f] = donated[f] + held
    BY DEF TypeOK, EscrowTypeOK, Clone, MoneyInv, Custody
  <2>2. (IF In(f, Live)' THEN escrow'[f].amount ELSE 0) = held
    BY DEF Donate, In
  <2> HIDE DEF held
  <2>3. /\ donated[f] \in Nat
        /\ donated'[f] \in Int
        /\ balance'[f] \in Int
    BY <1>1 DEF Donate, Move
  <2>4. balance'[f] = donated'[f] + held
    BY <1>1, <1>3, <2>1, <2>3
  <2>5. QED
    BY <2>2, <2>4
<1>5. QED
  BY <1>2, <1>4 DEF MoneyInv

LEMMA CloneCallMoney ==
    ASSUME TypeOK, MoneyInv, NEW e \in Escrows, CloneCall(e)
    PROVE  MoneyInv'
<1>1. /\ escrow[e] \in Clone
      /\ {"LOCKED"} \subseteq Live
      /\ {"SUBMITTED"} \subseteq Live
      /\ {"DISPUTED"} \subseteq Live
      /\ Disputable \subseteq Live
  BY DEF TypeOK, EscrowTypeOK, Live, Disputable
<1>2. CASE DepositFunds(e) \/ FundWithAuthorization(e)
  BY <1>2, PullMoney DEF DepositFunds, FundWithAuthorization
<1>3. CASE CancelOffer(e)
  <2> DEFINE new == [escrow[e] EXCEPT !.state = "EXPIRED"]
  <2>1. new.state = "EXPIRED"
    BY <1>1 DEF Clone
  <2>2. /\ escrow' = [escrow EXCEPT ![e] = new]
        /\ escrow[e].state = "CREATED"
        /\ UNCHANGED <<balance, donated, paidOut>>
    BY <1>3 DEF CancelOffer, In, tokenVars
  <2> HIDE DEF new
  <2>3. QED
    BY <2>1, <2>2, MoveOnKeepsMoney
<1>4. CASE SubmitDelivery(e)
  <2> DEFINE new == [escrow[e] EXCEPT
                        !.state = "SUBMITTED",
                        !.reviewDeadline = Deadline(escrow[e].reviewWindow)]
  <2>1. /\ new.state = "SUBMITTED"
        /\ new.amount = escrow[e].amount
        /\ new.resolution = escrow[e].resolution
    BY <1>1 DEF Clone
  <2>2. /\ escrow' = [escrow EXCEPT ![e] = new]
        /\ escrow[e].state = "LOCKED"
        /\ UNCHANGED <<balance, donated, paidOut>>
    BY <1>4 DEF SubmitDelivery, In, tokenVars
  <2> HIDE DEF new
  <2>3. QED
    BY <2>1, <2>2, MoveOnKeepsMoney DEF Live
<1>5. CASE ReleaseFunds(e) \/ RefundBuyer(e) \/ TimeoutRefund(e) \/ Finalize(e)
  <2>1. PICK result \in Resolutions : Settle(e, result)
    BY <1>5
       DEF ReleaseFunds, RefundBuyer, TimeoutRefund, Finalize, Resolutions
  <2>2. In(e, Live)
    BY <1>1, <1>5
       DEF ReleaseFunds, RefundBuyer, TimeoutRefund, Finalize, In
  <2>3. QED
    BY <2>1, <2>2, SettleMoney
<1>6. CASE \E p \in Parties : SubmitCounterEvidence(e, p)
  <2> DEFINE new == [escrow[e] EXCEPT !.counterEvidenceSubmitted = TRUE]
  <2>1. /\ new.state = escrow[e].state
        /\ new.amount = escrow[e].amount
        /\ new.resolution = escrow[e].resolution
    BY <1>1 DEF Clone
  <2>2. /\ escrow' = [escrow EXCEPT ![e] = new]
        /\ escrow[e].state = "DISPUTED"
        /\ UNCHANGED <<balance, donated, paidOut>>
    BY <1>6 DEF SubmitCounterEvidence, In, tokenVars
  <2> HIDE DEF new
  <2>3. QED
    BY <2>1, <2>2, MoveOnKeepsMoney DEF Live
<1>7. CASE \E outcome \in Votes : CouncilResolve(e, outcome)
  <2>1. PICK outcome \in Votes : CouncilResolve(e, outcome)
    BY <1>7
  <2>2. outcome \in Resolutions /\ In(e, Live) /\ Settle(e, outcome)
    BY <1>1, <2>1 DEF CouncilResolve, Votes, Resolutions, In
  <2>3. QED
    BY <2>2, SettleMoney
<1>8. CASE \E p \in Parties : Donate(e, p)
  BY <1>8, DonateMoney
<1>9. QED
  BY <1>2, <1>3, <1>4, <1>5, <1>6, <1>7, <1>8 DEF CloneCall

LEMMA MoneyStep == TypeInv /\ MoneyInv /\ [Next]_vars => MoneyInv'
<1> SUFFICES ASSUME TypeInv, MoneyInv, [Next]_vars
             PROVE  MoneyInv'
  OBVIOUS
<1>0. TypeOK
  BY DEF TypeInv
<1>1. CASE \/ TimePasses \/ TokenIssuer \/ RegistryOwner \/ PanelOwner
           \/ UNCHANGED vars
  BY <1>1, MoneyKept
     DEF TimePasses, TokenIssuer, Freeze, RegistryOwner, PanelOwner, vars,
         tokenVars, escrowVars
<1>2. ASSUME NEW e \in Escrows, Buyer(e) \/ Reviewer(e) \/ Attester(e)
      PROVE  MoneyInv'
  BY <1>2, MoneyKept
     DEF Buyer, GiveConsent, Reviewer, Attester, tokenVars, escrowVars
<1>3. ASSUME NEW e \in Escrows, Vendor(e)
      PROVE  MoneyInv'
  <2>1. PICK seller \in Parties, buyer \in Parties, amount \in Amounts,
             work \in WorkDurations, review \in ReviewWindows :
               CreateEscrow(e, seller, buyer, amount, work, review)
    BY <1>3 DEF Vendor
  <2> DEFINE new == [FreshClone EXCEPT
                        !.state = "CREATED",
                        !.seller = seller, !.buyer = buyer,
                        !.amount = amount,
                        !.offerDeadline = Deadline(OfferTtl),
                        !.workDuration = work,
                        !.reviewWindow = review]
  <2>2. new.state = "CREATED"
    BY DEF FreshClone
  <2>3. /\ escrow' = [escrow EXCEPT ![e] = new]
        /\ escrow[e].state = "NONE"
        /\ UNCHANGED <<balance, donated, paidOut>>
    BY <1>3, <2>1 DEF Vendor, CreateEscrow, Initialize, In, tokenVars
  <2> HIDE DEF new
  <2>4. QED
    BY <1>0, <2>2, <2>3, MoveOnKeepsMoney
<1>4. ASSUME NEW e \in Escrows, CloneCall(e)
      PROVE  MoneyInv'
  BY <1>0, <1>4, CloneCallMoney
<1>5. ASSUME NEW e \in Escrows, PanelCall(e)
      PROVE  MoneyInv'
  <2>1. CASE \E p \in Parties : RaiseDispute(e, p, isEscrow[e])
    <3>1. PICK p \in Parties : RaiseDispute(e, p, isEscrow[e])
      BY <2>1
    <3> DEFINE new == [escrow[e] EXCEPT
                          !.state = "DISPUTED",
                          !.disputedAt = now,
                          !.counterEvidenceDeadline = Deadline(EvidenceWindow),
                          !.disputeRaisedBy = p]
    <3>2. /\ new.state = "DISPUTED"
          /\ new.amount = escrow[e].amount
          /\ new.resolution = escrow[e].resolution
      BY <1>0 DEF TypeOK, EscrowTypeOK, Clone
    <3>3. /\ escrow' = [escrow EXCEPT ![e] = new]
          /\ escrow[e].state \in Disputable
          /\ UNCHANGED <<balance, donated, paidOut>>
      BY <3>1 DEF RaiseDispute, In, tokenVars
    <3> HIDE DEF new
    <3>4. QED
      BY <1>0, <3>2, <3>3, MoveOnKeepsMoney DEF Disputable, Live
  <2>2. CASE Execute(e)
    <3>1. Outcome(cases[e]) \in Resolutions
      BY DEF Outcome, Resolutions
    <3>2. In(e, Live) /\ Settle(e, Outcome(cases[e]))
      BY <2>2 DEF Execute, In, Live
    <3>3. QED
      BY <1>0, <3>1, <3>2, SettleMoney
  <2>3. QED
    BY <1>5, <2>1, <2>2 DEF PanelCall
<1>6. QED
  BY <1>1, <1>2, <1>3, <1>4, <1>5 DEF Next

LEMMA MoneyAlways == Spec => []MoneyInv
BY TypeInit, TypeStep, MoneyInit, MoneyStep, PTL DEF Spec

(***************************************************************************)
(* Whatever the order of calls, a clone holds its order's amount exactly   *)
(* while the order is live, over and above what it was given unasked.      *)
(***************************************************************************)
THEOREM CustodyHolds == Spec => []Custody
<1>1. MoneyInv => Custody
  BY DEF MoneyInv
<1>2. QED
  BY <1>1, MoneyAlways, PTL

(***************************************************************************)
(* A clone pays nothing before its resolution and in all exactly its       *)
(* amount after it, divided as the resolution says, for every amount and   *)
(* every fee rate.                                                         *)
(***************************************************************************)
THEOREM PaymentExact == Spec => []PaidInFull
<1>1. MoneyInv => PaidInFull
  BY DEF MoneyInv
<1>2. QED
  BY <1>1, MoneyAlways, PTL

-----------------------------------------------------------------------------
(***************************************************************************)
(* Sums of natural numbers over a finite set.  SumFunctionOnSet folds by a *)
(* recursive function that picks the elements in an order of its own; the  *)
(* same number is how many units the values have together, which knows no  *)
(* order.  Counting satisfies the recursion, and by the well-founded order *)
(* of the finite subsets nothing else does.                                *)
(***************************************************************************)
Units(f, s) == {u \in s \X Nat : 1 <= u[2] /\ u[2] <= f[u[1]]}

Total(f, s) == Cardinality(Units(f, s))

Strip(f, x) == {x} \X (1..f[x])

LEMMA StripCount ==
    ASSUME NEW f, NEW x, f[x] \in Nat
    PROVE  IsFiniteSet(Strip(f, x)) /\ Cardinality(Strip(f, x)) = f[x]
<1>1. IsFiniteSet(1..f[x]) /\ Cardinality(1..f[x]) = f[x]
  <2> PICK n \in Nat : n = f[x]
    OBVIOUS
  <2>1. IsFiniteSet(1..n) /\ Cardinality(1..n) = IF 1 > n THEN 0 ELSE n - 1 + 1
    BY 1 \in Int, n \in Int, FS_Interval, Zenon
  <2>2. (IF 1 > n THEN 0 ELSE n - 1 + 1) = n
    OBVIOUS
  <2> QED  BY <2>1, <2>2
<1>2. IsFiniteSet({x}) /\ Cardinality({x}) = 1
  BY FS_Singleton
<1>3. /\ IsFiniteSet(Strip(f, x))
      /\ Cardinality(Strip(f, x)) = Cardinality({x}) * Cardinality(1..f[x])
  BY <1>1, <1>2, FS_Product DEF Strip
<1> QED  BY <1>1, <1>2, <1>3

LEMMA UnitsFinite ==
    ASSUME NEW s, IsFiniteSet(s), NEW f, \A x \in s : f[x] \in Nat
    PROVE  IsFiniteSet(Units(f, s)) /\ Total(f, s) \in Nat
<1> DEFINE strips == {Strip(f, x) : x \in s}
<1>1. IsFiniteSet(strips)
  <2> DEFINE h == [x \in s |-> Strip(f, x)]
  <2>1. h \in Surjection(s, strips)
    BY DEF Surjection
  <2> QED  BY <2>1, FS_Surjection
<1>2. \A t \in strips : IsFiniteSet(t)
  BY StripCount
<1>3. IsFiniteSet(UNION strips)
  BY <1>1, <1>2, FS_UNION
<1>4. Units(f, s) = UNION strips
  BY DEF Units, Strip
<1> QED  BY <1>3, <1>4, FS_CardinalityType DEF Total

LEMMA TotalEmpty == ASSUME NEW f PROVE Total(f, {}) = 0
<1>1. Units(f, {}) = {}
  BY DEF Units
<1> QED  BY <1>1, FS_EmptySet DEF Total

LEMMA TotalStep ==
    ASSUME NEW s, IsFiniteSet(s), NEW f, \A x \in s : f[x] \in Nat, NEW y \in s
    PROVE  Total(f, s) = f[y] + Total(f, s \ {y}) /\ Total(f, s \ {y}) \in Nat
<1>1. IsFiniteSet(s \ {y})
  BY FS_RemoveElement
<1>2. IsFiniteSet(Units(f, s \ {y})) /\ Total(f, s \ {y}) \in Nat
  BY <1>1, UnitsFinite
<1>3. Units(f, s) = Strip(f, y) \cup Units(f, s \ {y})
  BY DEF Units, Strip
<1>4. Strip(f, y) \cap Units(f, s \ {y}) = {}
  BY DEF Units, Strip
<1>5. IsFiniteSet(Strip(f, y)) /\ Cardinality(Strip(f, y)) = f[y] /\ f[y] \in Nat
  BY StripCount
<1>6. Total(f, s) = Cardinality(Strip(f, y)) + Total(f, s \ {y}) - Cardinality({})
  <2> DEFINE a == Strip(f, y)
             b == Units(f, s \ {y})
  <2>1. IsFiniteSet(a) /\ IsFiniteSet(b) /\ a \cap b = {} /\ Units(f, s) = a \cup b
    BY <1>2, <1>3, <1>4, <1>5
  <2> HIDE DEF a, b
  <2>2. Cardinality(a \cup b) = Cardinality(a) + Cardinality(b) - Cardinality(a \cap b)
    BY <2>1, FS_Union
  <2> QED  BY <2>1, <2>2 DEF Total, a, b
<1> QED  BY <1>2, <1>5, <1>6, FS_EmptySet

LEMMA TotalSame ==
    ASSUME NEW s, NEW f, NEW g, \A x \in s : f[x] = g[x]
    PROVE  Total(f, s) = Total(g, s)
<1>1. Units(f, s) = Units(g, s)
  BY DEF Units
<1> QED  BY <1>1 DEF Total

Element(s) == CHOOSE x \in s : TRUE

Folds(it, f, s) ==
    it = [t \in SUBSET s |->
            IF t = {} THEN 0 ELSE f[Element(t)] + it[t \ {Element(t)}]]

LEMMA SumIsFold ==
    ASSUME NEW f, NEW s
    PROVE  SumFunctionOnSet(f, s) = (CHOOSE it : Folds(it, f, s))[s]
BY Zenon DEF SumFunctionOnSet, FoldFunctionOnSet, MapThenFoldSet, Folds, Element

LEMMA TotalFolds ==
    ASSUME NEW s, IsFiniteSet(s), NEW f, \A x \in s : f[x] \in Nat
    PROVE  Folds([t \in SUBSET s |-> Total(f, t)], f, s)
<1> DEFINE it == [t \in SUBSET s |-> Total(f, t)]
<1>1. ASSUME NEW t \in SUBSET s
      PROVE  Total(f, t) = IF t = {} THEN 0 ELSE f[Element(t)] + it[t \ {Element(t)}]
  <2>1. CASE t = {}
    BY <2>1, TotalEmpty
  <2>2. CASE t # {}
    <3>1. Element(t) \in t
      BY <2>2 DEF Element
    <3>2. IsFiniteSet(t)
      BY FS_Subset
    <3>3. Total(f, t) = f[Element(t)] + Total(f, t \ {Element(t)})
      BY <3>1, <3>2, TotalStep
    <3> QED  BY <2>2, <3>3
  <2> QED  BY <2>1, <2>2
<1>2. it = [t \in SUBSET s |->
              IF t = {} THEN 0 ELSE f[Element(t)] + it[t \ {Element(t)}]]
  BY <1>1
<1> QED  BY <1>2 DEF Folds

LEMMA FoldsOnlyTotal ==
    ASSUME NEW s, IsFiniteSet(s), NEW f, \A x \in s : f[x] \in Nat,
           NEW it, Folds(it, f, s)
    PROVE  it[s] = Total(f, s)
<1> DEFINE bad == {t \in SUBSET s : it[t] # Total(f, t)}
<1>1. SUFFICES ASSUME bad # {} PROVE FALSE
  OBVIOUS
<1>2. IsWellFoundedOn(StrictSubsetOrdering(s), SUBSET s)
  BY FS_StrictSubsetOrderingWellFounded, FS_FiniteSubsetsOfFinite
<1>3. PICK t \in bad : \A u \in bad : <<u, t>> \notin StrictSubsetOrdering(s)
  <2> HIDE DEF bad
  <2>1. bad \subseteq SUBSET s
    BY DEF bad
  <2> QED  BY <1>1, <1>2, <2>1, WFMin
<1>4. it[t] = IF t = {} THEN 0 ELSE f[Element(t)] + it[t \ {Element(t)}]
  BY DEF Folds
<1>5. t # {}
  BY <1>4, TotalEmpty
<1>6. Element(t) \in t
  BY <1>5 DEF Element
<1>7. it[t \ {Element(t)}] = Total(f, t \ {Element(t)})
  <2>1. /\ t \ {Element(t)} \in SUBSET s /\ t \in SUBSET s
        /\ t \ {Element(t)} \subseteq t /\ t \ {Element(t)} # t
    BY <1>6
  <2>2. <<t \ {Element(t)}, t>> \in StrictSubsetOrdering(s)
    BY <2>1 DEF StrictSubsetOrdering
  <2> QED  BY <1>3, <2>1, <2>2
<1>8. IsFiniteSet(t)
  BY FS_Subset
<1>9. Total(f, t) = f[Element(t)] + Total(f, t \ {Element(t)})
  BY <1>6, <1>8, TotalStep
<1> QED  BY <1>4, <1>5, <1>7, <1>9

LEMMA SumIsTotal ==
    ASSUME NEW s, IsFiniteSet(s), NEW f, \A x \in s : f[x] \in Nat
    PROVE  SumFunctionOnSet(f, s) = Total(f, s)
<1> DEFINE it == CHOOSE it : Folds(it, f, s)
<1>1. Folds(it, f, s)
  BY TotalFolds
<1>2. it[s] = Total(f, s)
  <2> HIDE DEF it
  <2> QED  BY <1>1, FoldsOnlyTotal
<1> QED  BY <1>2, SumIsFold

(***************************************************************************)
(* A sum follows the one value that changes.                               *)
(***************************************************************************)
With(f, y, v) == [x \in DOMAIN f |-> f[x] + (IF x = y THEN v ELSE 0)]

LEMMA TotalAdd ==
    ASSUME NEW s, IsFiniteSet(s), NEW f \in [s -> Nat], NEW y \in s, NEW v \in Int,
           f[y] + v \in Nat
    PROVE  With(f, y, v) \in [s -> Nat] /\ Total(With(f, y, v), s) = Total(f, s) + v
<1> DEFINE g == With(f, y, v)
<1>1. g \in [s -> Nat] /\ g[y] = f[y] + v /\ \A x \in s \ {y} : g[x] = f[x]
  BY DEF With
<1> HIDE DEF g
<1>2. Total(g, s \ {y}) = Total(f, s \ {y})
  BY <1>1, TotalSame
<1>3. Total(g, s) = g[y] + Total(g, s \ {y}) /\ Total(g, s \ {y}) \in Nat
  BY <1>1, TotalStep
<1>4. Total(f, s) = f[y] + Total(f, s \ {y}) /\ f[y] \in Nat
  BY TotalStep
<1>5. g \in [s -> Nat] /\ Total(g, s) = Total(f, s) + v
  BY <1>1, <1>2, <1>3, <1>4
<1> QED  BY <1>5 DEF g

(***************************************************************************)
(* What the parties begin with.                                            *)
(***************************************************************************)
LEMMA TotalOfEqualShares ==
    ASSUME NEW s, IsFiniteSet(s), NEW some \in SUBSET s, NEW v \in Nat
    PROVE  Total([x \in s |-> IF x \in some THEN v ELSE 0], s) = Cardinality(some) * v
<1> DEFINE f == [x \in s |-> IF x \in some THEN v ELSE 0]
<1>1. Units(f, s) = some \X (1..v)
  BY DEF Units
<1>2. IsFiniteSet(some) /\ IsFiniteSet(1..v) /\ Cardinality(1..v) = v
  BY FS_Subset, FS_Interval
<1>3. Cardinality(some \X (1..v)) = Cardinality(some) * Cardinality(1..v)
  BY <1>2, FS_Product
<1> QED  BY <1>1, <1>2, <1>3 DEF Total

(***************************************************************************)
(* The supply.  A pull or a donation moves what one account gives to       *)
(* another; a settlement takes from the clone what it hands to the three.  *)
(***************************************************************************)
Supply == Total(balance, Accounts)

LEMMA SupplyIsSum ==
    ASSUME balance \in [Accounts -> Nat]
    PROVE  SumFunction(balance) = Supply
<1>1. DOMAIN balance = Accounts /\ \A x \in Accounts : balance[x] \in Nat
  OBVIOUS
<1> QED  BY <1>1, TokenAssumption, SumIsTotal DEF SumFunction, Supply

(***************************************************************************)
(* What one value loses another gains: first for one receiver, then for    *)
(* three (some of whom may be the same account).                           *)
(***************************************************************************)
LEMMA TotalMoved ==
    ASSUME NEW s, IsFiniteSet(s), NEW f \in [s -> Nat], NEW from \in s, NEW to \in s,
           NEW value \in Nat, f[from] >= value
    PROVE  Total(With(With(f, from, -value), to, value), s) = Total(f, s)
<1> DEFINE g == With(f, from, -value)
<1>1. -value \in Int /\ f[from] + (-value) \in Nat
  OBVIOUS
<1>2. g \in [s -> Nat] /\ Total(g, s) = Total(f, s) + (-value)
  BY <1>1, TotalAdd
<1>3. Total(f, s) \in Nat
  BY UnitsFinite DEF Total
<1> HIDE DEF g
<1>4. value \in Int /\ g[to] + value \in Nat
  BY <1>2
<1>5. Total(With(g, to, value), s) = Total(g, s) + value
  BY <1>2, <1>4, TotalAdd
<1>6. Total(With(g, to, value), s) = Total(f, s)
  BY <1>2, <1>3, <1>5
<1> QED  BY <1>6 DEF g

LEMMA TotalPaid ==
    ASSUME NEW s, IsFiniteSet(s), NEW f \in [s -> Nat],
           NEW e \in s, NEW b \in s \ {e}, NEW r \in s \ {e}, NEW t \in s \ {e},
           NEW vb \in Nat, NEW vr \in Nat, NEW vt \in Nat, f[e] >= vb + vr + vt
    PROVE  Total(With(With(With(With(f, e, -(vb + vr + vt)), b, vb), r, vr), t, vt), s)
             = Total(f, s)
<1> DEFINE all == vb + vr + vt
           g0 == With(f, e, -all)
           g1 == With(g0, b, vb)
           g2 == With(g1, r, vr)
<1>1. -all \in Int /\ f[e] + (-all) \in Nat /\ all \in Nat
  OBVIOUS
<1>2. g0 \in [s -> Nat] /\ Total(g0, s) = Total(f, s) + (-all)
  <2> HIDE DEF all
  <2> QED  BY <1>1, TotalAdd
<1>3. Total(f, s) \in Nat
  BY UnitsFinite DEF Total
<1> HIDE DEF g0
<1>4. g0[b] + vb \in Nat /\ vb \in Int
  BY <1>2
<1>5. g1 \in [s -> Nat] /\ Total(g1, s) = Total(g0, s) + vb
  BY <1>2, <1>4, TotalAdd
<1> HIDE DEF g1
<1>6. g1[r] + vr \in Nat /\ vr \in Int
  BY <1>5
<1>7. g2 \in [s -> Nat] /\ Total(g2, s) = Total(g1, s) + vr
  BY <1>5, <1>6, TotalAdd
<1> HIDE DEF g2
<1>8. g2[t] + vt \in Nat /\ vt \in Int
  BY <1>7
<1>9. Total(With(g2, t, vt), s) = Total(g2, s) + vt
  BY <1>7, <1>8, TotalAdd
<1>10. Total(With(g2, t, vt), s) = Total(f, s)
  BY <1>2, <1>3, <1>5, <1>7, <1>9
<1> QED  BY <1>10 DEF g2, g1, g0

LEMMA MoveKeepsSupply ==
    ASSUME balance \in [Accounts -> Nat], NEW from \in Accounts, NEW to \in Accounts,
           NEW value \in Nat, balance[from] >= value, Move(from, to, value, value)
    PROVE  Supply' = Supply
<1> PICK f \in [Accounts -> Nat] : f = balance
  OBVIOUS
<1>1. balance' = With(With(f, from, -value), to, value)
  BY DEF Move, With
<1>2. Total(With(With(f, from, -value), to, value), Accounts) = Total(f, Accounts)
  BY TokenAssumption, TotalMoved
<1> QED  BY <1>1, <1>2 DEF Supply

LEMMA PayKeepsSupply ==
    ASSUME balance \in [Accounts -> Nat], NEW e \in Accounts, NEW payout \in Payout,
           escrow[e].buyer \in Accounts \ {e}, escrow[e].seller \in Accounts \ {e},
           Treasury # e, balance[e] >= PaidOut(payout), Pay(e, payout)
    PROVE  Supply' = Supply
<1> PICK buyer \in Accounts \ {e}, seller \in Accounts \ {e} :
        buyer = escrow[e].buyer /\ seller = escrow[e].seller
  OBVIOUS
<1> PICK f \in [Accounts -> Nat] : f = balance
  OBVIOUS
<1> PICK vb \in Nat, vr \in Nat, vt \in Nat :
        vb = payout.buyer /\ vr = payout.net /\ vt = payout.fee
  BY DEF Payout
<1>1. PaidOut(payout) = vb + vr + vt
  BY DEF PaidOut
<1> DEFINE g == With(With(With(With(f, e, -(vb + vr + vt)), buyer, vb), seller, vr),
                     Treasury, vt)
<1>2. balance' = g
  BY <1>1 DEF Pay, With
<1>3. Treasury \in Accounts \ {e} /\ f[e] >= vb + vr + vt
  BY <1>1, EscrowAssumption
<1>4. Total(g, Accounts) = Total(f, Accounts)
  BY <1>3, TokenAssumption, TotalPaid
<1> HIDE DEF g
<1> QED  BY <1>2, <1>4 DEF Supply

\* A clone that was initialised has two parties that hold tokens.
AccountsNamed ==
    \A e \in Escrows : ~In(e, {"NONE"}) => {escrow[e].buyer, escrow[e].seller} \subseteq Parties

\* What a step may do to the balances.
MoneyMoves ==
    \/ UNCHANGED balance
    \/ \E e \in Escrows : Pull(e) \/ \E p \in Parties : Donate(e, p)
    \/ \E e \in Escrows, result \in Resolutions : In(e, Live) /\ Settle(e, result)

LEMMA CallMovesMoney ==
    ASSUME NEW e \in Escrows, CloneCall(e) \/ PanelCall(e)
    PROVE  MoneyMoves
<1>1. CASE CloneCall(e)
  <2>1. CASE DepositFunds(e) \/ FundWithAuthorization(e) \/ \E p \in Parties : Donate(e, p)
    BY <2>1 DEF DepositFunds, FundWithAuthorization, MoneyMoves
  <2>2. CASE \/ CancelOffer(e) \/ SubmitDelivery(e)
             \/ \E p \in Parties : SubmitCounterEvidence(e, p)
    BY <2>2 DEF CancelOffer, SubmitDelivery, SubmitCounterEvidence, tokenVars, MoneyMoves
  <2>3. CASE ReleaseFunds(e) \/ RefundBuyer(e) \/ TimeoutRefund(e) \/ Finalize(e)
    <3>1. In(e, Live) /\ (Settle(e, "RELEASE") \/ Settle(e, "REFUND"))
      BY <2>3 DEF ReleaseFunds, RefundBuyer, TimeoutRefund, Finalize, In, Live, Disputable
    <3> QED  BY <3>1 DEF MoneyMoves, Resolutions
  <2>4. ASSUME NEW outcome \in Votes, CouncilResolve(e, outcome)
        PROVE  MoneyMoves
    BY <2>4 DEF CouncilResolve, Votes, Resolutions, In, Live, MoneyMoves
  <2> QED  BY <1>1, <2>1, <2>2, <2>3, <2>4 DEF CloneCall
<1>2. CASE \E p \in Parties : RaiseDispute(e, p, isEscrow[e])
  BY <1>2 DEF RaiseDispute, tokenVars, MoneyMoves
<1>3. CASE Execute(e)
  <2>1. Outcome(cases[e]) \in Resolutions
    BY DEF Outcome, Resolutions
  <2> QED  BY <1>3, <2>1 DEF Execute, In, Live, MoneyMoves
<1> QED  BY <1>1, <1>2, <1>3 DEF PanelCall

LEMMA MovesKeepSupply ==
    ASSUME TypeOK, AccountsNamed, MoneyMoves
    PROVE  Supply' = Supply
<1>0. /\ balance \in [Accounts -> Nat] /\ escrow \in [Escrows -> Clone]
      /\ Escrows \subseteq Accounts /\ Parties \subseteq Accounts
  BY PanelAssumption, EscrowAssumption DEF TypeOK, TokenTypeOK, EscrowTypeOK
<1>1. CASE UNCHANGED balance
  BY <1>1 DEF Supply
<1>2. ASSUME NEW e \in Escrows, Pull(e)
      PROVE  Supply' = Supply
  <2>1. PICK skim \in Skims :
            /\ DeliveredInFull(e, escrow[e].amount - skim)
            /\ Move(escrow[e].buyer, e, escrow[e].amount, escrow[e].amount - skim)
    BY <1>2 DEF Pull
  <2>2. PICK from \in Accounts, value \in Nat : from = escrow[e].buyer /\ value = escrow[e].amount
    BY <1>0, <1>2 DEF AccountsNamed, Pull, In, Clone
  <2>3. Move(from, e, value, value) /\ balance[from] >= value
    BY <1>2, <2>1, <2>2 DEF DeliveredInFull, Pull, CanMove
  <2> QED  BY <1>0, <2>3, MoveKeepsSupply
<1>3. ASSUME NEW e \in Escrows, NEW p \in Parties, Donate(e, p)
      PROVE  Supply' = Supply
  <2>1. Move(p, e, 1, 1) /\ balance[p] >= 1
    BY <1>3 DEF Donate, CanMove
  <2> QED  BY <1>0, <2>1, MoveKeepsSupply
<1>4. ASSUME NEW e \in Escrows, NEW result \in Resolutions, In(e, Live), Settle(e, result)
      PROVE  Supply' = Supply
  <2>1. escrow[e].amount \in Nat
    BY <1>0 DEF Clone
  <2>2. PICK payout \in Payout : payout = PayoutOf(result, escrow[e].amount)
    BY <2>1, PayoutFacts
  <2>3. Pay(e, payout) /\ balance[e] >= PaidOut(payout)
    BY <1>4, <2>2 DEF Settle, CanPay
  <2>4. /\ escrow[e].buyer \in Accounts \ {e} /\ escrow[e].seller \in Accounts \ {e}
        /\ Treasury # e
    BY <1>0, <1>4, EscrowAssumption DEF AccountsNamed, In, Live
  <2> QED  BY <1>0, <2>3, <2>4, PayKeepsSupply
<1> QED  BY <1>1, <1>2, <1>3, <1>4 DEF MoneyMoves

\* A clone's parties are named once, by the factory.
LEMMA NamesKept ==
    ASSUME AccountsNamed,
           \A f \in Escrows :
               /\ escrow'[f].buyer = escrow[f].buyer /\ escrow'[f].seller = escrow[f].seller
               /\ escrow[f].state = "NONE" => escrow'[f].state = "NONE"
    PROVE  AccountsNamed'
BY DEF AccountsNamed, In

LEMMA CallKeepsNames ==
    ASSUME TypeOK, AccountsNamed, NEW e \in Escrows, CloneCall(e) \/ PanelCall(e)
    PROVE  AccountsNamed'
<1>0. escrow \in [Escrows -> Clone]
  BY DEF TypeOK, EscrowTypeOK
<1>1. CASE UNCHANGED escrow
  BY <1>1, NamesKept
<1>2. ASSUME NEW new, escrow' = [escrow EXCEPT ![e] = new], escrow[e].state # "NONE",
             new.buyer = escrow[e].buyer, new.seller = escrow[e].seller
      PROVE  AccountsNamed'
  BY <1>0, <1>2, NamesKept
<1>3. CASE Pull(e)
  <2> DEFINE new == [escrow[e] EXCEPT !.state = "LOCKED",
                                      !.workDeadline = Deadline(escrow[e].workDuration)]
  <2>1. escrow' = [escrow EXCEPT ![e] = new] /\ escrow[e].state # "NONE"
    BY <1>3 DEF Pull, Lock, In
  <2>2. new.buyer = escrow[e].buyer /\ new.seller = escrow[e].seller
    BY <1>0 DEF Clone
  <2> QED  BY <1>2, <2>1, <2>2
<1>4. ASSUME NEW result, In(e, Live), Settle(e, result)
      PROVE  AccountsNamed'
  <2> DEFINE new == [escrow[e] EXCEPT !.state = "RESOLVED", !.resolution = result]
  <2>1. escrow' = [escrow EXCEPT ![e] = new] /\ escrow[e].state # "NONE"
    BY <1>4 DEF Settle, Close, In, Live
  <2>2. new.buyer = escrow[e].buyer /\ new.seller = escrow[e].seller
    BY <1>0 DEF Clone
  <2> QED  BY <1>2, <2>1, <2>2
<1>5. CASE CancelOffer(e)
  <2>1. escrow' = [escrow EXCEPT ![e] = [escrow[e] EXCEPT !.state = "EXPIRED"]]
        /\ escrow[e].state # "NONE"
    BY <1>5 DEF CancelOffer, In
  <2> QED  BY <1>0, <1>2, <2>1 DEF Clone
<1>6. CASE SubmitDelivery(e)
  <2> DEFINE new == [escrow[e] EXCEPT !.state = "SUBMITTED",
                                      !.reviewDeadline = Deadline(escrow[e].reviewWindow)]
  <2>1. escrow' = [escrow EXCEPT ![e] = new] /\ escrow[e].state # "NONE"
    BY <1>6 DEF SubmitDelivery, In
  <2>2. new.buyer = escrow[e].buyer /\ new.seller = escrow[e].seller
    BY <1>0 DEF Clone
  <2> QED  BY <1>2, <2>1, <2>2
<1>7. ASSUME NEW p, SubmitCounterEvidence(e, p)
      PROVE  AccountsNamed'
  <2>1. escrow' = [escrow EXCEPT ![e] = [escrow[e] EXCEPT !.counterEvidenceSubmitted = TRUE]]
        /\ escrow[e].state # "NONE"
    BY <1>7 DEF SubmitCounterEvidence, In
  <2> QED  BY <1>0, <1>2, <2>1 DEF Clone
<1>8. ASSUME NEW p, RaiseDispute(e, p, isEscrow[e])
      PROVE  AccountsNamed'
  <2> DEFINE new == [escrow[e] EXCEPT !.state = "DISPUTED",
                        !.disputedAt = now,
                        !.counterEvidenceDeadline = Deadline(EvidenceWindow),
                        !.disputeRaisedBy = p]
  <2>1. escrow' = [escrow EXCEPT ![e] = new] /\ escrow[e].state # "NONE"
    BY <1>8 DEF RaiseDispute, In, Disputable
  <2>2. new.buyer = escrow[e].buyer /\ new.seller = escrow[e].seller
    BY <1>0 DEF Clone
  <2> QED  BY <1>2, <2>1, <2>2
<1>9. CASE CloneCall(e)
  <2>1. CASE DepositFunds(e) \/ FundWithAuthorization(e)
    BY <1>3, <2>1 DEF DepositFunds, FundWithAuthorization
  <2>2. CASE ReleaseFunds(e) \/ RefundBuyer(e) \/ TimeoutRefund(e) \/ Finalize(e)
    <3>1. In(e, Live) /\ (Settle(e, "RELEASE") \/ Settle(e, "REFUND"))
      BY <2>2 DEF ReleaseFunds, RefundBuyer, TimeoutRefund, Finalize, In, Live, Disputable
    <3> QED  BY <1>4, <3>1
  <2>3. ASSUME NEW outcome \in Votes, CouncilResolve(e, outcome)
        PROVE  AccountsNamed'
    <3>1. In(e, Live) /\ Settle(e, outcome)
      BY <2>3 DEF CouncilResolve, In, Live
    <3> QED  BY <1>4, <3>1
  <2>4. CASE \E p \in Parties : Donate(e, p)
    BY <1>1, <2>4 DEF Donate
  <2> QED  BY <1>5, <1>6, <1>7, <1>9, <2>1, <2>2, <2>3, <2>4 DEF CloneCall
<1>10. CASE PanelCall(e)
  <2>1. CASE Execute(e)
    <3>1. In(e, Live) /\ Settle(e, Outcome(cases[e]))
      BY <2>1 DEF Execute, In, Live
    <3> QED  BY <1>4, <3>1
  <2> QED  BY <1>8, <1>10, <2>1 DEF PanelCall
<1> QED  BY <1>9, <1>10

SupplyInv == AccountsNamed /\ Supply = Cardinality(Parties) * InitialFunds

LEMMA SupplyInit == Init => SupplyInv
<1> SUFFICES ASSUME Init PROVE SupplyInv
  OBVIOUS
<1>1. AccountsNamed
  BY DEF Init, EscrowInit, FreshClone, AccountsNamed, In
<1>2. balance = [x \in Accounts |-> IF x \in Parties THEN InitialFunds ELSE 0]
  BY DEF Init
<1>3. Total([x \in Accounts |-> IF x \in Parties THEN InitialFunds ELSE 0], Accounts)
        = Cardinality(Parties) * InitialFunds
  BY TokenAssumption, EscrowAssumption, MarketAssumption, TotalOfEqualShares
<1> QED  BY <1>1, <1>2, <1>3 DEF SupplyInv, Supply

LEMMA SupplyStep == TypeOK /\ SupplyInv /\ [Next]_vars => SupplyInv'
<1> SUFFICES ASSUME TypeOK, SupplyInv, [Next]_vars PROVE SupplyInv'
  OBVIOUS
<1>0. AccountsNamed
  BY DEF SupplyInv
<1>1. CASE \/ TimePasses \/ TokenIssuer \/ RegistryOwner \/ PanelOwner \/ UNCHANGED vars
           \/ \E e \in Escrows : Buyer(e) \/ Reviewer(e) \/ Attester(e)
  <2>1. UNCHANGED <<escrow, balance>>
    BY <1>1 DEF TimePasses, TokenIssuer, Freeze, RegistryOwner, PanelOwner, Buyer, GiveConsent,
       Reviewer, Attester, vars, tokenVars, escrowVars
  <2> QED  BY <2>1 DEF SupplyInv, AccountsNamed, In, Supply
<1>2. ASSUME NEW e \in Escrows, Vendor(e)
      PROVE  SupplyInv'
  <2>1. PICK seller \in Parties, buyer \in Parties :
            /\ UNCHANGED balance
            /\ \A f \in Escrows \ {e} : escrow'[f] = escrow[f]
            /\ escrow'[e].buyer = buyer /\ escrow'[e].seller = seller
    BY <1>2 DEF Vendor, CreateEscrow, Initialize, FreshClone, tokenVars, TypeOK, EscrowTypeOK
  <2>2. AccountsNamed'
    BY <1>0, <2>1 DEF AccountsNamed, In
  <2> QED  BY <2>1, <2>2 DEF SupplyInv, Supply
<1>3. ASSUME NEW e \in Escrows, CloneCall(e) \/ PanelCall(e)
      PROVE  SupplyInv'
  <2>1. AccountsNamed'
    BY <1>0, <1>3, CallKeepsNames
  <2>2. Supply' = Supply
    BY <1>0, <1>3, CallMovesMoney, MovesKeepSupply
  <2> QED  BY <2>1, <2>2 DEF SupplyInv
<1> QED  BY <1>1, <1>2, <1>3 DEF Next

(***************************************************************************)
(* No call, in any order and with any short delivery of the token, creates *)
(* or loses a unit: with what the clones hold and have paid, the balances  *)
(* of all accounts are those the parties began with.                       *)
(***************************************************************************)
THEOREM LedgersAlwaysAgree == Spec => []LedgersAgree
<1>1. TypeInv => TypeOK
  BY DEF TypeInv
<1>2. TypeOK /\ SupplyInv => SupplyConserved
  BY SupplyIsSum DEF TypeOK, TokenTypeOK, SupplyInv, SupplyConserved
<1>3. Spec => [](TypeOK /\ SupplyInv)
  BY <1>1, TypeInit, TypeStep, SupplyInit, SupplyStep, PTL DEF Spec
<1>4. TypeOK /\ SupplyInv /\ MoneyInv => LedgersAgree
  BY <1>2 DEF MoneyInv, LedgersAgree
<1> QED  BY <1>3, <1>4, MoneyAlways, PTL

-----------------------------------------------------------------------------
(***************************************************************************)
(* The dispute panel and the finality of outcomes, for any number of       *)
(* reviewers, listed and delisted at any time, and any windows.            *)
(***************************************************************************)

(***************************************************************************)
(* What a call on one clone may do to the clones: a closed one stays as it *)
(* is, whichever clone the call is on.                                     *)
(***************************************************************************)
Closed == {"RESOLVED", "EXPIRED"}

LEMMA SettleTouchesOne ==
    ASSUME TypeOK, NEW e \in Escrows, NEW result, Settle(e, result)
    PROVE  /\ escrow'[e].state = "RESOLVED"
           /\ escrow'[e].resolution = result
           /\ \A f \in Escrows \ {e} :
                escrow'[f] = escrow[f] /\ paidOut'[f] = paidOut[f]
BY DEF Settle, Close, TypeOK, EscrowTypeOK, Clone

LEMMA CloneCallTouchesOne ==
    ASSUME TypeOK, NEW e \in Escrows, CloneCall(e), NEW f \in Escrows,
           In(f, Closed)
    PROVE  escrow'[f] = escrow[f] /\ paidOut'[f] = paidOut[f]
<1>0. escrow \in [Escrows -> Clone] /\ paidOut \in [Escrows -> Payout]
  BY DEF TypeOK, EscrowTypeOK
<1>1. CASE DepositFunds(e) \/ FundWithAuthorization(e)
  <2>1. Pull(e)
    BY <1>1 DEF DepositFunds, FundWithAuthorization
  <2>2. e # f
    BY <2>1 DEF Pull, In, Closed
  <2>3. QED
    BY <1>0, <2>1, <2>2 DEF Pull, Lock
<1>2. CASE CancelOffer(e)
  BY <1>0, <1>2 DEF CancelOffer, In, Closed
<1>3. CASE SubmitDelivery(e)
  BY <1>0, <1>3 DEF SubmitDelivery, In, Closed
<1>4. CASE \E p \in Parties : SubmitCounterEvidence(e, p)
  BY <1>0, <1>4 DEF SubmitCounterEvidence, In, Closed
<1>5. CASE \E p \in Parties : Donate(e, p)
  BY <1>5 DEF Donate
<1>6. CASE \/ ReleaseFunds(e) \/ RefundBuyer(e) \/ TimeoutRefund(e)
           \/ Finalize(e) \/ \E outcome \in Votes : CouncilResolve(e, outcome)
  <2>1. /\ \E result : Settle(e, result)
        /\ In(e, Live)
    BY <1>6 DEF ReleaseFunds, RefundBuyer, TimeoutRefund, Finalize,
                CouncilResolve, In, Live, Disputable
  <2>2. e # f
    BY <2>1 DEF In, Live, Closed
  <2>3. QED
    BY <2>1, <2>2, SettleTouchesOne
<1>7. QED
  BY <1>1, <1>2, <1>3, <1>4, <1>5, <1>6 DEF CloneCall

LEMMA PanelCallTouchesOne ==
    ASSUME TypeOK, NEW e \in Escrows, PanelCall(e), NEW f \in Escrows,
           In(f, Closed)
    PROVE  /\ escrow'[f] = escrow[f]
           /\ paidOut'[f] = paidOut[f]
           /\ cases'[f] = cases[f]
<1>0. /\ escrow \in [Escrows -> Clone]
      /\ cases \in [Escrows -> Case]
  BY DEF TypeOK, EscrowTypeOK, PanelTypeOK
<1>1. CASE \E p \in Parties : RaiseDispute(e, p, isEscrow[e])
  <2>1. PICK p \in Parties : RaiseDispute(e, p, isEscrow[e])
    BY <1>1
  <2>2. e # f
    BY <2>1 DEF RaiseDispute, In, Disputable, Closed
  <2>3. QED
    BY <1>0, <2>1, <2>2 DEF RaiseDispute, Open
<1>2. CASE Execute(e)
  <2>1. e # f
    BY <1>2 DEF Execute, In, Closed
  <2>2. QED
    BY <1>0, <1>2, <2>1, SettleTouchesOne DEF Execute, MarkExecuted
<1>3. QED
  BY <1>1, <1>2 DEF PanelCall

LEMMA ReviewerKeepsExecuted ==
    ASSUME TypeOK, NEW e \in Escrows, Reviewer(e), NEW f \in Escrows
    PROVE  cases'[f].executed = cases[f].executed
<1>1. PICK a \in Arbiters : Commit(e, a) \/ \E v \in Votes : Reveal(e, a, v)
  BY DEF Reviewer
<1>2. CASE Commit(e, a)
  BY <1>2 DEF Commit
<1>3. ASSUME NEW v \in Votes, Reveal(e, a, v)
      PROVE  cases'[f].executed = cases[f].executed
  <2>1. cases \in [Escrows -> Case] /\ cases[e] \in Case
    BY DEF TypeOK, PanelTypeOK
  <2>2. Counted(cases[e], v).executed = cases[e].executed
    BY <2>1, CountedFacts
  <2>3. QED
    BY <1>3, <2>1, <2>2 DEF Reveal
<1>4. QED
  BY <1>1, <1>2, <1>3

LEMMA FinalStep ==
    ASSUME TypeInv, [Next]_vars, NEW f \in Escrows, In(f, Closed)
    PROVE  /\ escrow'[f] = escrow[f]
           /\ paidOut'[f] = paidOut[f]
           /\ cases'[f].executed = cases[f].executed
<1>0. TypeOK /\ escrow \in [Escrows -> Clone]
  BY DEF TypeInv, TypeOK, EscrowTypeOK
<1>1. CASE \/ TimePasses \/ TokenIssuer \/ RegistryOwner \/ UNCHANGED vars
  BY <1>1 DEF TimePasses, TokenIssuer, RegistryOwner, vars, panelVars, escrowVars
<1>2. CASE PanelOwner
  BY <1>2 DEF PanelOwner, SetFactory, escrowVars
<1>3. ASSUME NEW e \in Escrows, Vendor(e)
      PROVE  /\ escrow'[f] = escrow[f]
             /\ paidOut'[f] = paidOut[f]
             /\ cases'[f].executed = cases[f].executed
  BY <1>0, <1>3 DEF Vendor, CreateEscrow, Initialize, In, Closed, panelVars
<1>4. ASSUME NEW e \in Escrows, Buyer(e) \/ Attester(e)
      PROVE  /\ escrow'[f] = escrow[f]
             /\ paidOut'[f] = paidOut[f]
             /\ cases'[f].executed = cases[f].executed
  BY <1>4 DEF Buyer, GiveConsent, Attester, panelVars, escrowVars
<1>5. ASSUME NEW e \in Escrows, Reviewer(e)
      PROVE  /\ escrow'[f] = escrow[f]
             /\ paidOut'[f] = paidOut[f]
             /\ cases'[f].executed = cases[f].executed
  BY <1>0, <1>5, ReviewerKeepsExecuted DEF Reviewer, escrowVars
<1>6. ASSUME NEW e \in Escrows, CloneCall(e)
      PROVE  /\ escrow'[f] = escrow[f]
             /\ paidOut'[f] = paidOut[f]
             /\ cases'[f].executed = cases[f].executed
  <2>1. UNCHANGED cases
    BY <1>6 DEF CloneCall, panelVars
  <2>2. QED
    BY <1>0, <1>6, <2>1, CloneCallTouchesOne
<1>7. ASSUME NEW e \in Escrows, PanelCall(e)
      PROVE  /\ escrow'[f] = escrow[f]
             /\ paidOut'[f] = paidOut[f]
             /\ cases'[f].executed = cases[f].executed
  BY <1>0, <1>7, PanelCallTouchesOne
<1>8. QED
  BY <1>1, <1>2, <1>3, <1>4, <1>5, <1>6, <1>7 DEF Next

(***************************************************************************)
(* No call of any contract changes a resolved or lapsed order, its         *)
(* payments, or whether the panel counts its case as executed.             *)
(***************************************************************************)
THEOREM OutcomeFinal == Spec => OutcomeIsFinal
<1> DEFINE Final == \A e \in Escrows :
        In(e, {"RESOLVED", "EXPIRED"}) =>
            /\ escrow'[e] = escrow[e]
            /\ paidOut'[e] = paidOut[e]
            /\ cases'[e].executed = cases[e].executed
<1>1. TypeInv /\ [Next]_vars => Final
  BY FinalStep DEF Closed
<1>2. TypeInv /\ [Next]_vars => [Final]_vars
  BY <1>1
<1> HIDE DEF Final
<1>3. Spec => [][Final]_vars
  BY <1>2, TypeInit, TypeStep, PTL DEF Spec
<1>4. QED
  BY <1>3 DEF OutcomeIsFinal, Final

-----------------------------------------------------------------------------
(***************************************************************************)
(* The panel.  What the tallies need besides themselves: a shown vote has  *)
(* a commitment behind it, none is shown before the commit window of an    *)
(* opened case is over, and an executed case has settled its clone.        *)
(***************************************************************************)
ShownWereSealed ==
    \A e \in Escrows : \A a \in revealed[e] : commitments[e][a] # NoCommitment

ShownAfterCommits ==
    \A e \in Escrows :
        revealed[e] # {} => Opened(e) /\ cases[e].commitDeadline <= now

ExecutedIsSettled ==
    \A e \in Escrows :
        cases[e].executed =>
            /\ In(e, {"RESOLVED"})
            /\ escrow[e].resolution = Outcome(cases[e])

DisputeInv ==
    TallyMatchesSeals /\ ShownWereSealed /\ ShownAfterCommits /\ ExecutedIsSettled

LEMMA DisputeInit == Init => DisputeInv
<1> SUFFICES ASSUME Init PROVE DisputeInv
  OBVIOUS
<1>1. ASSUME NEW e \in Escrows
      PROVE  /\ revealed[e] = {} /\ cases[e] = NoCase
             /\ \A v : VotesFor(e, v) = {}
  BY <1>1 DEF Init, PanelInit, VotesFor
<1>2. TallyMatchesSeals
  BY <1>1, FS_EmptySet DEF TallyMatchesSeals, NoCase
<1>3. ShownWereSealed /\ ShownAfterCommits /\ ExecutedIsSettled
  BY <1>1 DEF ShownWereSealed, ShownAfterCommits, ExecutedIsSettled, NoCase
<1>4. QED
  BY <1>2, <1>3 DEF DisputeInv

(***************************************************************************)
(* A step that leaves the panel alone keeps it, as time only grows and a   *)
(* settled clone stays settled.                                            *)
(***************************************************************************)
LEMMA PanelUntouched ==
    ASSUME TypeInv, DisputeInv, [Next]_vars,
           UNCHANGED <<cases, commitments, revealed>>
    PROVE  DisputeInv'
<1>1. now <= now' /\ now \in Nat /\ now' \in Nat
  <2>1. now \in Nat
    BY TokenAssumption DEF TypeInv, TypeOK, TokenTypeOK
  <2>2. now' = now \/ now' = now + 1
    BY DEF Next, vars, TimePasses, Tick, TokenIssuer, Freeze, RegistryOwner,
           PanelOwner, Vendor, Buyer, CloneCall, PanelCall, Reviewer, Attester
  <2>3. QED
    BY <2>1, <2>2
<1>2. TallyMatchesSeals'
  BY DEF DisputeInv, TallyMatchesSeals, VotesFor
<1>3. ShownWereSealed'
  BY DEF DisputeInv, ShownWereSealed
<1>4. ShownAfterCommits'
  <2> SUFFICES ASSUME NEW e \in Escrows, revealed[e] # {}
               PROVE  Opened(e) /\ cases[e].commitDeadline <= now'
    BY DEF ShownAfterCommits, Opened
  <2>1. cases[e].commitDeadline \in Nat
    BY DEF TypeInv, TypeOK, PanelTypeOK, Case
  <2>2. QED
    BY <1>1, <2>1 DEF DisputeInv, ShownAfterCommits
<1>5. ExecutedIsSettled'
  <2> SUFFICES ASSUME NEW e \in Escrows, cases[e].executed
               PROVE  /\ escrow'[e].state = "RESOLVED"
                      /\ escrow'[e].resolution = Outcome(cases[e])
    BY DEF ExecutedIsSettled, Outcome, In
  <2>1. In(e, {"RESOLVED"}) /\ escrow[e].resolution = Outcome(cases[e])
    BY DEF DisputeInv, ExecutedIsSettled
  <2>2. escrow'[e] = escrow[e]
    BY <2>1, FinalStep DEF In, Closed
  <2>3. QED
    BY <2>1, <2>2 DEF In
<1>6. QED
  BY <1>2, <1>3, <1>4, <1>5 DEF DisputeInv

(***************************************************************************)
(* A reviewer's commitment changes no tally: it had none, so it had shown  *)
(* no vote.                                                                *)
(***************************************************************************)
LEMMA CommitKeepsPanel ==
    ASSUME TypeInv, DisputeInv, NEW e \in Escrows, NEW a \in Arbiters,
           Commit(e, a), UNCHANGED <<now, escrow>>
    PROVE  DisputeInv'
<1>1. PICK seal \in Seals :
          commitments' = [commitments EXCEPT ![e][a] = seal]
  <2>1. Submittable(e, a) \subseteq Seals
    BY DEF Submittable, Seals, TypeInv, TypeOK, PanelTypeOK
  <2>2. QED
    BY <2>1 DEF Commit
<1>2. /\ commitments \in [Escrows -> [Arbiters -> Seals \cup {NoCommitment}]]
      /\ UNCHANGED <<cases, revealed>>
      /\ commitments[e][a] = NoCommitment
      /\ seal # NoCommitment
  BY PanelAssumption DEF Commit, Uncommitted, TypeInv, TypeOK, PanelTypeOK
<1>3. a \notin revealed[e]
  BY <1>2 DEF DisputeInv, ShownWereSealed
<1>4. ASSUME NEW f \in Escrows, NEW b \in revealed[f]
      PROVE  commitments'[f][b] = commitments[f][b]
  <2>1. b \in Arbiters /\ (f # e \/ b # a)
    BY <1>3, <1>4 DEF TypeInv, TypeOK, PanelTypeOK
  <2>2. QED
    BY <1>1, <1>2, <2>1
<1>5. \A f \in Escrows, v \in Votes : VotesFor(f, v)' = VotesFor(f, v)
  BY <1>2, <1>4 DEF VotesFor
<1>6. TallyMatchesSeals'
  BY <1>2, <1>5 DEF DisputeInv, TallyMatchesSeals, Votes
<1>7. ShownWereSealed'
  BY <1>2, <1>4 DEF DisputeInv, ShownWereSealed
<1>8. ShownAfterCommits' /\ ExecutedIsSettled'
  BY <1>2 DEF DisputeInv, ShownAfterCommits, ExecutedIsSettled, Opened, In, Outcome
<1>9. QED
  BY <1>6, <1>7, <1>8 DEF DisputeInv

(***************************************************************************)
(* A shown vote adds its reviewer to exactly one of the three counts.      *)
(***************************************************************************)
LEMMA RevealKeepsPanel ==
    ASSUME TypeInv, DisputeInv, NEW e \in Escrows, NEW a \in Arbiters,
           NEW v \in Votes, Reveal(e, a, v), UNCHANGED <<now, escrow>>
    PROVE  DisputeInv'
<1>1. /\ cases \in [Escrows -> Case]
      /\ cases[e] \in Case
      /\ revealed \in [Escrows -> SUBSET Arbiters]
      /\ commitments \in [Escrows -> [Arbiters -> Seals \cup {NoCommitment}]]
  BY DEF TypeInv, TypeOK, PanelTypeOK
<1>2. /\ a \notin revealed[e]
      /\ commitments[e][a] = <<e, a, v>>
      /\ Opened(e) /\ Unexecuted(e)
      /\ cases[e].commitDeadline <= now
      /\ revealed' = [revealed EXCEPT ![e] = @ \cup {a}]
      /\ cases' = [cases EXCEPT ![e] = Counted(cases[e], v)]
      /\ UNCHANGED commitments
  BY DEF Reveal, NotRevealed, Opens, RevealOpen
<1>3. /\ revealed'[e] = revealed[e] \cup {a}
      /\ cases'[e] = Counted(cases[e], v)
      /\ \A f \in Escrows \ {e} : revealed'[f] = revealed[f] /\ cases'[f] = cases[f]
  BY <1>1, <1>2
<1>4. \A w \in Votes : VotesFor(e, w) \subseteq revealed[e]
  BY DEF VotesFor
<1>5. /\ IsFiniteSet(revealed[e])
      /\ \A w \in Votes : IsFiniteSet(VotesFor(e, w))
  BY <1>1, <1>4, ArbiterAssumption, FS_Subset
<1>6. ASSUME NEW w \in Votes
      PROVE  Cardinality(VotesFor(e, w)') = Cardinality(VotesFor(e, w)) + One(w, v)
  <2>1. CASE w = v
    <3>1. VotesFor(e, w)' = VotesFor(e, w) \cup {a}
      BY <1>2, <1>3, <2>1 DEF VotesFor
    <3>2. a \notin VotesFor(e, w)
      BY <1>2, <1>4
    <3>3. QED
      BY <1>5, <2>1, <3>1, <3>2, FS_AddElement DEF One
  <2>2. CASE w # v
    <3>1. VotesFor(e, w)' = VotesFor(e, w)
      BY <1>2, <1>3, <2>2 DEF VotesFor
    <3>2. Cardinality(VotesFor(e, w)) \in Nat
      BY <1>5, FS_CardinalityType
    <3>3. QED
      BY <2>2, <3>1, <3>2 DEF One
  <2>3. QED
    BY <2>1, <2>2
<1>7. Cardinality(revealed'[e]) = Cardinality(revealed[e]) + 1
  BY <1>2, <1>3, <1>5, FS_AddElement
<1>8. TallyMatchesSeals'
  <2> SUFFICES ASSUME NEW f \in Escrows
               PROVE  /\ cases'[f].revealCount = Cardinality(revealed'[f])
                      /\ cases'[f].releaseVotes = Cardinality(VotesFor(f, "RELEASE")')
                      /\ cases'[f].refundVotes = Cardinality(VotesFor(f, "REFUND")')
                      /\ cases'[f].splitVotes = Cardinality(VotesFor(f, "SPLIT")')
    BY DEF TallyMatchesSeals
  <2>1. CASE f = e
    <3>1. {"RELEASE", "REFUND", "SPLIT"} \subseteq Votes
      BY DEF Votes
    <3>2. /\ cases[e].revealCount = Cardinality(revealed[e])
          /\ cases[e].releaseVotes = Cardinality(VotesFor(e, "RELEASE"))
          /\ cases[e].refundVotes = Cardinality(VotesFor(e, "REFUND"))
          /\ cases[e].splitVotes = Cardinality(VotesFor(e, "SPLIT"))
      BY DEF DisputeInv, TallyMatchesSeals
    <3>3. /\ cases'[e].revealCount = cases[e].revealCount + 1
          /\ cases'[e].releaseVotes = cases[e].releaseVotes + One("RELEASE", v)
          /\ cases'[e].refundVotes = cases[e].refundVotes + One("REFUND", v)
          /\ cases'[e].splitVotes = cases[e].splitVotes + One("SPLIT", v)
      BY <1>1, <1>3, CountedFacts
    <3>4. /\ Cardinality(VotesFor(e, "RELEASE")') =
                Cardinality(VotesFor(e, "RELEASE")) + One("RELEASE", v)
          /\ Cardinality(VotesFor(e, "REFUND")') =
                Cardinality(VotesFor(e, "REFUND")) + One("REFUND", v)
          /\ Cardinality(VotesFor(e, "SPLIT")') =
                Cardinality(VotesFor(e, "SPLIT")) + One("SPLIT", v)
      BY <1>6, <3>1
    <3>5. QED
      BY <1>7, <2>1, <3>2, <3>3, <3>4
  <2>2. CASE f # e
    <3>1. \A w \in Votes : VotesFor(f, w)' = VotesFor(f, w)
      BY <1>2, <1>3, <2>2 DEF VotesFor
    <3>2. QED
      BY <1>3, <2>2, <3>1 DEF DisputeInv, TallyMatchesSeals, Votes
  <2>3. QED
    BY <2>1, <2>2
<1>9. ShownWereSealed'
  <2>1. <<e, a, v>> # NoCommitment
    BY PanelAssumption DEF Seals
  <2>2. QED
    BY <1>2, <1>3, <2>1 DEF DisputeInv, ShownWereSealed
<1>10. ShownAfterCommits'
  <2>1. Counted(cases[e], v).commitDeadline = cases[e].commitDeadline
    BY <1>1, CountedFacts
  <2>2. QED
    BY <1>2, <1>3, <2>1 DEF DisputeInv, ShownAfterCommits, Opened
<1>11. ExecutedIsSettled'
  <2>1. ~cases'[e].executed
    BY <1>1, <1>2, <1>3, CountedFacts DEF Unexecuted
  <2>2. QED
    BY <1>3, <2>1 DEF DisputeInv, ExecutedIsSettled, In, Outcome
<1>12. QED
  BY <1>8, <1>9, <1>10, <1>11 DEF DisputeInv

(***************************************************************************)
(* Opening a case finds no votes in it, and starts its windows.            *)
(***************************************************************************)
LEMMA OpenKeepsPanel ==
    ASSUME TypeInv, DisputeInv, [Next]_vars, NEW e \in Escrows,
           NEW p \in Parties, RaiseDispute(e, p, isEscrow[e]), UNCHANGED now
    PROVE  DisputeInv'
<1>1. /\ cases \in [Escrows -> Case]
      /\ cases[e] \in Case
      /\ revealed[e] = {}
      /\ ~cases[e].executed
  <2>1. ~Opened(e) /\ ~In(e, {"RESOLVED"})
    BY DEF RaiseDispute, Open, In, Disputable
  <2>2. QED
    BY <2>1 DEF TypeInv, TypeOK, PanelTypeOK, DisputeInv, ShownAfterCommits,
                ExecutedIsSettled
<1>2. /\ \A f \in Escrows \ {e} : cases'[f] = cases[f]
      /\ cases'[e].revealCount = cases[e].revealCount
      /\ cases'[e].releaseVotes = cases[e].releaseVotes
      /\ cases'[e].refundVotes = cases[e].refundVotes
      /\ cases'[e].splitVotes = cases[e].splitVotes
      /\ cases'[e].executed = cases[e].executed
      /\ UNCHANGED <<commitments, revealed>>
  BY <1>1 DEF RaiseDispute, Open, Case
<1>3. ASSUME NEW f \in Escrows
      PROVE  /\ cases'[f].revealCount = cases[f].revealCount
             /\ cases'[f].releaseVotes = cases[f].releaseVotes
             /\ cases'[f].refundVotes = cases[f].refundVotes
             /\ cases'[f].splitVotes = cases[f].splitVotes
  BY <1>2
<1>4. TallyMatchesSeals'
  <2>1. /\ \A f \in Escrows : revealed'[f] = revealed[f]
        /\ \A f \in Escrows, v \in Votes : VotesFor(f, v)' = VotesFor(f, v)
    BY <1>2 DEF VotesFor
  <2>2. QED
    BY <1>3, <2>1 DEF DisputeInv, TallyMatchesSeals, Votes
<1>5. ShownWereSealed'
  BY <1>2 DEF DisputeInv, ShownWereSealed
<1>6. ShownAfterCommits'
  BY <1>1, <1>2 DEF DisputeInv, ShownAfterCommits, Opened
<1>7. ExecutedIsSettled'
  <2> SUFFICES ASSUME NEW f \in Escrows, cases'[f].executed
               PROVE  /\ escrow'[f].state = "RESOLVED"
                      /\ escrow'[f].resolution = Outcome(cases'[f])
    BY DEF ExecutedIsSettled, Outcome, In
  <2>1. f # e /\ cases[f].executed
    BY <1>1, <1>2
  <2>2. In(f, {"RESOLVED"}) /\ escrow[f].resolution = Outcome(cases[f])
    BY <2>1 DEF DisputeInv, ExecutedIsSettled
  <2>3. escrow'[f] = escrow[f]
    BY <2>2, FinalStep DEF In, Closed
  <2>4. QED
    BY <1>2, <2>1, <2>2, <2>3 DEF In
<1>8. QED
  BY <1>4, <1>5, <1>6, <1>7 DEF DisputeInv

(***************************************************************************)
(* execute settles the clone as its tally says, in the step that marks the *)
(* case.                                                                   *)
(***************************************************************************)
LEMMA ExecuteKeepsPanel ==
    ASSUME TypeInv, DisputeInv, [Next]_vars, NEW e \in Escrows, Execute(e),
           UNCHANGED now
    PROVE  DisputeInv'
<1>1. /\ cases \in [Escrows -> Case]
      /\ cases[e] \in Case
      /\ TypeOK
  BY DEF TypeInv, TypeOK, PanelTypeOK
<1>2. /\ \A f \in Escrows \ {e} : cases'[f] = cases[f]
      /\ cases'[e].commitDeadline = cases[e].commitDeadline
      /\ cases'[e].revealCount = cases[e].revealCount
      /\ cases'[e].releaseVotes = cases[e].releaseVotes
      /\ cases'[e].refundVotes = cases[e].refundVotes
      /\ cases'[e].splitVotes = cases[e].splitVotes
      /\ UNCHANGED <<commitments, revealed>>
  BY <1>1 DEF Execute, MarkExecuted, Case
<1>3. ASSUME NEW f \in Escrows
      PROVE  /\ cases'[f].commitDeadline = cases[f].commitDeadline
             /\ cases'[f].revealCount = cases[f].revealCount
             /\ cases'[f].releaseVotes = cases[f].releaseVotes
             /\ cases'[f].refundVotes = cases[f].refundVotes
             /\ cases'[f].splitVotes = cases[f].splitVotes
  BY <1>2
<1>4. TallyMatchesSeals'
  <2>1. /\ \A f \in Escrows : revealed'[f] = revealed[f]
        /\ \A f \in Escrows, v \in Votes : VotesFor(f, v)' = VotesFor(f, v)
    BY <1>2 DEF VotesFor
  <2>2. QED
    BY <1>3, <2>1 DEF DisputeInv, TallyMatchesSeals, Votes
<1>5. ShownWereSealed'
  BY <1>2 DEF DisputeInv, ShownWereSealed
<1>6. ShownAfterCommits'
  BY <1>2, <1>3 DEF DisputeInv, ShownAfterCommits, Opened
<1>7. ExecutedIsSettled'
  <2> SUFFICES ASSUME NEW f \in Escrows, cases'[f].executed
               PROVE  /\ escrow'[f].state = "RESOLVED"
                      /\ escrow'[f].resolution = Outcome(cases'[f])
    BY DEF ExecutedIsSettled, Outcome, In
  <2>0. Outcome(cases'[f]) = Outcome(cases[f])
    BY <1>3 DEF Outcome
  <2>1. CASE f = e
    <3>1. Settle(e, Outcome(cases[e]))
      BY DEF Execute
    <3>2. QED
      BY <1>1, <2>0, <2>1, <3>1, SettleTouchesOne
  <2>2. CASE f # e
    <3>1. In(f, {"RESOLVED"}) /\ escrow[f].resolution = Outcome(cases[f])
      BY <1>2, <2>2 DEF DisputeInv, ExecutedIsSettled
    <3>2. escrow'[f] = escrow[f]
      BY <3>1, FinalStep DEF In, Closed
    <3>3. QED
      BY <2>0, <3>1, <3>2 DEF In
  <2>3. QED
    BY <2>1, <2>2
<1>8. QED
  BY <1>4, <1>5, <1>6, <1>7 DEF DisputeInv

LEMMA DisputeStep == TypeInv /\ DisputeInv /\ [Next]_vars => DisputeInv'
<1> SUFFICES ASSUME TypeInv, DisputeInv, [Next]_vars
             PROVE  DisputeInv'
  OBVIOUS
<1>1. CASE \/ TimePasses \/ TokenIssuer \/ RegistryOwner \/ PanelOwner
           \/ UNCHANGED vars
  BY <1>1, PanelUntouched
     DEF TimePasses, TokenIssuer, RegistryOwner, PanelOwner, SetFactory, vars,
         panelVars
<1>2. ASSUME NEW e \in Escrows,
             Vendor(e) \/ Buyer(e) \/ Attester(e) \/ CloneCall(e)
      PROVE  DisputeInv'
  BY <1>2, PanelUntouched DEF Vendor, Buyer, Attester, CloneCall, panelVars
<1>3. ASSUME NEW e \in Escrows, PanelCall(e)
      PROVE  DisputeInv'
  BY <1>3, OpenKeepsPanel, ExecuteKeepsPanel DEF PanelCall
<1>4. ASSUME NEW e \in Escrows, Reviewer(e)
      PROVE  DisputeInv'
  BY <1>4, CommitKeepsPanel, RevealKeepsPanel DEF Reviewer, escrowVars
<1>5. QED
  BY <1>1, <1>2, <1>3, <1>4 DEF Next

LEMMA DisputeAlways == Spec => [](TypeInv /\ DisputeInv)
BY TypeInit, TypeStep, DisputeInit, DisputeStep, PTL DEF Spec

(***************************************************************************)
(* A case's tallies count each reviewer's own opened seal once, however    *)
(* commitments are copied and reviewers listed and delisted.               *)
(***************************************************************************)
THEOREM TalliesExact == Spec => []TallyMatchesSeals
<1>1. DisputeInv => TallyMatchesSeals
  BY DEF DisputeInv
<1>2. QED
  BY <1>1, DisputeAlways, PTL

(***************************************************************************)
(* What the panel executed is what the shown votes say, and it has settled *)
(* the clone.                                                              *)
(***************************************************************************)
THEOREM VerdictExact == Spec => []VerdictIsTheTally
<1>1. TypeInv /\ DisputeInv => VerdictIsTheTally
  BY DEF DisputeInv, TallyMatchesSeals, ExecutedIsSettled, Outcome,
         VerdictIsTheTally
<1>2. QED
  BY <1>1, DisputeAlways, PTL

(***************************************************************************)
(* The commit window opens at the last instant of the evidence window, and *)
(* whoever has committed did so after that.                                *)
(***************************************************************************)
WindowsMeet ==
    \A e \in Escrows :
        In(e, {"DISPUTED"}) => cases[e].commitStart = escrow[e].counterEvidenceDeadline

CommitsBegan ==
    \A e \in Escrows : Committed(e) => Opened(e) /\ cases[e].commitStart <= now

WindowsInv == WindowsMeet /\ CommitsBegan

LEMMA WindowsInit == Init => WindowsInv
BY DEF Init, EscrowInit, PanelInit, FreshClone, WindowsInv, WindowsMeet, CommitsBegan,
       Committed, In

\* A step that neither touches the panel nor starts a dispute.
LEMMA WindowsStay ==
    ASSUME TypeOK, WindowsInv, UNCHANGED <<cases, commitments>>, now' \in Nat, now <= now',
           \A f \in Escrows :
               escrow'[f].state = "DISPUTED" =>
                   /\ escrow[f].state = "DISPUTED"
                   /\ escrow'[f].counterEvidenceDeadline = escrow[f].counterEvidenceDeadline
    PROVE  WindowsInv'
<1>1. WindowsMeet'
  BY DEF WindowsInv, WindowsMeet, In
<1>2. now \in Nat /\ \A e \in Escrows : cases[e].commitStart \in Nat
  BY DEF TypeOK, TokenTypeOK, PanelTypeOK, Case
<1>3. CommitsBegan'
  BY <1>2 DEF WindowsInv, CommitsBegan, Committed, Opened
<1> QED  BY <1>1, <1>3 DEF WindowsInv

\* What the factory initializes has no dispute.
LEMMA CreatedUndisputed ==
    ASSUME TypeOK, NEW e \in Escrows, Vendor(e)
    PROVE  /\ \A f \in Escrows \ {e} : escrow'[f] = escrow[f]
           /\ escrow'[e].state = "CREATED" /\ ~escrow'[e].counterEvidenceSubmitted
<1>0. escrow \in [Escrows -> Clone]
  BY DEF TypeOK, EscrowTypeOK
<1> PICK seller \in Parties, buyer \in Parties, amount \in Amounts,
         work \in WorkDurations, review \in ReviewWindows :
            CreateEscrow(e, seller, buyer, amount, work, review)
  BY DEF Vendor
<1> DEFINE new == [FreshClone EXCEPT !.state = "CREATED",
                                     !.seller = seller, !.buyer = buyer,
                                     !.amount = amount,
                                     !.offerDeadline = Deadline(OfferTtl),
                                     !.workDuration = work,
                                     !.reviewWindow = review]
<1>1. new.state = "CREATED" /\ ~new.counterEvidenceSubmitted
  BY DEF FreshClone
<1>2. escrow' = [escrow EXCEPT ![e] = new]
  BY DEF CreateEscrow, Initialize
<1> HIDE DEF new
<1> QED  BY <1>0, <1>1, <1>2

\* No call on a clone starts a dispute but raiseDispute.
LEMMA CallsLeaveWindows ==
    ASSUME TypeOK, NEW e \in Escrows, Vendor(e) \/ CloneCall(e), NEW f \in Escrows,
           escrow'[f].state = "DISPUTED"
    PROVE  /\ escrow[f].state = "DISPUTED"
           /\ escrow'[f].counterEvidenceDeadline = escrow[f].counterEvidenceDeadline
<1>0. escrow \in [Escrows -> Clone]
  BY DEF TypeOK, EscrowTypeOK
<1>1. CASE Vendor(e)
  BY <1>1, CreatedUndisputed
<1>2. CASE DepositFunds(e) \/ FundWithAuthorization(e)
  BY <1>0, <1>2 DEF DepositFunds, FundWithAuthorization, Pull, Lock, Clone
<1>3. CASE CancelOffer(e)
  BY <1>0, <1>3 DEF CancelOffer, Clone
<1>6. CASE SubmitDelivery(e)
  BY <1>0, <1>6 DEF SubmitDelivery, Clone
<1>7. CASE \E p \in Parties : SubmitCounterEvidence(e, p)
  BY <1>0, <1>7 DEF SubmitCounterEvidence, Clone
<1>4. CASE \/ ReleaseFunds(e) \/ RefundBuyer(e) \/ TimeoutRefund(e) \/ Finalize(e)
           \/ \E outcome \in Votes : CouncilResolve(e, outcome)
  <2>1. \E result : Settle(e, result)
    BY <1>4 DEF ReleaseFunds, RefundBuyer, TimeoutRefund, Finalize, CouncilResolve
  <2> QED  BY <2>1, SettleTouchesOne
<1>5. CASE \E p \in Parties : Donate(e, p)
  BY <1>5 DEF Donate
<1> QED  BY <1>1, <1>2, <1>3, <1>4, <1>5, <1>6, <1>7 DEF CloneCall

LEMMA DisputeKeepsWindows ==
    ASSUME TypeOK, WindowsInv, NEW e \in Escrows, NEW p, RaiseDispute(e, p, isEscrow[e]),
           UNCHANGED now
    PROVE  WindowsInv'
<1>0. escrow \in [Escrows -> Clone] /\ cases \in [Escrows -> Case]
  BY DEF TypeOK, EscrowTypeOK, PanelTypeOK
<1>1. /\ cases'[e].commitStart = Deadline(EvidenceWindow)
      /\ escrow'[e].counterEvidenceDeadline = Deadline(EvidenceWindow)
      /\ ~Opened(e) /\ UNCHANGED commitments
  BY <1>0 DEF RaiseDispute, Open, Case, Clone
<1>2. \A f \in Escrows \ {e} : escrow'[f] = escrow[f] /\ cases'[f] = cases[f]
  BY <1>0 DEF RaiseDispute, Open
<1>3. WindowsMeet'
  BY <1>1, <1>2 DEF WindowsInv, WindowsMeet, In
<1>4. ASSUME NEW f \in Escrows, Committed(f)'
      PROVE  Opened(f)' /\ cases'[f].commitStart <= now'
  <2>1. Committed(f) /\ f # e
    BY <1>1, <1>4 DEF WindowsInv, CommitsBegan, Committed
  <2> QED  BY <1>2, <2>1 DEF WindowsInv, CommitsBegan, Opened
<1> QED  BY <1>3, <1>4 DEF WindowsInv, CommitsBegan

LEMMA PanelKeepsWindows ==
    ASSUME TypeOK, WindowsInv, NEW e \in Escrows, Execute(e) \/ Reviewer(e), UNCHANGED now
    PROVE  WindowsInv'
<1>0. /\ escrow \in [Escrows -> Clone] /\ cases \in [Escrows -> Case]
      /\ commitments \in [Escrows -> [Arbiters -> Seals \cup {NoCommitment}]]
  BY DEF TypeOK, EscrowTypeOK, PanelTypeOK
<1>1. CASE Execute(e)
  <2>1. /\ UNCHANGED commitments /\ escrow'[e].state = "RESOLVED"
        /\ \A f \in Escrows \ {e} : escrow'[f] = escrow[f]
    BY <1>1, SettleTouchesOne DEF Execute, MarkExecuted
  <2>2. \A f \in Escrows : /\ cases'[f].commitStart = cases[f].commitStart
                           /\ cases'[f].commitDeadline = cases[f].commitDeadline
    BY <1>0, <1>1 DEF Execute, MarkExecuted, Case
  <2>3. WindowsMeet'
    BY <2>1, <2>2 DEF WindowsInv, WindowsMeet, In
  <2>4. CommitsBegan'
    BY <2>1, <2>2 DEF WindowsInv, CommitsBegan, Committed, Opened
  <2> QED  BY <2>3, <2>4 DEF WindowsInv
<1>2. ASSUME NEW a \in Arbiters, Commit(e, a), UNCHANGED escrow
      PROVE  WindowsInv'
  <2>1. Opened(e) /\ cases[e].commitStart <= now /\ UNCHANGED cases
    BY <1>2 DEF Commit, CommitOpen
  <2>2. \A f \in Escrows \ {e} : Committed(f)' => Committed(f)
    BY <1>0, <1>2 DEF Commit, Committed
  <2> QED
    BY <1>2, <2>1, <2>2 DEF WindowsInv, WindowsMeet, CommitsBegan, In, Opened
<1>3. ASSUME NEW a \in Arbiters, NEW v \in Votes, Reveal(e, a, v), UNCHANGED escrow
      PROVE  WindowsInv'
  <2>1. \A f \in Escrows : /\ cases'[f].commitStart = cases[f].commitStart
                           /\ cases'[f].commitDeadline = cases[f].commitDeadline
    BY <1>0, <1>3 DEF Reveal, Counted, Case
  <2> QED
    BY <1>3, <2>1
    DEF Reveal, WindowsInv, WindowsMeet, CommitsBegan, Committed, In, Opened
<1> QED  BY <1>1, <1>2, <1>3 DEF Reviewer, escrowVars

LEMMA WindowsStep == TypeOK /\ WindowsInv /\ [Next]_vars => WindowsInv'
<1> SUFFICES ASSUME TypeOK, WindowsInv, [Next]_vars PROVE WindowsInv'
  OBVIOUS
<1>0. now \in Nat
  BY DEF TypeOK, TokenTypeOK
<1>1. CASE TimePasses
  <2>1. UNCHANGED <<escrow, cases, commitments>> /\ now' = now + 1
    BY <1>1 DEF TimePasses, Tick, escrowVars, panelVars
  <2>2. now' \in Nat /\ now <= now'
    BY <1>0, <2>1
  <2> QED  BY <2>1, <2>2, WindowsStay
<1>4. CASE \/ TokenIssuer \/ RegistryOwner \/ PanelOwner \/ UNCHANGED vars
           \/ \E e \in Escrows : Buyer(e) \/ Attester(e)
  <2>1. UNCHANGED <<escrow, cases, commitments, now>>
    BY <1>4
    DEF TokenIssuer, Freeze, RegistryOwner, PanelOwner, SetFactory, Buyer, GiveConsent,
        Attester, vars, escrowVars, panelVars
  <2> QED  BY <1>0, <2>1, WindowsStay
<1>2. ASSUME NEW e \in Escrows, Vendor(e) \/ CloneCall(e)
      PROVE  WindowsInv'
  <2>1. UNCHANGED <<cases, commitments, now>>
    BY <1>2 DEF Vendor, CloneCall, panelVars
  <2> QED  BY <1>0, <1>2, <2>1, CallsLeaveWindows, WindowsStay
<1>3. ASSUME NEW e \in Escrows, PanelCall(e) \/ Reviewer(e)
      PROVE  WindowsInv'
  BY <1>3, DisputeKeepsWindows, PanelKeepsWindows DEF PanelCall, Reviewer
<1> QED  BY <1>1, <1>2, <1>3, <1>4 DEF Next

\* Evidence that a step adds is the counterparty's.
LEMMA EvidenceIsSubmitted ==
    ASSUME TypeOK, [Next]_vars, NEW e \in Escrows,
           escrow'[e].counterEvidenceSubmitted, ~escrow[e].counterEvidenceSubmitted
    PROVE  In(e, {"DISPUTED"}) /\ now <= escrow[e].counterEvidenceDeadline
<1>0. escrow \in [Escrows -> Clone]
  BY DEF TypeOK, EscrowTypeOK
<1>1. CASE \E f \in Escrows, p \in Parties : SubmitCounterEvidence(f, p)
  BY <1>0, <1>1 DEF SubmitCounterEvidence
<1>2. CASE ~\E f \in Escrows, p \in Parties : SubmitCounterEvidence(f, p)
  <2>1. ASSUME NEW f \in Escrows, NEW result, Settle(f, result)
        PROVE  FALSE
    BY <1>0, <2>1 DEF Settle, Close, Clone
  <2>2. ASSUME NEW f \in Escrows, CloneCall(f) PROVE FALSE
    <3>1. CASE DepositFunds(f) \/ FundWithAuthorization(f)
      <4>1. Lock(f)
        BY <3>1 DEF DepositFunds, FundWithAuthorization, Pull
      <4> QED  BY <1>0, <4>1 DEF Lock, Clone
    <3>3. CASE CancelOffer(f)
      BY <1>0, <3>3 DEF CancelOffer, Clone
    <3>4. CASE SubmitDelivery(f)
      BY <1>0, <3>4 DEF SubmitDelivery, Clone
    <3>5. CASE \E p \in Parties : Donate(f, p)
      BY <3>5 DEF Donate
    <3>2. CASE \/ ReleaseFunds(f) \/ RefundBuyer(f) \/ TimeoutRefund(f) \/ Finalize(f)
               \/ \E outcome \in Votes : CouncilResolve(f, outcome)
      BY <2>1, <3>2
      DEF ReleaseFunds, RefundBuyer, TimeoutRefund, Finalize, CouncilResolve
    <3> QED  BY <1>2, <2>2, <3>1, <3>2, <3>3, <3>4, <3>5 DEF CloneCall
  <2>3. ASSUME NEW f \in Escrows, PanelCall(f) PROVE FALSE
    <3>1. CASE \E p \in Parties : RaiseDispute(f, p, isEscrow[f])
      BY <1>0, <3>1 DEF RaiseDispute, Clone
    <3>2. CASE Execute(f)
      BY <2>1, <3>2 DEF Execute
    <3> QED  BY <2>3, <3>1, <3>2 DEF PanelCall
  <2>4. ASSUME NEW f \in Escrows, Vendor(f) PROVE FALSE
    BY <2>4, CreatedUndisputed
  <2>5. ASSUME UNCHANGED escrow PROVE FALSE
    BY <2>5
  <2> QED
    BY <2>2, <2>3, <2>4, <2>5
    DEF Next, TimePasses, TokenIssuer, RegistryOwner, PanelOwner, SetFactory, Buyer,
        GiveConsent, Attester, Reviewer, vars, escrowVars
<1> QED  BY <1>1, <1>2

(***************************************************************************)
(* For any number of reviewers and any windows: commitments are all in     *)
(* before the first vote of a case is shown, and evidence before the first *)
(* commitment, or in the instant in which both windows are open.           *)
(***************************************************************************)
THEOREM PhasesKeepOrder == Spec => PhasesInOrder
<1> DEFINE Sealed == \A e \in Escrows :
               revealed'[e] # {} => commitments'[e] = commitments[e]
<1> DEFINE Heard == \A e \in Escrows :
               Committed(e) /\ now # escrow[e].counterEvidenceDeadline =>
                   (escrow'[e].counterEvidenceSubmitted =>
                        escrow[e].counterEvidenceSubmitted)
<1>1. ASSUME TypeInv, DisputeInv, Next
      PROVE  Sealed
  <2>1. CASE \E e \in Escrows : Reviewer(e)
    <3>1. PICK e \in Escrows, a \in Arbiters :
              Commit(e, a) \/ \E v \in Votes : Reveal(e, a, v)
      BY <2>1 DEF Reviewer
    <3>2. CASE Commit(e, a)
      <4>1. revealed[e] = {}
        <5>1. /\ now \in Nat
              /\ cases[e].commitDeadline \in Nat
              /\ now < cases[e].commitDeadline
          BY <1>1, <3>2, TokenAssumption
             DEF Commit, CommitOpen, TypeInv, TypeOK, TokenTypeOK,
                 PanelTypeOK, Case
        <5>2. ~(cases[e].commitDeadline <= now)
          BY <5>1
        <5>3. QED
          BY <1>1, <5>2 DEF DisputeInv, ShownAfterCommits
      <4>2. QED
        BY <1>1, <3>2, <4>1 DEF Commit, TypeInv, TypeOK, PanelTypeOK
    <3>3. CASE \E v \in Votes : Reveal(e, a, v)
      BY <3>3 DEF Reveal
    <3>4. QED
      BY <3>1, <3>2, <3>3
  <2>2. CASE ~\E e \in Escrows : Reviewer(e)
    <3>1. UNCHANGED commitments
      BY <1>1, <2>2
         DEF Next, TimePasses, TokenIssuer, RegistryOwner, PanelOwner,
             SetFactory, Vendor, Buyer, CloneCall, PanelCall, RaiseDispute,
             Open, Execute, MarkExecuted, Attester, panelVars
    <3>2. QED
      BY <3>1
  <2>3. QED
    BY <2>1, <2>2
<1>2. ASSUME TypeOK, WindowsInv, Next
      PROVE  Heard
  <2> SUFFICES ASSUME NEW e \in Escrows, Committed(e),
                      escrow'[e].counterEvidenceSubmitted,
                      ~escrow[e].counterEvidenceSubmitted
               PROVE  now = escrow[e].counterEvidenceDeadline
    OBVIOUS
  <2>1. In(e, {"DISPUTED"}) /\ now <= escrow[e].counterEvidenceDeadline
    BY <1>2, EvidenceIsSubmitted
  <2>2. escrow[e].counterEvidenceDeadline <= now
    BY <1>2, <2>1 DEF WindowsInv, WindowsMeet, CommitsBegan
  <2>3. now \in Nat /\ escrow[e].counterEvidenceDeadline \in Nat
    BY <1>2 DEF TypeOK, TokenTypeOK, EscrowTypeOK, Clone
  <2> QED  BY <2>1, <2>2, <2>3
<1> HIDE DEF Sealed, Heard
<1>3. TypeInv => TypeOK
  BY DEF TypeInv
<1>4. TypeInv /\ DisputeInv /\ WindowsInv /\ [Next]_vars => [Sealed /\ Heard]_vars
  BY <1>1, <1>2, <1>3
<1>5. Spec => []WindowsInv
  BY <1>3, TypeInit, TypeStep, WindowsInit, WindowsStep, PTL DEF Spec
<1>6. Spec => [][Sealed /\ Heard]_vars
  BY <1>4, <1>5, DisputeAlways, PTL DEF Spec
<1> DEFINE Ordered == \A e \in Escrows :
               /\ revealed'[e] # {} => commitments'[e] = commitments[e]
               /\ Committed(e) /\ now # escrow[e].counterEvidenceDeadline =>
                    (escrow'[e].counterEvidenceSubmitted =>
                         escrow[e].counterEvidenceSubmitted)
<1>7. [Sealed /\ Heard]_vars => [Ordered]_vars
  BY DEF Sealed, Heard
<1> HIDE DEF Ordered
<1>8. Spec => [][Ordered]_vars
  BY <1>6, <1>7, PTL
<1> QED  BY <1>8 DEF PhasesInOrder, Ordered

-----------------------------------------------------------------------------
(***************************************************************************)
(* The reputation registry counts every attested order once, whatever the  *)
(* number of orders and parties and the order of settlements and           *)
(* attestations.                                                           *)
(***************************************************************************)

OrdersOf(p) ==
    {e \in Escrows : isAttested[e] /\ p \in {escrow[e].buyer, escrow[e].seller}}

EndedAs(p, r) == {e \in OrdersOf(p) : escrow[e].resolution = r}

DisputedOf(p) == {e \in OrdersOf(p) : Opened(e)}

Scored(p) ==
    /\ scores[p].settled = Cardinality(OrdersOf(p))
    /\ scores[p].released = Cardinality(EndedAs(p, "RELEASE"))
    /\ scores[p].refunded = Cardinality(EndedAs(p, "REFUND"))
    /\ scores[p].splits = Cardinality(EndedAs(p, "SPLIT"))
    /\ scores[p].disputed = Cardinality(DisputedOf(p))

LEMMA ScoredMeans == ScoresMatchSettlements <=> \A p \in Parties : Scored(p)
BY DEF ScoresMatchSettlements, Scored, OrdersOf, EndedAs, DisputedOf

(***************************************************************************)
(* attest reads disputedAt where the property speaks of the panel's case:  *)
(* the two go together.                                                    *)
(***************************************************************************)
DisputedIsOpened ==
    \A e \in Escrows :
        /\ escrow[e].disputedAt # 0 <=> Opened(e)
        /\ In(e, {"NONE"}) => escrow[e].disputedAt = 0

LEMMA DisputedInit == Init => DisputedIsOpened
BY DEF Init, EscrowInit, PanelInit, FreshClone, NoCase, DisputedIsOpened, Opened, In

LEMMA SameDispute ==
    ASSUME DisputedIsOpened,
           \A f \in Escrows :
               /\ escrow'[f].disputedAt = escrow[f].disputedAt
               /\ cases'[f].commitDeadline = cases[f].commitDeadline
               /\ escrow'[f].state = "NONE" => escrow[f].state = "NONE"
    PROVE  DisputedIsOpened'
BY DEF DisputedIsOpened, Opened, In

LEMMA CloneCallKeepsDispute ==
    ASSUME TypeOK, NEW e \in Escrows, CloneCall(e), NEW f \in Escrows
    PROVE  /\ escrow'[f].disputedAt = escrow[f].disputedAt
           /\ escrow'[f].state = "NONE" => escrow[f].state = "NONE"
<1>0. escrow \in [Escrows -> Clone] /\ escrow[e] \in Clone
  BY DEF TypeOK, EscrowTypeOK
<1>1. CASE DepositFunds(e) \/ FundWithAuthorization(e)
  <2>1. Lock(e)
    BY <1>1 DEF DepositFunds, FundWithAuthorization, Pull
  <2>2. QED
    BY <1>0, <2>1 DEF Lock, Clone
<1>2. CASE CancelOffer(e)
  BY <1>0, <1>2 DEF CancelOffer, Clone
<1>3. CASE SubmitDelivery(e)
  BY <1>0, <1>3 DEF SubmitDelivery, Clone
<1>4. ASSUME NEW result, Close(e, result)
      PROVE  /\ escrow'[f].disputedAt = escrow[f].disputedAt
             /\ escrow'[f].state = "NONE" => escrow[f].state = "NONE"
  BY <1>0, <1>4 DEF Close, Clone
<1>5. CASE \/ ReleaseFunds(e) \/ RefundBuyer(e) \/ TimeoutRefund(e) \/ Finalize(e)
           \/ \E outcome \in Votes : CouncilResolve(e, outcome)
  <2>1. \E result : Close(e, result)
    BY <1>5 DEF ReleaseFunds, RefundBuyer, TimeoutRefund, Finalize,
                CouncilResolve, Settle
  <2>2. QED
    BY <1>4, <2>1
<1>6. CASE \E p \in Parties : SubmitCounterEvidence(e, p)
  BY <1>0, <1>6 DEF SubmitCounterEvidence, Clone
<1>7. CASE \E p \in Parties : Donate(e, p)
  BY <1>7 DEF Donate
<1>8. QED
  BY <1>1, <1>2, <1>3, <1>5, <1>6, <1>7 DEF CloneCall

LEMMA PanelCallKeepsDispute ==
    ASSUME TypeOK, DisputedIsOpened, NEW e \in Escrows, PanelCall(e)
    PROVE  DisputedIsOpened'
<1>0. /\ escrow \in [Escrows -> Clone] /\ escrow[e] \in Clone
      /\ cases \in [Escrows -> Case] /\ cases[e] \in Case
      /\ now \in Nat /\ now # 0
  BY TokenAssumption DEF TypeOK, TokenTypeOK, EscrowTypeOK, PanelTypeOK
<1>1. CASE Execute(e)
  <2>1. /\ Close(e, Outcome(cases[e])) /\ MarkExecuted(e)
    BY <1>1 DEF Execute, Settle
  <2>2. \A f \in Escrows :
            /\ escrow'[f].disputedAt = escrow[f].disputedAt
            /\ escrow'[f].state = "NONE" => escrow[f].state = "NONE"
    BY <1>0, <2>1 DEF Close, Clone
  <2>3. \A f \in Escrows : cases'[f].commitDeadline = cases[f].commitDeadline
    BY <1>0, <2>1 DEF MarkExecuted, Case
  <2>4. QED
    BY <2>2, <2>3, SameDispute
<1>2. ASSUME NEW p \in Parties, RaiseDispute(e, p, isEscrow[e])
      PROVE  DisputedIsOpened'
  <2> DEFINE opening == now + EvidenceWindow + CommitWindow
  <2>1. /\ escrow'[e].state = "DISPUTED" /\ escrow'[e].disputedAt = now
        /\ \A f \in Escrows \ {e} : escrow'[f] = escrow[f]
    BY <1>0, <1>2 DEF RaiseDispute, Clone
  <2>2. /\ cases'[e].commitDeadline = opening
        /\ \A f \in Escrows \ {e} : cases'[f] = cases[f]
    BY <1>0, <1>2 DEF RaiseDispute, Open, Deadline, Case
  <2>3. opening # 0
    BY <1>0, PanelAssumption
  <2> HIDE DEF opening
  <2>4. QED
    BY <1>0, <2>1, <2>2, <2>3 DEF DisputedIsOpened, Opened, In
<1>3. QED
  BY <1>1, <1>2 DEF PanelCall

LEMMA ReviewerKeepsDispute ==
    ASSUME TypeOK, NEW e \in Escrows, Reviewer(e), NEW f \in Escrows
    PROVE  cases'[f].commitDeadline = cases[f].commitDeadline
<1>1. PICK a \in Arbiters : Commit(e, a) \/ \E v \in Votes : Reveal(e, a, v)
  BY DEF Reviewer
<1>2. CASE Commit(e, a)
  BY <1>2 DEF Commit
<1>3. ASSUME NEW v \in Votes, Reveal(e, a, v)
      PROVE  cases'[f].commitDeadline = cases[f].commitDeadline
  <2>1. cases \in [Escrows -> Case] /\ cases[e] \in Case
    BY DEF TypeOK, PanelTypeOK
  <2>2. Counted(cases[e], v).commitDeadline = cases[e].commitDeadline
    BY <2>1, CountedFacts
  <2>3. QED
    BY <1>3, <2>1, <2>2 DEF Reveal
<1>4. QED
  BY <1>1, <1>2, <1>3

LEMMA DisputedStep ==
    ASSUME TypeInv, DisputedIsOpened, [Next]_vars
    PROVE  DisputedIsOpened'
<1>0. TypeOK
  BY DEF TypeInv
<1>1. CASE UNCHANGED <<escrow, cases>>
  BY <1>1, SameDispute
<1>2. ASSUME NEW e \in Escrows, Vendor(e)
      PROVE  DisputedIsOpened'
  <2>1. /\ escrow[e].state = "NONE"
        /\ escrow'[e].disputedAt = 0 /\ escrow'[e].state = "CREATED"
        /\ \A f \in Escrows \ {e} : escrow'[f] = escrow[f]
        /\ UNCHANGED cases
    BY <1>0, <1>2
       DEF Vendor, CreateEscrow, Initialize, FreshClone, panelVars, In, TypeOK,
           EscrowTypeOK
  <2>2. escrow[e].disputedAt = 0
    BY <2>1 DEF DisputedIsOpened, In
  <2>3. QED
    BY <2>1, <2>2, SameDispute
<1>3. ASSUME NEW e \in Escrows, CloneCall(e)
      PROVE  DisputedIsOpened'
  <2>1. UNCHANGED cases
    BY <1>3 DEF CloneCall, panelVars
  <2>2. QED
    BY <1>0, <1>3, <2>1, CloneCallKeepsDispute, SameDispute
<1>4. ASSUME NEW e \in Escrows, Reviewer(e)
      PROVE  DisputedIsOpened'
  <2>1. UNCHANGED escrow
    BY <1>4 DEF Reviewer, escrowVars
  <2>2. QED
    BY <1>0, <1>4, <2>1, ReviewerKeepsDispute, SameDispute
<1>5. ASSUME \/ TimePasses \/ TokenIssuer \/ RegistryOwner \/ PanelOwner
             \/ UNCHANGED vars
             \/ \E e \in Escrows : Buyer(e) \/ Attester(e)
      PROVE  UNCHANGED <<escrow, cases>>
  BY <1>5 DEF TimePasses, TokenIssuer, RegistryOwner, PanelOwner, SetFactory,
              Buyer, GiveConsent, Attester, vars, panelVars, escrowVars
<1>6. QED
  BY <1>0, <1>1, <1>2, <1>3, <1>4, <1>5, PanelCallKeepsDispute DEF Next

-----------------------------------------------------------------------------
(***************************************************************************)
(* Scores.  What was attested is settled and stays as it is; so a score is *)
(* only ever off by an order that is being attested.                       *)
(***************************************************************************)
Attested == {e \in Escrows : isAttested[e]}

ScoreInv ==
    /\ DisputedIsOpened
    /\ IsFiniteSet(Attested)
    /\ \A e \in Attested : In(e, {"RESOLVED"})
    /\ \A p \in Parties : Scored(p)

LEMMA ScoreInit == Init => ScoreInv
<1> SUFFICES ASSUME Init PROVE ScoreInv
  OBVIOUS
<1>1. Attested = {}
  BY DEF Init, ReputationInit, Attested
<1>2. ASSUME NEW p \in Parties PROVE Scored(p)
  <2>1. OrdersOf(p) = {} /\ DisputedOf(p) = {} /\ \A r : EndedAs(p, r) = {}
    BY DEF Init, ReputationInit, OrdersOf, DisputedOf, EndedAs
  <2>2. scores[p] = NoScore
    BY DEF Init, ReputationInit
  <2>3. QED
    BY <2>1, <2>2, FS_EmptySet DEF Scored, NoScore
<1>3. QED
  BY <1>1, <1>2, DisputedInit, FS_EmptySet DEF ScoreInv

LEMMA OneMore ==
    ASSUME NEW S, IsFiniteSet(S), NEW x, x \notin S, NEW T, NEW B \in BOOLEAN,
           T = IF B THEN S \cup {x} ELSE S
    PROVE  /\ Cardinality(T) = Cardinality(S) + (IF B THEN 1 ELSE 0)
           /\ Cardinality(S) \in Nat
<1>1. Cardinality(S) \in Nat
  BY FS_CardinalityType
<1>2. CASE B
  BY <1>1, <1>2, FS_AddElement
<1>3. CASE ~B
  BY <1>1, <1>3
<1>4. QED
  BY <1>1, <1>2, <1>3

(***************************************************************************)
(* A step that attests nothing leaves all that the scores count alone.     *)
(***************************************************************************)
LEMMA OthersKeepScores ==
    ASSUME TypeInv, ScoreInv, [Next]_vars, UNCHANGED <<isAttested, scores>>
    PROVE  ScoreInv'
<1>1. DisputedIsOpened'
  BY DisputedStep DEF ScoreInv
<1>2. Attested' = Attested
  BY DEF Attested
<1>3. \A e \in Attested : escrow'[e] = escrow[e] /\ (Opened(e)' <=> Opened(e))
  <2> SUFFICES ASSUME NEW e \in Attested
               PROVE  escrow'[e] = escrow[e] /\ (Opened(e)' <=> Opened(e))
    OBVIOUS
  <2>1. e \in Escrows /\ In(e, Closed)
    BY DEF ScoreInv, Attested, In, Closed
  <2>2. escrow'[e] = escrow[e]
    BY <2>1, FinalStep
  <2>3. QED
    BY <1>1, <2>1, <2>2 DEF ScoreInv, DisputedIsOpened
<1>4. ASSUME NEW p \in Parties PROVE Scored(p)'
  <2>1. OrdersOf(p)' = OrdersOf(p)
    BY <1>3 DEF OrdersOf, Attested
  <2>2. OrdersOf(p) \subseteq Attested
    BY DEF OrdersOf, Attested
  <2>3. \A r : EndedAs(p, r)' = EndedAs(p, r)
    BY <1>3, <2>1, <2>2 DEF EndedAs
  <2>4. DisputedOf(p)' = DisputedOf(p)
    BY <1>3, <2>1, <2>2 DEF DisputedOf
  <2>5. QED
    BY <2>1, <2>3, <2>4 DEF ScoreInv, Scored
<1>5. \A e \in Attested' : In(e, {"RESOLVED"})'
  BY <1>2, <1>3 DEF ScoreInv, In
<1>6. QED
  BY <1>1, <1>2, <1>4, <1>5 DEF ScoreInv

(***************************************************************************)
(* An attestation adds one order to the sets of its two parties, and one   *)
(* to the scores of the same two.                                          *)
(***************************************************************************)
LEMMA AttestKeepsScores ==
    ASSUME TypeInv, ScoreInv, NEW e \in Escrows, Attester(e)
    PROVE  ScoreInv'
<1> DEFINE result == escrow[e].resolution
           Party(p) == p \in {escrow[e].buyer, escrow[e].seller}
           disputed == escrow[e].disputedAt # 0
<1>1. /\ UNCHANGED <<escrow, cases>>
      /\ e \notin Attested
      /\ In(e, {"RESOLVED"})
      /\ isAttested' = [isAttested EXCEPT ![e] = TRUE]
      /\ scores' = [p \in Parties |->
            IF Party(p) THEN Record(scores[p], result, disputed) ELSE scores[p]]
  BY DEF Attester, Attest, NotYetAttested, Attested, panelVars, escrowVars, In
<1>2. /\ isAttested \in [Escrows -> BOOLEAN] /\ scores \in [Parties -> Score]
  BY DEF TypeInv, TypeOK, ReputationTypeOK
<1>3. DisputedIsOpened'
  BY <1>1, SameDispute DEF ScoreInv
<1>4. Attested' = Attested \cup {e}
  BY <1>1, <1>2 DEF Attested
<1>5. IsFiniteSet(Attested')
  BY <1>4, FS_AddElement DEF ScoreInv
<1>6. \A f \in Attested' : In(f, {"RESOLVED"})'
  BY <1>1, <1>4 DEF ScoreInv, In
<1>7. disputed <=> Opened(e)
  BY DEF ScoreInv, DisputedIsOpened
<1>8. ASSUME NEW p \in Parties PROVE Scored(p)'
  <2>1. /\ OrdersOf(p) \subseteq Attested
        /\ e \notin OrdersOf(p) /\ e \notin DisputedOf(p)
        /\ \A r : e \notin EndedAs(p, r)
    BY <1>1 DEF OrdersOf, DisputedOf, EndedAs, Attested
  <2>2. /\ IsFiniteSet(OrdersOf(p)) /\ IsFiniteSet(DisputedOf(p))
        /\ \A r : IsFiniteSet(EndedAs(p, r))
    <3>1. /\ DisputedOf(p) \subseteq Attested
          /\ \A r : EndedAs(p, r) \subseteq Attested
      BY <2>1 DEF DisputedOf, EndedAs
    <3>2. QED
      BY <2>1, <3>1, FS_Subset DEF ScoreInv
  <2>3. OrdersOf(p)' = IF Party(p) THEN OrdersOf(p) \cup {e} ELSE OrdersOf(p)
    BY <1>1, <1>2, <2>1 DEF OrdersOf
  <2>4. ASSUME NEW r
        PROVE  EndedAs(p, r)' = IF Party(p) /\ result = r
                                THEN EndedAs(p, r) \cup {e} ELSE EndedAs(p, r)
    BY <1>1, <2>3 DEF EndedAs
  <2>5. DisputedOf(p)' = IF Party(p) /\ disputed
                         THEN DisputedOf(p) \cup {e} ELSE DisputedOf(p)
    BY <1>1, <1>7, <2>3 DEF DisputedOf, Opened
  <2>6. /\ Cardinality(OrdersOf(p)') =
              Cardinality(OrdersOf(p)) + (IF Party(p) THEN 1 ELSE 0)
        /\ Cardinality(OrdersOf(p)) \in Nat
    BY <2>1, <2>2, <2>3, OneMore
  <2>7. ASSUME NEW r
        PROVE  /\ Cardinality(EndedAs(p, r)') =
                    Cardinality(EndedAs(p, r))
                        + (IF Party(p) /\ result = r THEN 1 ELSE 0)
               /\ Cardinality(EndedAs(p, r)) \in Nat
    BY <2>1, <2>2, <2>4, OneMore
  <2>8. /\ Cardinality(DisputedOf(p)') =
              Cardinality(DisputedOf(p))
                  + (IF Party(p) /\ disputed THEN 1 ELSE 0)
        /\ Cardinality(DisputedOf(p)) \in Nat
    BY <2>1, <2>2, <2>5, OneMore
  <2>9. Scored(p)
    BY DEF ScoreInv
  <2>10. CASE Party(p)
    <3>1. scores'[p] = Record(scores[p], result, disputed)
      BY <1>1, <2>10
    <3>2. QED
      BY <2>6, <2>7, <2>8, <2>9, <2>10, <3>1 DEF Scored, Record
  <2>11. CASE ~Party(p)
    <3>1. scores'[p] = scores[p]
      BY <1>1, <2>11
    <3>2. QED
      BY <2>6, <2>7, <2>8, <2>9, <2>11, <3>1 DEF Scored
  <2>12. QED
    BY <2>10, <2>11
<1>9. QED
  BY <1>3, <1>5, <1>6, <1>8 DEF ScoreInv

LEMMA ScoreStep == TypeInv /\ ScoreInv /\ [Next]_vars => ScoreInv'
<1> SUFFICES ASSUME TypeInv, ScoreInv, [Next]_vars PROVE ScoreInv'
  OBVIOUS
<1>1. CASE \E e \in Escrows : Attester(e)
  BY <1>1, AttestKeepsScores
<1>2. CASE ~\E e \in Escrows : Attester(e)
  <2>1. UNCHANGED <<isAttested, scores>>
    BY <1>2 DEF Next, vars, TimePasses, TokenIssuer, RegistryOwner, PanelOwner,
                Vendor, Buyer, CloneCall, PanelCall, Reviewer, reputationVars
  <2>2. QED
    BY <2>1, OthersKeepScores
<1>3. QED
  BY <1>1, <1>2

(***************************************************************************)
(* A party's record counts each of its attested orders once, under the way *)
(* it ended, and as disputed exactly if the panel opened a case for it.    *)
(***************************************************************************)
THEOREM ScoresExact == Spec => []ScoresMatchSettlements
<1>1. Spec => []ScoreInv
  BY TypeInit, TypeStep, ScoreInit, ScoreStep, PTL DEF Spec
<1>2. ScoreInv => ScoresMatchSettlements
  BY ScoredMeans DEF ScoreInv
<1>3. QED
  BY <1>1, <1>2, PTL

-----------------------------------------------------------------------------
(***************************************************************************)
(* The contracts of Marketplace implement EscrowPromise, for every number  *)
(* of orders, every amount and every fee: each transaction is one step of  *)
(* the abstract escrow, or none.                                           *)
(***************************************************************************)

LEMMA PhaseNow ==
    ASSUME NEW e \in Escrows
    PROVE  /\ escrow[e].state = "NONE" => Phase(e) = "none"
           /\ escrow[e].state = "CREATED" => Phase(e) = "offered"
           /\ escrow[e].state \in Live => Phase(e) = "held"
           /\ escrow[e].state = "RESOLVED" => Phase(e) = "paid"
           /\ escrow[e].state = "EXPIRED" => Phase(e) = "lapsed"
BY DEF Phase, In, Live

LEMMA PhaseThen ==
    ASSUME NEW e \in Escrows
    PROVE  /\ escrow'[e].state = "NONE" => Phase(e)' = "none"
           /\ escrow'[e].state = "CREATED" => Phase(e)' = "offered"
           /\ escrow'[e].state \in Live => Phase(e)' = "held"
           /\ escrow'[e].state = "RESOLVED" => Phase(e)' = "paid"
           /\ escrow'[e].state = "EXPIRED" => Phase(e)' = "lapsed"
BY DEF Phase, In, Live

LEMMA SamePhase ==
    ASSUME NEW e \in Escrows, escrow'[e] = escrow[e]
    PROVE  Phase(e)' = Phase(e)
BY DEF Phase, In

(***************************************************************************)
(* A transaction that leaves clones and payments alone, or moves one clone *)
(* between live states, is no step of the promise.                         *)
(***************************************************************************)
LEMMA NoStep ==
    ASSUME UNCHANGED <<escrow, paidOut>>
    PROVE  UNCHANGED Promise!promiseVars
<1>1. \A e \in Escrows : Phase(e)' = Phase(e)
  BY SamePhase
<1>2. [e \in Escrows |-> Phase(e)]' = [e \in Escrows |-> Phase(e)]
  BY <1>1
<1>3. [e \in Escrows |-> escrow[e].amount]' = [e \in Escrows |-> escrow[e].amount]
  OBVIOUS
<1>4. QED
  BY <1>2, <1>3 DEF Promise!promiseVars

LEMMA StaysHeld ==
    ASSUME TypeOK, NEW e \in Escrows, NEW new,
           escrow' = [escrow EXCEPT ![e] = new], UNCHANGED paidOut,
           escrow[e].state \in Live, new.state \in Live,
           new.amount = escrow[e].amount
    PROVE  UNCHANGED Promise!promiseVars
<1>1. /\ escrow'[e] = new
      /\ \A f \in Escrows \ {e} : escrow'[f] = escrow[f]
  BY DEF TypeOK, EscrowTypeOK
<1>2. Phase(e)' = Phase(e)
  BY <1>1, PhaseNow, PhaseThen
<1>3. \A f \in Escrows : Phase(f)' = Phase(f) /\ escrow'[f].amount = escrow[f].amount
  BY <1>1, <1>2, SamePhase
<1>4. [f \in Escrows |-> Phase(f)]' = [f \in Escrows |-> Phase(f)]
  BY <1>3
<1>5. [f \in Escrows |-> escrow[f].amount]' = [f \in Escrows |-> escrow[f].amount]
  BY <1>3
<1>6. QED
  BY <1>4, <1>5 DEF Promise!promiseVars

(***************************************************************************)
(* One clone is replaced: its order takes a turn, the others none.         *)
(***************************************************************************)
LEMMA OneTurn ==
    ASSUME TypeOK, NEW e \in Escrows, NEW new,
           escrow' = [escrow EXCEPT ![e] = new]
    PROVE  /\ escrow'[e] = new
           /\ Promise!Turn(e, Phase(e), Phase(e)')
           /\ [f \in Escrows |-> escrow[f].amount]'
                = [[f \in Escrows |-> escrow[f].amount] EXCEPT ![e] = new.amount]
<1>1. /\ escrow'[e] = new
      /\ \A f \in Escrows \ {e} : escrow'[f] = escrow[f]
  BY DEF TypeOK, EscrowTypeOK
<1>2. \A f \in Escrows \ {e} : Phase(f)' = Phase(f)
  BY <1>1, SamePhase
<1>3. [f \in Escrows |-> Phase(f)]'
        = [[f \in Escrows |-> Phase(f)] EXCEPT ![e] = Phase(e)']
  BY <1>2
<1>4. Promise!Turn(e, Phase(e), Phase(e)')
  BY <1>3 DEF Promise!Turn
<1>5. \A f \in Escrows :
          escrow'[f].amount = IF f = e THEN new.amount ELSE escrow[f].amount
  BY <1>1
<1>6. [f \in Escrows |-> escrow[f].amount]'
        = [[f \in Escrows |-> escrow[f].amount] EXCEPT ![e] = new.amount]
  BY <1>5
<1>7. QED
  BY <1>1, <1>4, <1>6

LEMMA SameStake ==
    ASSUME TypeOK, NEW e \in Escrows, NEW new,
           escrow' = [escrow EXCEPT ![e] = new],
           new.amount = escrow[e].amount
    PROVE  UNCHANGED [f \in Escrows |-> escrow[f].amount]
<1>1. \A f \in Escrows : escrow'[f].amount = escrow[f].amount
  BY DEF TypeOK, EscrowTypeOK
<1>2. QED
  BY <1>1

LEMMA VendorOffers ==
    ASSUME TypeOK, NEW e \in Escrows, Vendor(e)
    PROVE  Promise!Offer(e)
<1>1. PICK seller \in Parties, buyer \in Parties, amount \in Amounts,
           work \in WorkDurations, review \in ReviewWindows :
           CreateEscrow(e, seller, buyer, amount, work, review)
  BY DEF Vendor
<1> DEFINE new == [FreshClone EXCEPT !.state = "CREATED",
                               !.seller = seller, !.buyer = buyer,
                               !.amount = amount,
                               !.offerDeadline = Deadline(OfferTtl),
                               !.workDuration = work,
                               !.reviewWindow = review]
<1>2. /\ escrow[e].state = "NONE"
      /\ escrow' = [escrow EXCEPT ![e] = new]
      /\ UNCHANGED paidOut
  BY <1>1 DEF CreateEscrow, Initialize, In
<1>3. new.state = "CREATED" /\ new.amount = amount
  BY DEF FreshClone
<1> HIDE DEF new
<1>4. /\ Promise!Turn(e, "none", "offered")
      /\ [f \in Escrows |-> escrow[f].amount]'
           = [[f \in Escrows |-> escrow[f].amount] EXCEPT ![e] = amount]
  BY <1>2, <1>3, OneTurn, PhaseNow, PhaseThen
<1>5. QED
  BY <1>2, <1>4 DEF Promise!Offer

LEMMA PullHolds ==
    ASSUME TypeOK, NEW e \in Escrows, Pull(e)
    PROVE  Promise!Hold(e)
<1> DEFINE new == [escrow[e] EXCEPT
                      !.state = "LOCKED",
                      !.workDeadline = Deadline(escrow[e].workDuration)]
<1>1. /\ escrow[e].state = "CREATED"
      /\ escrow' = [escrow EXCEPT ![e] = new]
      /\ UNCHANGED paidOut
  BY DEF Pull, Lock, In
<1>2. new.state = "LOCKED" /\ new.amount = escrow[e].amount
  BY DEF TypeOK, EscrowTypeOK, Clone
<1> HIDE DEF new
<1>3. Promise!Turn(e, "offered", "held")
  BY <1>1, <1>2, OneTurn, PhaseNow, PhaseThen DEF Live
<1>4. QED
  BY <1>1, <1>2, <1>3, SameStake DEF Promise!Hold

LEMMA CancelLapses ==
    ASSUME TypeOK, NEW e \in Escrows, CancelOffer(e)
    PROVE  Promise!Lapse(e)
<1> DEFINE new == [escrow[e] EXCEPT !.state = "EXPIRED"]
<1>1. /\ escrow[e].state = "CREATED"
      /\ escrow' = [escrow EXCEPT ![e] = new]
      /\ UNCHANGED paidOut
  BY DEF CancelOffer, In
<1>2. new.state = "EXPIRED" /\ new.amount = escrow[e].amount
  BY DEF TypeOK, EscrowTypeOK, Clone
<1> HIDE DEF new
<1>3. Promise!Turn(e, "offered", "lapsed")
  BY <1>1, <1>2, OneTurn, PhaseNow, PhaseThen
<1>4. QED
  BY <1>1, <1>2, <1>3, SameStake DEF Promise!Lapse

(***************************************************************************)
(* The heart of it: whoever settles a live clone divides its whole amount, *)
(* and since nothing was paid before, what the log then shows of it is     *)
(* that division.                                                          *)
(***************************************************************************)
LEMMA SettleDivides ==
    ASSUME TypeOK, MoneyInv, NEW e \in Escrows, NEW result \in Resolutions,
           escrow[e].state \in Live, Settle(e, result)
    PROVE  Promise!Divide(e)
<1> DEFINE amount == escrow[e].amount
           payout == PayoutOf(result, amount)
           new == [escrow[e] EXCEPT !.state = "RESOLVED", !.resolution = result]
<1>1. /\ escrow[e] \in Clone /\ amount \in Nat
      /\ paidOut \in [Escrows -> Payout] /\ paidOut[e] \in Payout
  BY DEF TypeOK, EscrowTypeOK, Clone
<1>2. /\ escrow' = [escrow EXCEPT ![e] = new]
      /\ paidOut' = [paidOut EXCEPT ![e] =
            [buyer |-> paidOut[e].buyer + payout.buyer,
             net   |-> paidOut[e].net + payout.net,
             fee   |-> paidOut[e].fee + payout.fee]]
  BY DEF Settle, Close
<1>3. new.state = "RESOLVED" /\ new.amount = amount
  BY <1>1 DEF Clone
<1>4. /\ payout \in Payout
      /\ PaidOut(payout) = amount
      /\ payout.fee * BpDenominator <= (payout.net + payout.fee) * FeeBp
  BY <1>1, PayoutFacts
<1> HIDE DEF payout, new
<1>5. paidOut[e].buyer = 0 /\ paidOut[e].net = 0 /\ paidOut[e].fee = 0
  <2>1. PaidOut(paidOut[e]) = 0
    BY DEF MoneyInv, PaidInFull, In, Live
  <2>2. QED
    BY <1>1, <2>1 DEF PaidOut, Payout
<1>6. paidOut' = [paidOut EXCEPT ![e] = payout]
  <2>1. /\ payout.buyer \in Nat /\ payout.net \in Nat /\ payout.fee \in Nat
        /\ payout = [buyer |-> payout.buyer, net |-> payout.net, fee |-> payout.fee]
    BY <1>4 DEF Payout
  <2>2. /\ paidOut[e].buyer + payout.buyer = payout.buyer
        /\ paidOut[e].net + payout.net = payout.net
        /\ paidOut[e].fee + payout.fee = payout.fee
    BY <1>5, <2>1
  <2>3. QED
    BY <1>2, <2>1, <2>2
<1>7. payout \in Promise!Divisions(amount)
  <2>1. payout \in [buyer : 0..amount, net : 0..amount, fee : 0..amount]
    <3>1. /\ payout.buyer \in Nat /\ payout.net \in Nat /\ payout.fee \in Nat
          /\ payout = [buyer |-> payout.buyer, net |-> payout.net, fee |-> payout.fee]
      BY <1>4 DEF Payout
    <3>2. /\ payout.buyer \in 0..amount
          /\ payout.net \in 0..amount
          /\ payout.fee \in 0..amount
      BY <1>1, <1>4, <3>1 DEF PaidOut
    <3>3. QED
      BY <3>1, <3>2
  <2>2. QED
    BY <1>4, <2>1
       DEF Promise!Divisions, Promise!PaidOut, Promise!BpDenominator, PaidOut,
           BpDenominator
<1>8. Promise!Turn(e, "held", "paid")
  <2>1. escrow'[e] = new /\ Promise!Turn(e, Phase(e), Phase(e)')
    BY <1>2, OneTurn
  <2>2. Phase(e) = "held"
    BY PhaseNow
  <2>3. Phase(e)' = "paid"
    BY <1>3, <2>1, PhaseThen
  <2>4. QED
    BY <2>1, <2>2, <2>3
<1>9. [f \in Escrows |-> escrow[f].amount][e] = amount
  OBVIOUS
<1>10. QED
  BY <1>2, <1>3, <1>6, <1>7, <1>8, <1>9, SameStake DEF Promise!Divide

LEMMA CloneCallRefines ==
    ASSUME TypeOK, MoneyInv, NEW e \in Escrows, CloneCall(e)
    PROVE  [Promise!Next]_Promise!promiseVars
<1>0. /\ escrow[e] \in Clone
      /\ {"RELEASE", "REFUND"} \subseteq Resolutions
      /\ Votes \subseteq Resolutions
  BY DEF TypeOK, EscrowTypeOK, Resolutions, Votes
<1>1. CASE DepositFunds(e) \/ FundWithAuthorization(e)
  BY <1>1, PullHolds DEF DepositFunds, FundWithAuthorization, Promise!Next
<1>2. CASE CancelOffer(e)
  BY <1>2, CancelLapses DEF Promise!Next
<1>3. CASE SubmitDelivery(e)
  <2> DEFINE new == [escrow[e] EXCEPT
                        !.state = "SUBMITTED",
                        !.reviewDeadline = Deadline(escrow[e].reviewWindow)]
  <2>1. /\ escrow[e].state \in Live /\ new.state \in Live
        /\ new.amount = escrow[e].amount
    BY <1>0, <1>3 DEF SubmitDelivery, In, Live, Clone
  <2>2. escrow' = [escrow EXCEPT ![e] = new] /\ UNCHANGED paidOut
    BY <1>3 DEF SubmitDelivery
  <2> HIDE DEF new
  <2>3. QED
    BY <2>1, <2>2, StaysHeld
<1>4. ASSUME \/ ReleaseFunds(e) \/ RefundBuyer(e) \/ TimeoutRefund(e)
             \/ Finalize(e)
             \/ \E outcome \in Votes : CouncilResolve(e, outcome)
      PROVE  Promise!Next
  <2>1. /\ escrow[e].state \in Live
        /\ \E result \in Resolutions : Settle(e, result)
    BY <1>0, <1>4
       DEF ReleaseFunds, RefundBuyer, TimeoutRefund, Finalize, CouncilResolve,
           In, Live, Disputable
  <2>2. QED
    BY <2>1, SettleDivides DEF Promise!Next
<1>5. CASE \E p \in Parties : SubmitCounterEvidence(e, p)
  <2> DEFINE new == [escrow[e] EXCEPT !.counterEvidenceSubmitted = TRUE]
  <2>1. /\ escrow[e].state \in Live /\ new.state \in Live
        /\ new.amount = escrow[e].amount
    BY <1>0, <1>5 DEF SubmitCounterEvidence, In, Live, Clone
  <2>2. escrow' = [escrow EXCEPT ![e] = new] /\ UNCHANGED paidOut
    BY <1>5 DEF SubmitCounterEvidence
  <2> HIDE DEF new
  <2>3. QED
    BY <2>1, <2>2, StaysHeld
<1>6. CASE \E p \in Parties : Donate(e, p)
  <2>1. UNCHANGED <<escrow, paidOut>>
    BY <1>6 DEF Donate
  <2>2. QED
    BY <2>1, NoStep
<1>7. QED
  BY <1>1, <1>2, <1>3, <1>4, <1>5, <1>6 DEF CloneCall

LEMMA PanelCallRefines ==
    ASSUME TypeOK, MoneyInv, NEW e \in Escrows, PanelCall(e)
    PROVE  [Promise!Next]_Promise!promiseVars
<1>1. CASE Execute(e)
  <2>1. /\ escrow[e].state \in Live
        /\ Settle(e, Outcome(cases[e]))
    BY <1>1 DEF Execute, In, Live
  <2>2. Outcome(cases[e]) \in Resolutions
    BY DEF Outcome, Resolutions
  <2>3. QED
    BY <2>1, <2>2, SettleDivides DEF Promise!Next
<1>2. ASSUME NEW p \in Parties, RaiseDispute(e, p, isEscrow[e])
      PROVE  UNCHANGED Promise!promiseVars
  <2> DEFINE new == [escrow[e] EXCEPT
                        !.state = "DISPUTED", !.disputedAt = now,
                        !.counterEvidenceDeadline = Deadline(EvidenceWindow),
                        !.disputeRaisedBy = p]
  <2>1. /\ escrow[e].state \in Live /\ new.state \in Live
        /\ new.amount = escrow[e].amount
    BY <1>2 DEF RaiseDispute, In, Live, Disputable, TypeOK, EscrowTypeOK, Clone
  <2>2. escrow' = [escrow EXCEPT ![e] = new] /\ UNCHANGED paidOut
    BY <1>2 DEF RaiseDispute
  <2> HIDE DEF new
  <2>3. QED
    BY <2>1, <2>2, StaysHeld
<1>3. QED
  BY <1>1, <1>2 DEF PanelCall

LEMMA MarketRefines ==
    TypeInv /\ MoneyInv /\ [Next]_vars => [Promise!Next]_Promise!promiseVars
<1> SUFFICES ASSUME TypeInv, MoneyInv, [Next]_vars
             PROVE  [Promise!Next]_Promise!promiseVars
  OBVIOUS
<1>0. TypeOK
  BY DEF TypeInv
<1>1. CASE \/ TimePasses \/ TokenIssuer \/ RegistryOwner \/ PanelOwner
           \/ UNCHANGED vars
  <2>1. UNCHANGED <<escrow, paidOut>>
    BY <1>1
       DEF TimePasses, TokenIssuer, RegistryOwner, PanelOwner, vars, escrowVars
  <2>2. QED
    BY <2>1, NoStep
<1>2. ASSUME NEW e \in Escrows, Buyer(e) \/ Reviewer(e) \/ Attester(e)
      PROVE  UNCHANGED Promise!promiseVars
  <2>1. UNCHANGED <<escrow, paidOut>>
    BY <1>2 DEF Buyer, GiveConsent, Reviewer, Attester, escrowVars
  <2>2. QED
    BY <2>1, NoStep
<1>3. ASSUME NEW e \in Escrows, Vendor(e)
      PROVE  Promise!Next
  BY <1>0, <1>3, VendorOffers DEF Promise!Next
<1>4. ASSUME NEW e \in Escrows, CloneCall(e) \/ PanelCall(e)
      PROVE  [Promise!Next]_Promise!promiseVars
  BY <1>0, <1>4, CloneCallRefines, PanelCallRefines
<1>5. QED
  BY <1>1, <1>2, <1>3, <1>4 DEF Next

LEMMA MarketStartsPromise == Init => Promise!Init
<1> SUFFICES ASSUME Init PROVE Promise!Init
  OBVIOUS
<1>1. \A e \in Escrows : escrow[e] = FreshClone
  BY DEF Init, EscrowInit
<1>2. \A e \in Escrows : Phase(e) = "none" /\ escrow[e].amount = 0
  BY <1>1, PhaseNow DEF FreshClone
<1>3. paidOut = [e \in Escrows |-> NoPayout]
  BY DEF Init, EscrowInit
<1>4. QED
  BY <1>2, <1>3 DEF Promise!Init, Promise!NoPayout, NoPayout

(***************************************************************************)
(* Factory, clones, panel and fee router together keep the promise of the  *)
(* abstract escrow: an offer is taken up or lapses, and money that is held *)
(* is divided once and to the last unit, through whichever function.       *)
(***************************************************************************)
THEOREM ContractsKeepPromise == Spec => KeepsPromise
<1>1. Spec => [][Promise!Next]_Promise!promiseVars
  BY TypeInit, TypeStep, MoneyInit, MoneyStep, MarketRefines, PTL DEF Spec
<1>2. Spec => Promise!Init
  BY MarketStartsPromise, PTL DEF Spec
<1>3. QED
  BY <1>1, <1>2, PTL DEF KeepsPromise, Promise!Spec
-----------------------------------------------------------------------------
(***************************************************************************)
(* What ends an order that everybody else has forgotten.                   *)
(***************************************************************************)
CanSettle(e, result) == CanPay(e, result, PayoutOf(result, escrow[e].amount))

Accepted(e) ==
    /\ TimeoutDue(e) =>
         \/ In(e, {"CREATED"}) /\ OfferLapsed(e)
         \/ In(e, {"LOCKED"}) /\ WorkOverdue(e) /\ CanSettle(e, "REFUND")
         \/ In(e, {"SUBMITTED"}) /\ ReviewOver(e) /\ CanSettle(e, "RELEASE")
    /\ ExecuteDue(e) =>
         /\ In(e, {"DISPUTED"}) /\ Opened(e) /\ Unexecuted(e) /\ Executable(e)
         /\ CanSettle(e, Outcome(cases[e]))

DisputedHasCase ==
    \A e \in Escrows : In(e, {"DISPUTED"}) => escrow[e].disputedAt # 0

LEMMA PayableUnlessBlocked ==
    ASSUME TypeOK, MoneyInv, NEW e \in Escrows, NEW result \in Resolutions,
           In(e, Live), ~Blocked(e)
    PROVE  CanSettle(e, result)
<1> PICK amount \in Nat : amount = escrow[e].amount
  BY DEF TypeOK, EscrowTypeOK, Clone
<1> PICK payout \in Payout : payout = PayoutOf(result, amount) /\ PaidOut(payout) = amount
  BY PayoutFacts
<1>1. balance[e] = donated[e] + amount /\ donated[e] \in Nat
  BY EscrowAssumption DEF MoneyInv, Custody, TypeOK, EscrowTypeOK
<1>2. balance[e] >= PaidOut(payout)
  BY <1>1
<1>3. {e, escrow[e].buyer, escrow[e].seller, Treasury} \cap frozen = {}
  BY DEF Blocked
<1> QED  BY <1>2, <1>3 DEF CanSettle, CanPay

LEMMA DueIsAccepted ==
    ASSUME TypeOK, MoneyInv, ExecutedIsSettled, DisputedIsOpened, DisputedHasCase,
           NEW e \in Escrows
    PROVE  Accepted(e)
<1>1. {"REFUND", "RELEASE", Outcome(cases[e])} \subseteq Resolutions
  BY DEF Resolutions, Outcome
<1>2. ASSUME TimeoutDue(e)
      PROVE  \/ In(e, {"CREATED"}) /\ OfferLapsed(e)
             \/ In(e, {"LOCKED"}) /\ WorkOverdue(e) /\ CanSettle(e, "REFUND")
             \/ In(e, {"SUBMITTED"}) /\ ReviewOver(e) /\ CanSettle(e, "RELEASE")
  BY <1>1, <1>2, PayableUnlessBlocked DEF TimeoutDue, In, Live
<1>3. ASSUME ExecuteDue(e)
      PROVE  /\ In(e, {"DISPUTED"}) /\ Opened(e) /\ Unexecuted(e) /\ Executable(e)
             /\ CanSettle(e, Outcome(cases[e]))
  <2>1. In(e, {"DISPUTED"}) /\ ~Blocked(e) /\ Executable(e)
    BY <1>3 DEF ExecuteDue, Executable
  <2>2. Opened(e)
    BY <2>1 DEF DisputedIsOpened, DisputedHasCase
  <2>3. Unexecuted(e)
    BY <2>1 DEF ExecutedIsSettled, Unexecuted, In
  <2>4. CanSettle(e, Outcome(cases[e]))
    BY <1>1, <2>1, PayableUnlessBlocked DEF In, Live
  <2> QED  BY <2>1, <2>2, <2>3, <2>4
<1> QED  BY <1>2, <1>3 DEF Accepted

(***************************************************************************)
(* Deadlines are set when a state is entered and stand while it lasts.     *)
(***************************************************************************)
(***************************************************************************)
(* What holds of an order across a call: it is not disputed unless it was, *)
(* and keeps its deadlines for as long as it keeps its state.              *)
(***************************************************************************)
Deadlines(c) == <<c.offerDeadline, c.workDeadline, c.reviewDeadline>>

Stands(e) ==
    /\ escrow'[e].state = "DISPUTED" =>
          escrow[e].state = "DISPUTED" /\ escrow'[e].disputedAt = escrow[e].disputedAt
    /\ escrow'[e].state = escrow[e].state => Deadlines(escrow'[e]) = Deadlines(escrow[e])

LEMMA CloneCallStands ==
    ASSUME TypeOK, NEW e \in Escrows, CloneCall(e), NEW f \in Escrows
    PROVE  Stands(f)
<1>0. escrow \in [Escrows -> Clone] /\ escrow[e] \in Clone
  BY DEF TypeOK, EscrowTypeOK
<1>1. CASE DepositFunds(e) \/ FundWithAuthorization(e)
  <2>1. Lock(e) /\ escrow[e].state = "CREATED"
    BY <1>1 DEF DepositFunds, FundWithAuthorization, Pull, In
  <2>2. f # e => escrow'[f] = escrow[f]
    BY <1>0, <2>1 DEF Lock
  <2>3. escrow'[e].state = "LOCKED"
    BY <1>0, <2>1 DEF Lock, Clone
  <2> QED  BY <2>1, <2>2, <2>3 DEF Stands
<1>2. CASE CancelOffer(e)
  <2>1. f # e => escrow'[f] = escrow[f]
    BY <1>0, <1>2 DEF CancelOffer
  <2>2. escrow'[e].state = "EXPIRED" /\ escrow[e].state = "CREATED"
    BY <1>0, <1>2 DEF CancelOffer, Clone, In
  <2> QED  BY <2>1, <2>2 DEF Stands
<1>3. CASE SubmitDelivery(e)
  <2>1. f # e => escrow'[f] = escrow[f]
    BY <1>0, <1>3 DEF SubmitDelivery
  <2>2. escrow'[e].state = "SUBMITTED" /\ escrow[e].state = "LOCKED"
    BY <1>0, <1>3 DEF SubmitDelivery, Clone, In
  <2> QED  BY <2>1, <2>2 DEF Stands
<1>4. ASSUME NEW result, Close(e, result)
      PROVE  Stands(f)
  <2>1. f # e => escrow'[f] = escrow[f]
    BY <1>0, <1>4 DEF Close
  <2>2. /\ escrow'[e].state = "RESOLVED"
        /\ Deadlines(escrow'[e]) = Deadlines(escrow[e])
    BY <1>0, <1>4 DEF Close, Clone, Deadlines
  <2> QED  BY <2>1, <2>2 DEF Stands
<1>5. CASE \/ ReleaseFunds(e) \/ RefundBuyer(e) \/ TimeoutRefund(e) \/ Finalize(e)
           \/ \E outcome \in Votes : CouncilResolve(e, outcome)
  <2>1. \E result : Close(e, result)
    BY <1>5 DEF ReleaseFunds, RefundBuyer, TimeoutRefund, Finalize, CouncilResolve, Settle
  <2> QED  BY <1>4, <2>1
<1>6. CASE \E p \in Parties : SubmitCounterEvidence(e, p)
  <2>1. f # e => escrow'[f] = escrow[f]
    BY <1>0, <1>6 DEF SubmitCounterEvidence
  <2>2. /\ escrow'[e].state = escrow[e].state
        /\ escrow'[e].disputedAt = escrow[e].disputedAt
        /\ Deadlines(escrow'[e]) = Deadlines(escrow[e])
    BY <1>0, <1>6 DEF SubmitCounterEvidence, Clone, Deadlines
  <2> QED  BY <2>1, <2>2 DEF Stands
<1>7. CASE \E p \in Parties : Donate(e, p)
  BY <1>7 DEF Donate, Stands
<1> QED  BY <1>1, <1>2, <1>3, <1>5, <1>6, <1>7 DEF CloneCall

LEMMA PanelCallStands ==
    ASSUME TypeOK, NEW e \in Escrows, PanelCall(e), NEW f \in Escrows
    PROVE  /\ escrow'[f].state = "DISPUTED" =>
                \/ escrow'[f].disputedAt # 0
                \/ /\ escrow[f].state = "DISPUTED"
                   /\ escrow'[f].disputedAt = escrow[f].disputedAt
           /\ escrow'[f].state = escrow[f].state =>
                Deadlines(escrow'[f]) = Deadlines(escrow[f]) /\ cases'[f] = cases[f]
<1>0. /\ escrow \in [Escrows -> Clone] /\ escrow[e] \in Clone
      /\ cases \in [Escrows -> Case] /\ now \in Nat /\ now # 0
  BY TokenAssumption DEF TypeOK, TokenTypeOK, EscrowTypeOK, PanelTypeOK
<1>1. CASE Execute(e)
  <2>1. Close(e, Outcome(cases[e])) /\ MarkExecuted(e) /\ escrow[e].state = "DISPUTED"
    BY <1>1 DEF Execute, Settle, In
  <2>2. f # e => escrow'[f] = escrow[f] /\ cases'[f] = cases[f]
    BY <1>0, <2>1 DEF Close, MarkExecuted
  <2>3. escrow'[e].state = "RESOLVED"
    BY <1>0, <2>1 DEF Close, Clone
  <2> QED  BY <2>1, <2>2, <2>3
<1>2. ASSUME NEW p \in Parties, RaiseDispute(e, p, isEscrow[e])
      PROVE  /\ f # e => escrow'[f] = escrow[f] /\ cases'[f] = cases[f]
             /\ escrow'[e].state = "DISPUTED" /\ escrow[e].state # "DISPUTED"
             /\ escrow'[e].disputedAt # 0
  <2>1. f # e => escrow'[f] = escrow[f]
    BY <1>0, <1>2 DEF RaiseDispute
  <2>2. f # e => cases'[f] = cases[f]
    BY <1>0, <1>2 DEF RaiseDispute, Open
  <2>3. escrow'[e].state = "DISPUTED" /\ escrow'[e].disputedAt = now
    BY <1>0, <1>2 DEF RaiseDispute, Clone
  <2>4. escrow[e].state # "DISPUTED"
    BY <1>2 DEF RaiseDispute, In, Disputable
  <2> QED  BY <1>0, <2>1, <2>2, <2>3, <2>4
<1> QED  BY <1>1, <1>2 DEF PanelCall

LEMMA ReviewerStands ==
    ASSUME TypeOK, NEW e \in Escrows, Reviewer(e), NEW f \in Escrows
    PROVE  cases'[f].revealDeadline = cases[f].revealDeadline
<1>1. PICK a \in Arbiters : Commit(e, a) \/ \E v \in Votes : Reveal(e, a, v)
  BY DEF Reviewer
<1>2. CASE Commit(e, a)
  BY <1>2 DEF Commit
<1>3. ASSUME NEW v \in Votes, Reveal(e, a, v)
      PROVE  cases'[f].revealDeadline = cases[f].revealDeadline
  <2>1. cases \in [Escrows -> Case] /\ cases[e] \in Case
    BY DEF TypeOK, PanelTypeOK
  <2>2. Counted(cases[e], v).revealDeadline = cases[e].revealDeadline
    BY <2>1, CountedFacts
  <2> QED  BY <1>3, <2>1, <2>2 DEF Reveal
<1> QED  BY <1>1, <1>2, <1>3

LEMMA VendorStands ==
    ASSUME TypeOK, NEW e \in Escrows, Vendor(e), NEW f \in Escrows
    PROVE  Stands(f)
<1>1. /\ escrow[e].state = "NONE" /\ escrow'[e].state = "CREATED"
      /\ f # e => escrow'[f] = escrow[f]
  BY DEF Vendor, CreateEscrow, Initialize, FreshClone, In, TypeOK, EscrowTypeOK
<1> QED  BY <1>1 DEF Stands

(***************************************************************************)
(* An order that stays where it is keeps its deadlines, and time only goes *)
(* on: what is due stays due.                                              *)
(***************************************************************************)
LEMMA StillDue ==
    ASSUME TypeOK, [Next]_vars, NEW e \in Escrows, escrow'[e].state = escrow[e].state
    PROVE  /\ now' >= now
           /\ Deadlines(escrow'[e]) = Deadlines(escrow[e])
           /\ cases'[e].revealDeadline = cases[e].revealDeadline
<1>0. now \in Nat /\ now >= now
  BY TokenAssumption DEF TypeOK, TokenTypeOK
<1>1. ASSUME UNCHANGED <<escrow, cases, now>>
      PROVE  /\ now' >= now
             /\ Deadlines(escrow'[e]) = Deadlines(escrow[e])
             /\ cases'[e].revealDeadline = cases[e].revealDeadline
  BY <1>0, <1>1
<1>2. CASE TimePasses
  BY <1>0, <1>2 DEF TimePasses, Tick, panelVars, escrowVars
<1>3. ASSUME NEW f \in Escrows, Vendor(f)
      PROVE  /\ now' >= now
             /\ Deadlines(escrow'[e]) = Deadlines(escrow[e])
             /\ cases'[e].revealDeadline = cases[e].revealDeadline
  BY <1>0, <1>3, VendorStands DEF Stands, Vendor, panelVars
<1>4. ASSUME NEW f \in Escrows, CloneCall(f)
      PROVE  /\ now' >= now
             /\ Deadlines(escrow'[e]) = Deadlines(escrow[e])
             /\ cases'[e].revealDeadline = cases[e].revealDeadline
  BY <1>0, <1>4, CloneCallStands DEF Stands, CloneCall, panelVars
<1>5. ASSUME NEW f \in Escrows, PanelCall(f)
      PROVE  /\ now' >= now
             /\ Deadlines(escrow'[e]) = Deadlines(escrow[e])
             /\ cases'[e].revealDeadline = cases[e].revealDeadline
  <2>1. UNCHANGED now
    BY <1>5 DEF PanelCall
  <2>2. Deadlines(escrow'[e]) = Deadlines(escrow[e]) /\ cases'[e] = cases[e]
    BY <1>5, PanelCallStands
  <2> QED  BY <1>0, <2>1, <2>2
<1>6. ASSUME NEW f \in Escrows, Reviewer(f)
      PROVE  /\ now' >= now
             /\ Deadlines(escrow'[e]) = Deadlines(escrow[e])
             /\ cases'[e].revealDeadline = cases[e].revealDeadline
  BY <1>0, <1>6, ReviewerStands DEF Reviewer, escrowVars
<1>7. ASSUME \/ TokenIssuer \/ RegistryOwner \/ PanelOwner \/ UNCHANGED vars
             \/ \E f \in Escrows : Buyer(f) \/ Attester(f)
      PROVE  UNCHANGED <<escrow, cases, now>>
  BY <1>7 DEF TokenIssuer, Freeze, RegistryOwner, PanelOwner, SetFactory, Buyer,
              GiveConsent, Attester, vars, panelVars, escrowVars
<1> QED  BY <1>1, <1>2, <1>3, <1>4, <1>5, <1>6, <1>7 DEF Next

LEMMA DisputedHasCaseInit == Init => DisputedHasCase
BY DEF Init, EscrowInit, FreshClone, DisputedHasCase, In

LEMMA DisputedHasCaseStep ==
    ASSUME TypeOK, DisputedHasCase, [Next]_vars
    PROVE  DisputedHasCase'
<1>1. ASSUME \A e \in Escrows : Stands(e)
      PROVE  DisputedHasCase'
  BY <1>1 DEF DisputedHasCase, Stands, In
<1>2. ASSUME NEW f \in Escrows, PanelCall(f)
      PROVE  DisputedHasCase'
  BY <1>2, PanelCallStands DEF DisputedHasCase, In
<1>3. CASE UNCHANGED escrow
  BY <1>3 DEF DisputedHasCase, In
<1>4. ASSUME \/ TimePasses \/ TokenIssuer \/ RegistryOwner \/ PanelOwner
             \/ UNCHANGED vars
             \/ \E f \in Escrows : Buyer(f) \/ Attester(f) \/ Reviewer(f)
      PROVE  UNCHANGED escrow
  BY <1>4 DEF TimePasses, TokenIssuer, RegistryOwner, PanelOwner, Buyer,
              GiveConsent, Attester, Reviewer, vars, escrowVars
<1> QED
  BY <1>1, <1>2, <1>3, <1>4, VendorStands, CloneCallStands DEF Next

(***************************************************************************)
(* No call that is due reverts, whatever happened before: an order past    *)
(* its deadline, or a case past its last window, can be ended by anyone,   *)
(* unless the token's issuer has frozen one of the order's accounts.       *)
(***************************************************************************)
THEOREM NoOrderIsStuck == Spec => [](\A e \in Escrows : Accepted(e))
<1> DEFINE inv == DisputedIsOpened /\ DisputedHasCase
<1>1. Init => inv
  BY DisputedInit, DisputedHasCaseInit
<1>2. TypeInv /\ inv /\ [Next]_vars => inv'
  BY DisputedStep, DisputedHasCaseStep DEF TypeInv
<1>3. TypeInv /\ MoneyInv /\ DisputeInv /\ inv => \A e \in Escrows : Accepted(e)
  BY DueIsAccepted DEF TypeInv, DisputeInv
<1> HIDE DEF inv
<1> QED  BY <1>1, <1>2, <1>3, MoneyAlways, DisputeAlways, PTL DEF Spec

(***************************************************************************)
(* What is assumed of the callers, with TimeoutDue and ExecuteDue for what *)
(* makes the calls possible: a call that stays due is sent in the end.     *)
(***************************************************************************)
CallsAreSent(e) ==
    /\ []<>~TimeoutDue(e) \/ []<><<TimeoutCall(e)>>_vars
    /\ []<>~ExecuteDue(e) \/ []<><<ExecuteCall(e)>>_vars

\* A call that is made takes its order on.
LEMMA TimeoutCallEnds ==
    ASSUME TypeOK, NEW e \in Escrows, TimeoutCall(e)
    PROVE  escrow'[e].state # escrow[e].state
<1>1. escrow \in [Escrows -> Clone] /\ escrow[e] \in Clone
  BY DEF TypeOK, EscrowTypeOK
<1>2. CASE CancelOffer(e)
  BY <1>1, <1>2 DEF CancelOffer, In, Clone
<1>3. ASSUME NEW result, Close(e, result)
      PROVE  escrow'[e].state = "RESOLVED"
  BY <1>1, <1>3 DEF Close, Clone
<1>4. CASE TimeoutRefund(e) \/ Finalize(e)
  BY <1>3, <1>4 DEF TimeoutRefund, Finalize, Settle, In
<1> QED  BY <1>2, <1>4 DEF TimeoutCall

LEMMA ExecuteCallEnds ==
    ASSUME TypeOK, NEW e \in Escrows, ExecuteCall(e)
    PROVE  escrow'[e].state # escrow[e].state
<1>1. escrow \in [Escrows -> Clone] /\ escrow[e] \in Clone
  BY DEF TypeOK, EscrowTypeOK
<1>2. Close(e, Outcome(cases[e])) /\ In(e, {"DISPUTED"})
  BY DEF ExecuteCall, Execute, Settle
<1> QED  BY <1>1, <1>2 DEF Close, Clone, In

\* What is due stays due until the order has moved.
LEMMA DueUntilMoved ==
    ASSUME TypeOK, TypeOK', NEW e \in Escrows, [Next]_vars
    PROVE  /\ In(e, {"CREATED"}) /\ OfferLapsed(e) =>
                (In(e, {"CREATED"}) /\ OfferLapsed(e))' \/ ~In(e, {"CREATED"})'
           /\ In(e, {"LOCKED"}) /\ WorkOverdue(e) =>
                (In(e, {"LOCKED"}) /\ WorkOverdue(e))' \/ ~In(e, {"LOCKED"})'
           /\ In(e, {"SUBMITTED"}) /\ ReviewOver(e) =>
                (In(e, {"SUBMITTED"}) /\ ReviewOver(e))' \/ ~In(e, {"SUBMITTED"})'
           /\ In(e, {"DISPUTED"}) /\ now >= cases[e].revealDeadline =>
                \/ (In(e, {"DISPUTED"}) /\ now >= cases[e].revealDeadline)'
                \/ ~In(e, {"DISPUTED"})'
<1>1. /\ escrow \in [Escrows -> Clone] /\ escrow' \in [Escrows -> Clone]
      /\ cases \in [Escrows -> Case] /\ now \in Nat /\ now' \in Nat
  BY TokenAssumption DEF TypeOK, TokenTypeOK, EscrowTypeOK, PanelTypeOK
<1>2. CASE escrow'[e].state = escrow[e].state
  <2>1. /\ now' >= now /\ Deadlines(escrow'[e]) = Deadlines(escrow[e])
        /\ cases'[e].revealDeadline = cases[e].revealDeadline
    BY <1>2, StillDue
  <2> PICK o \in Nat, w \in Nat, r \in Nat, v \in Nat :
        /\ o = escrow[e].offerDeadline /\ w = escrow[e].workDeadline
        /\ r = escrow[e].reviewDeadline /\ v = cases[e].revealDeadline
    BY <1>1 DEF Clone, Case
  <2>2. /\ o = escrow'[e].offerDeadline /\ w = escrow'[e].workDeadline
        /\ r = escrow'[e].reviewDeadline /\ v = cases'[e].revealDeadline
    BY <2>1 DEF Deadlines
  <2>3. /\ now > o => now' > o
        /\ now > w => now' > w
        /\ now > r => now' > r
        /\ now >= v => now' >= v
    BY <1>1, <2>1
  <2> QED  BY <1>2, <2>2, <2>3 DEF In, OfferLapsed, WorkOverdue, ReviewOver
<1>3. CASE escrow'[e].state # escrow[e].state
  BY <1>3 DEF In
<1> QED  BY <1>2, <1>3

(***************************************************************************)
(* Nobody's silence keeps an order where it is.  Once its deadline has     *)
(* passed, an open offer lapses, an order without a delivery and one       *)
(* without a review are settled, and a dispute without votes ends, unless  *)
(* one of the order's accounts gets frozen.                                *)
(***************************************************************************)
THEOREM SilenceEnds ==
    ASSUME NEW e \in Escrows
    PROVE  Spec /\ CallsAreSent(e) =>
             /\ In(e, {"CREATED"}) /\ OfferLapsed(e) ~> ~In(e, {"CREATED"})
             /\ In(e, {"LOCKED"}) /\ WorkOverdue(e) ~> ~In(e, {"LOCKED"}) \/ Blocked(e)
             /\ In(e, {"SUBMITTED"}) /\ ReviewOver(e)
                    ~> ~In(e, {"SUBMITTED"}) \/ Blocked(e)
             /\ In(e, {"DISPUTED"}) /\ now >= cases[e].revealDeadline
                    ~> ~In(e, {"DISPUTED"}) \/ Blocked(e)
<1> DEFINE P1 == In(e, {"CREATED"}) /\ OfferLapsed(e)
           P2 == In(e, {"LOCKED"}) /\ WorkOverdue(e)
           P3 == In(e, {"SUBMITTED"}) /\ ReviewOver(e)
           P4 == In(e, {"DISPUTED"}) /\ now >= cases[e].revealDeadline
           Q1 == ~In(e, {"CREATED"})
           Q2 == ~In(e, {"LOCKED"})
           Q3 == ~In(e, {"SUBMITTED"})
           Q4 == ~In(e, {"DISPUTED"})
           blocked == Blocked(e)
           due == TimeoutDue(e)
           ripe == ExecuteDue(e)
<1>1. TypeOK /\ TypeOK' /\ [Next]_vars =>
        /\ P1 => P1' \/ Q1'
        /\ P2 => P2' \/ Q2'
        /\ P3 => P3' \/ Q3'
        /\ P4 => P4' \/ Q4'
  BY DueUntilMoved
<1>2. TypeOK /\ <<TimeoutCall(e)>>_vars =>
        (P1 => Q1') /\ (P2 => Q2') /\ (P3 => Q3')
  BY TimeoutCallEnds DEF In
<1>3. TypeOK /\ <<ExecuteCall(e)>>_vars => (P4 => Q4')
  BY ExecuteCallEnds DEF In
<1>4. /\ P1 => due
      /\ P2 => due \/ blocked
      /\ P3 => due \/ blocked
      /\ P4 => ripe \/ blocked
  BY DEF TimeoutDue, ExecuteDue
<1>5. Spec => []TypeOK /\ [][Next]_vars
  BY TypeCorrect, PTL DEF Spec
<1>6. CallsAreSent(e) =>
        ([]<>~due \/ []<><<TimeoutCall(e)>>_vars)
          /\ ([]<>~ripe \/ []<><<ExecuteCall(e)>>_vars)
  BY DEF CallsAreSent
<1> HIDE DEF P1, P2, P3, P4, Q1, Q2, Q3, Q4, blocked, due, ripe
<1>7. Spec /\ CallsAreSent(e) => P1 ~> Q1
  BY <1>1, <1>2, <1>4, <1>5, <1>6, PTL
<1>8. Spec /\ CallsAreSent(e) => P2 ~> Q2 \/ blocked
  BY <1>1, <1>2, <1>4, <1>5, <1>6, PTL
<1>9. Spec /\ CallsAreSent(e) => P3 ~> Q3 \/ blocked
  BY <1>1, <1>2, <1>4, <1>5, <1>6, PTL
<1>10. Spec /\ CallsAreSent(e) => P4 ~> Q4 \/ blocked
  BY <1>1, <1>3, <1>4, <1>5, <1>6, PTL
<1> QED
  BY <1>7, <1>8, <1>9, <1>10 DEF P1, P2, P3, P4, Q1, Q2, Q3, Q4, blocked

=============================================================================
