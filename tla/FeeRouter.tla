----------------------------- MODULE FeeRouter -----------------------------
(***************************************************************************)
(* FeeRouter.distribute: how a vendor's gross payout is divided, and what  *)
(* each resolution of an escrow therefore sends to whom (EscrowV1._settle).*)
(***************************************************************************)
EXTENDS Integers

CONSTANTS
    FeeBp,      \* the platform's fee in basis points
    Treasury    \* the account the fee goes to

BpDenominator == 10000

ASSUME FeeAssumption == FeeBp \in 0..BpDenominator

Resolutions == {"RELEASE", "REFUND", "SPLIT"}

Payout == [buyer : Nat, net : Nat, fee : Nat]

NoPayout == [buyer |-> 0, net |-> 0, fee |-> 0]

\* fault: the fee is rounded against the vendor.
RoundedUp(gross) == (gross * FeeBp + BpDenominator - 1) \div BpDenominator

Fee(gross) == (gross * FeeBp) \div BpDenominator

PaidOut(payout) == payout.buyer + payout.net + payout.fee

\* distribute(token, seller, gross) after the buyer was sent buyerAmount.
Distribute(buyerAmount, gross) ==
    [buyer |-> buyerAmount, net |-> gross - Fee(gross), fee |-> Fee(gross)]

\* fault: the odd unit of a split goes to nobody.
BothHalves(amount) == Distribute(amount \div 2, amount \div 2)

SplitPayout(amount) == Distribute(amount \div 2, amount - amount \div 2)

PayoutOf(result, amount) ==
    CASE result = "REFUND"  -> [NoPayout EXCEPT !.buyer = amount]
      [] result = "SPLIT"   -> SplitPayout(amount)
      [] result = "RELEASE" -> Distribute(0, amount)

=============================================================================
