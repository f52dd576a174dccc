--------------------------- MODULE EscrowPromise ---------------------------
(***************************************************************************)
(* What an order's escrow promises, whatever contracts carry it out: the   *)
(* money of an offer that is taken up is held, and is later divided among  *)
(* client, vendor and treasury, all of it, once, and with a fee never      *)
(* above the rate on the vendor's part; an offer nobody took up lapses.    *)
(***************************************************************************)
EXTENDS FeeRouter

CONSTANTS Escrows, Amounts

VARIABLES phase, stake, payout

promiseVars == <<phase, stake, payout>>

Init ==
    /\ phase = [e \in Escrows |-> "none"]
    /\ stake = [e \in Escrows |-> 0]
    /\ payout = [e \in Escrows |-> NoPayout]

Turn(e, from, to) ==
    /\ phase[e] = from
    /\ phase' = [phase EXCEPT ![e] = to]

Offer(e) ==
    /\ Turn(e, "none", "offered")
    /\ \E amount \in Amounts : stake' = [stake EXCEPT ![e] = amount]
    /\ UNCHANGED payout

Hold(e) == Turn(e, "offered", "held") /\ UNCHANGED <<stake, payout>>

Lapse(e) == Turn(e, "offered", "lapsed") /\ UNCHANGED <<stake, payout>>

Divisions(amount) ==
    {p \in [buyer : 0..amount, net : 0..amount, fee : 0..amount] :
        /\ PaidOut(p) = amount
        /\ p.fee * BpDenominator <= (p.net + p.fee) * FeeBp}

Divide(e) ==
    /\ Turn(e, "held", "paid")
    /\ \E p \in Divisions(stake[e]) : payout' = [payout EXCEPT ![e] = p]
    /\ UNCHANGED stake

Next == \E e \in Escrows : Offer(e) \/ Hold(e) \/ Lapse(e) \/ Divide(e)

Spec == Init /\ [][Next]_promiseVars

=============================================================================
