------------------------- MODULE ReputationRegistry -------------------------
(***************************************************************************)
(* ReputationRegistryV0: anyone may attest a registered, resolved clone,   *)
(* once; both of its parties get the settlement on their record.           *)
(***************************************************************************)
EXTENDS EscrowFactory

VARIABLES
    isAttested,     \* the clones attested so far
    scores          \* _scores

reputationVars == <<isAttested, scores>>

Score == [settled : Nat, released : Nat, refunded : Nat,
          disputed : Nat, splits : Nat]

NoScore == [settled |-> 0, released |-> 0, refunded |-> 0,
            disputed |-> 0, splits |-> 0]

ReputationTypeOK ==
    /\ isAttested \in [Escrows -> BOOLEAN]
    /\ scores \in [Parties -> Score]

ReputationInit ==
    /\ isAttested = [e \in Escrows |-> FALSE]
    /\ scores = [p \in Parties |-> NoScore]

\* _record
Record(score, result, wasDisputed) ==
    [settled  |-> score.settled + 1,
     released |-> score.released + (IF result = "RELEASE" THEN 1 ELSE 0),
     refunded |-> score.refunded + (IF result = "REFUND" THEN 1 ELSE 0),
     splits   |-> score.splits + (IF result = "SPLIT" THEN 1 ELSE 0),
     disputed |-> score.disputed + (IF wasDisputed THEN 1 ELSE 0)]

\* fault: the mark that stops a second attestation is checked too late.
NeverBlocked(e) == isEscrow[e]

NotYetAttested(e) == ~isAttested[e]

Attest(e) ==
    LET clone == escrow[e] IN
    /\ isEscrow[e]
    /\ NotYetAttested(e)
    /\ clone.state = "RESOLVED"
    /\ clone.resolution \in Resolutions
    /\ isAttested' = [isAttested EXCEPT ![e] = TRUE]
    /\ scores' = [p \in Parties |->
            IF p \in {clone.buyer, clone.seller}
            THEN Record(scores[p], clone.resolution, clone.disputedAt # 0)
            ELSE scores[p]]

=============================================================================
