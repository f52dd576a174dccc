--------------------------- MODULE EscrowFactory ---------------------------
(***************************************************************************)
(* EscrowFactory: creates each clone at the address its vendor and salt    *)
(* determine, registers it and initializes it, all in one call.            *)
(***************************************************************************)
EXTENDS EscrowV1

CONSTANTS
    OfferTtl,
    LastOffer   \* bound: no offer is created after this time

ASSUME FactoryAssumption == OfferTtl \in Nat \ {0} /\ LastOffer \in Nat

VARIABLE isEscrow   \* the clones the factory has registered

FactoryTypeOK == isEscrow \in [Escrows -> BOOLEAN]

FactoryInit == isEscrow = [e \in Escrows |-> FALSE]

\* cloneDeterministic reverts at an address that holds a contract.
AddressFree(e) == ~isEscrow[e]

CreateEscrow(e, seller, buyer, amount, work, review) ==
    /\ now <= LastOffer
    /\ Fits(OfferTtl)
    /\ AddressFree(e)
    /\ isEscrow' = [isEscrow EXCEPT ![e] = TRUE]
    /\ Initialize(e, seller, buyer, amount, Deadline(OfferTtl), work, review)

=============================================================================
