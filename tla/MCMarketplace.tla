--------------------------- MODULE MCMarketplace ---------------------------
(***************************************************************************)
(* Instances of Marketplace for TLC.                                       *)
(***************************************************************************)
EXTENDS Marketplace, TLC

CONSTANTS e1, e2, p1, p2, a1, a2, a3, treasury

MCAccounts == {e1, e2, p1, p2, treasury}
MCAccounts1 == {e1, p1, p2, treasury}

\* Parties, and reviewers who are all listed at first, are interchangeable.
MCSymmetry == Permutations(Parties) \cup Permutations(InitialArbiters)

MCOrderSymmetry == Permutations(Parties) \cup Permutations(Escrows)

=============================================================================
