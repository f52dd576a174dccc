----------------------------- MODULE MCTreasury -----------------------------
(***************************************************************************)
(* Instances of TreasuryAdmission for TLC.                                 *)
(***************************************************************************)
EXTENDS TreasuryAdmission, TLC

MCSymmetry == Permutations(Reviews)

=============================================================================
