------------------------------ MODULE MCReview ------------------------------
(***************************************************************************)
(* Instances of ReviewProcessor for TLC.                                   *)
(***************************************************************************)
EXTENDS ReviewProcessor

\* Everybody may be asked, or the tool has disabled them all since the purchase.
MCRosters ==
    {[r \in Reviewers |-> [active |-> enabled, address |-> "own"]] : enabled \in BOOLEAN}

=============================================================================
