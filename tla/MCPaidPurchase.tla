--------------------------- MODULE MCPaidPurchase ---------------------------
(***************************************************************************)
(* Instances of PaidPurchase for TLC.  A buyer retries with the same or    *)
(* another authorization, and another buyer wants the same job.            *)
(***************************************************************************)
EXTENDS PaidPurchase, TLC

MCAsk(r, j, a) == [request |-> r, job |-> j, auth |-> a]

MCAsks ==
    {MCAsk(1, 1, "a"), MCAsk(1, 1, "b"), MCAsk(2, 1, "b"), MCAsk(2, 2, "a"),
     MCAsk(1, 1, NoAuth)}

=============================================================================
