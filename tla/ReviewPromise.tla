--------------------------- MODULE ReviewPromise ---------------------------
(***************************************************************************)
(* What a paid review promises, whatever fails on the way: the reviewer    *)
(* is paid once and only for a verdict; then the job is resolved by that   *)
(* verdict or the sponsor gets the fee back, never both and never twice;   *)
(* and without a verdict the fee goes back.  An order is closed under the  *)
(* outcome that really happened.                                           *)
(***************************************************************************)
EXTENDS Naturals

VARIABLES verdict, payouts, resolutions, refunds, outcome

promiseVars == <<verdict, payouts, resolutions, refunds, outcome>>

Init ==
    /\ verdict = FALSE
    /\ payouts = 0
    /\ resolutions = 0
    /\ refunds = 0
    /\ outcome = "none"

Judge ==
    /\ ~verdict
    /\ refunds = 0
    /\ verdict' = TRUE
    /\ UNCHANGED <<payouts, resolutions, refunds, outcome>>

PayReviewer ==
    /\ verdict
    /\ payouts = 0
    /\ payouts' = 1
    /\ UNCHANGED <<verdict, resolutions, refunds, outcome>>

Earned == verdict => payouts = 1

Resolve ==
    /\ verdict
    /\ Earned
    /\ resolutions = 0
    /\ refunds = 0
    /\ resolutions' = 1
    /\ UNCHANGED <<verdict, payouts, refunds, outcome>>

Refund ==
    /\ Earned
    /\ resolutions = 0
    /\ refunds = 0
    /\ refunds' = 1
    /\ UNCHANGED <<verdict, payouts, resolutions, outcome>>

Close ==
    /\ outcome = "none"
    /\ \/ resolutions = 1 /\ outcome' = "settled"
       \/ refunds = 1 /\ outcome' = "refunded"
    /\ UNCHANGED <<verdict, payouts, resolutions, refunds>>

Next == Judge \/ PayReviewer \/ Resolve \/ Refund \/ Close

Spec == Init /\ [][Next]_promiseVars

=============================================================================
