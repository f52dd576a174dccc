-------------------------- MODULE PurchasePromise --------------------------
(***************************************************************************)
(* What a buyer is promised, whatever fails: an authorization is charged   *)
(* at most once, at most one purchase of a request and of a job is ever    *)
(* charged, and only what was charged becomes an order, for good.          *)
(***************************************************************************)
CONSTANT Purchases

VARIABLES charged, orders, wants, funds

promiseVars == <<charged, orders, wants, funds>>

Init == charged = {} /\ orders = {}

Rivals(p, q) ==
    \/ wants[p][1] = wants[q][1]
    \/ wants[p][2] = wants[q][2]
    \/ funds[p] = funds[q]

Charge(p) ==
    /\ \A q \in charged : ~Rivals(p, q)
    /\ charged' = charged \cup {p}
    /\ UNCHANGED <<orders, wants, funds>>

Fulfil(paid) ==
    /\ orders' = orders \cup paid
    /\ UNCHANGED <<charged, wants, funds>>

Next ==
    \/ \E p \in Purchases \ charged : Charge(p)
    \/ \E paid \in SUBSET charged : Fulfil(paid)

Spec == Init /\ [][Next]_promiseVars

=============================================================================
