------------------------- MODULE TreasuryAdmission -------------------------
(***************************************************************************)
(* Whether the treasury can afford one more review.  A purchase holds a    *)
(* reservation, awaits the treasury's balance, which is cached for a       *)
(* while, and is admitted to payment if the balance covers the orders, the *)
(* reservations up to its own and itself.  Meanwhile earlier orders are    *)
(* paid out and refunded.  One unit is the reward, one the price that may  *)
(* have to be refunded.                                                    *)
(***************************************************************************)
EXTENDS Integers, FiniteSets

CONSTANTS
    Reviews,        \* purchases and the orders they become
    Prefund,        \* the treasury's balance at first
    MaxTransfers    \* bound: transfers out of the treasury

ASSUME AdmissionAssumption ==
    /\ IsFiniteSet(Reviews)
    /\ Prefund \in Nat
    /\ MaxTransfers \in Nat

VARIABLES
    stage,      \* see ReviewStages
    born,       \* created_at of the reservation
    rank,       \* the order of the random tokens
    now,
    seen,       \* a balance a purchase has read and not yet compared
    cache,      \* treasuryBalanceCache
    treasury,
    transfer,   \* each review's transfer in flight, see Transfers
    stale,      \* history: a balance outlived a transfer that was recorded
    overtaken   \* history: a reservation came in front of an admitted one

admissionVars ==
    <<stage, born, rank, now, seen, cache, treasury, transfer, stale, overtaken>>

Empty == -1

(***************************************************************************)
(* "reserved" and "admitted" are reservations; "open" stands for paid to   *)
(* payout_failed, "rewarded" for reviewer_paid and                         *)
(* reviewer_paid_settlement_failed.                                        *)
(***************************************************************************)
ReviewStages == {"none", "reserved", "admitted", "open", "rewarded", "expired",
                 "closed"}

Transfers == {"none", "created", "sent"}

Tokens == 1..Cardinality(Reviews)

AdmissionInit ==
    /\ stage = [p \in Reviews |-> "none"]
    /\ born = [p \in Reviews |-> 0]
    /\ rank \in {f \in [Reviews -> Tokens] :
                    \A p, q \in Reviews : p # q => f[p] # f[q]}
    /\ now = 0
    /\ seen = [p \in Reviews |-> Empty]
    /\ cache = Empty
    /\ treasury = Prefund
    /\ transfer = [p \in Reviews |-> "none"]
    /\ stale = FALSE
    /\ overtaken = FALSE

In(stages) == {p \in Reviews : stage[p] \in stages}

Becomes(p, s) == stage' = [stage EXCEPT ![p] = s]

-----------------------------------------------------------------------------
(***************************************************************************)
(* requiredTreasuryBalance.                                                *)
(***************************************************************************)
\* fault: the payer's refund is not set aside once the reviewer is paid.
RewardOnly == 2 * Cardinality(In({"open"}))

Liabilities ==
    2 * Cardinality(In({"open"})) + Cardinality(In({"rewarded", "expired"}))

\* created_at, and the random token between reservations of one millisecond.
UpTo(q, p) ==
    \/ born[q] < born[p]
    \/ born[q] = born[p] /\ rank[q] <= rank[p]

Through(p) == {q \in In({"reserved", "admitted"}) : UpTo(q, p)}

RequiredTreasuryBalance(p) ==
    Liabilities + 2 * Cardinality(Through(p))

-----------------------------------------------------------------------------
(***************************************************************************)
(* A purchase.                                                             *)
(***************************************************************************)
Hold(p) ==
    /\ stage[p] = "none"
    /\ Becomes(p, "reserved")
    /\ born' = [born EXCEPT ![p] = now]
    /\ UNCHANGED <<rank, now, seen, cache, treasury, transfer, stale>>
    /\ overtaken' = (overtaken \/ \E q \in In({"admitted"}) : UpTo(p, q)')

Decide(p, balance) ==
    Becomes(p, IF balance >= RequiredTreasuryBalance(p) THEN "admitted"
               ELSE "closed")

\* A cached balance is there at once.
DecideFromCache(p) ==
    /\ stage[p] = "reserved"
    /\ seen[p] = Empty
    /\ cache # Empty
    /\ Decide(p, cache)
    /\ UNCHANGED <<born, rank, now, seen, cache, treasury, transfer, stale, overtaken>>

\* Otherwise the chain is asked, and answers later.
ReadBalance(p) ==
    /\ stage[p] = "reserved"
    /\ seen[p] = Empty
    /\ cache = Empty
    /\ seen' = [seen EXCEPT ![p] = treasury]
    /\ UNCHANGED <<stage, born, rank, now, cache, treasury, transfer, stale, overtaken>>

DecideFromChain(p) ==
    /\ seen[p] # Empty
    /\ Decide(p, seen[p])
    /\ cache' = seen[p]
    /\ seen' = [seen EXCEPT ![p] = Empty]
    /\ UNCHANGED <<born, rank, now, treasury, transfer, stale, overtaken>>

\* The payment fails, or succeeds and the reservation becomes an order.
Pay(p) ==
    /\ stage[p] = "admitted"
    /\ Becomes(p, "open") \/ Becomes(p, "closed")
    /\ UNCHANGED <<born, rank, now, seen, cache, treasury, transfer, stale, overtaken>>

-----------------------------------------------------------------------------
(***************************************************************************)
(* What becomes of an order: transfer of circle.ts creates a transaction   *)
(* and forgets the cached balance, the chain carries it out, and the order *)
(* moves on when the processor sees it completed.                          *)
(***************************************************************************)
Expire(p) ==
    /\ stage[p] = "open"
    /\ transfer[p] = "none"
    /\ Becomes(p, "expired")
    /\ UNCHANGED <<born, rank, now, seen, cache, treasury, transfer, stale, overtaken>>

\* A resolution takes nothing out of the treasury.
Resolve(p) ==
    /\ stage[p] = "rewarded"
    /\ transfer[p] = "none"
    /\ Becomes(p, "closed")
    /\ UNCHANGED <<born, rank, now, seen, cache, treasury, transfer, stale, overtaken>>

CreateTransfer(p) ==
    /\ stage[p] \in {"open", "rewarded", "expired"}
    /\ transfer[p] = "none"
    /\ Prefund - treasury + Cardinality({q \in Reviews : transfer[q] = "created"})
            < MaxTransfers
    /\ transfer' = [transfer EXCEPT ![p] = "created"]
    /\ cache' = Empty
    /\ UNCHANGED <<stage, born, rank, now, seen, treasury, stale, overtaken>>

CarryOut(p) ==
    /\ transfer[p] = "created"
    /\ treasury > 0
    /\ treasury' = treasury - 1
    /\ transfer' = [transfer EXCEPT ![p] = "sent"]
    /\ UNCHANGED <<stage, born, rank, now, seen, cache, stale, overtaken>>

\* The call that created it forgets the cache once more; a later
\* getTransaction, after a timeout or a restart, does not.
Complete(p) ==
    /\ transfer[p] = "sent"
    /\ Becomes(p, IF stage[p] = "open" THEN "rewarded" ELSE "closed")
    /\ transfer' = [transfer EXCEPT ![p] = "none"]
    /\ cache' \in {cache, Empty}
    /\ stale' = (stale \/ cache' > treasury \/ \E q \in Reviews : seen[q] > treasury)
    /\ UNCHANGED <<born, rank, now, seen, treasury, overtaken>>

-----------------------------------------------------------------------------
Tick ==
    /\ now < Cardinality(Reviews)
    /\ now' = now + 1
    /\ UNCHANGED <<stage, born, rank, seen, cache, treasury, transfer, stale, overtaken>>

CacheExpires ==
    /\ cache # Empty
    /\ cache' = Empty
    /\ UNCHANGED <<stage, born, rank, now, seen, treasury, transfer, stale, overtaken>>

Order(p) ==
    \/ Expire(p) \/ Resolve(p) \/ CreateTransfer(p) \/ CarryOut(p)
    \/ Complete(p)

Purchase(p) ==
    \/ Hold(p) \/ DecideFromCache(p) \/ ReadBalance(p)
    \/ DecideFromChain(p) \/ Pay(p)

AdmissionNext ==
    \/ \E p \in Reviews : Purchase(p) \/ Order(p)
    \/ Tick \/ CacheExpires

AdmissionSpec == AdmissionInit /\ [][AdmissionNext]_admissionVars

-----------------------------------------------------------------------------
AdmissionTypeOK ==
    /\ stage \in [Reviews -> ReviewStages]
    /\ born \in [Reviews -> Nat]
    /\ rank \in [Reviews -> Tokens]
    /\ now \in Nat
    /\ seen \in [Reviews -> Nat \cup {Empty}]
    /\ cache \in Nat \cup {Empty}
    /\ treasury \in Nat
    /\ transfer \in [Reviews -> Transfers]
    /\ stale \in BOOLEAN
    /\ overtaken \in BOOLEAN

(***************************************************************************)
(* What may still have to be taken out of the treasury for reviews: a      *)
(* transfer that was carried out is no longer due, noticed or not.         *)
(***************************************************************************)
Unnoticed == {p \in Reviews : transfer[p] = "sent"}

Obligations ==
    2 * Cardinality(In({"admitted"})) + Liabilities - Cardinality(Unnoticed)

(***************************************************************************)
(* "Outstanding orders plus the deterministic prefix of concurrent         *)
(* reservations must fit the prefunded treasury before any of them reaches *)
(* x402 settlement."                                                       *)
(***************************************************************************)
Solvent == Obligations <= treasury

(***************************************************************************)
(* What is admitted always fits, as long as no balance read before a       *)
(* transfer is used after the transfer has been recorded, and no           *)
(* reservation of the same millisecond comes in front of one that was      *)
(* admitted without it.                                                    *)
(***************************************************************************)
AdmissionsFit == ~stale /\ ~overtaken => Solvent

-----------------------------------------------------------------------------
(***************************************************************************)
(* Why it holds, as an inductive invariant.  A balance that is still held  *)
(* is at most what the treasury would be without the transfers nobody has  *)
(* noticed; so what was compared with it, the liabilities and the          *)
(* reservations up to an admitted one, fits that sum, and goes on fitting. *)
(***************************************************************************)
Backing == treasury + Cardinality(Unnoticed)

BornByNow == \A p \in Reviews : stage[p] # "none" => born[p] <= now

StagesAgree ==
    \A p \in Reviews :
        /\ seen[p] # Empty => stage[p] = "reserved"
        /\ transfer[p] # "none" => stage[p] \in {"open", "rewarded", "expired"}

Covered ==
    /\ cache <= Backing
    /\ \A p \in Reviews : seen[p] <= Backing
    /\ Liabilities <= Backing
    /\ \A p \in In({"admitted"}) : RequiredTreasuryBalance(p) <= Backing

AdmissionInv ==
    /\ AdmissionTypeOK /\ BornByNow /\ StagesAgree
    /\ ~stale /\ ~overtaken => Covered

=============================================================================
