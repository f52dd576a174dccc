------------------------------- MODULE Token -------------------------------
(***************************************************************************)
(* The payment token every contract of the marketplace is paid in, and the *)
(* chain's block time.  Both are external to the repository: the token is  *)
(* an ERC-20 contract (USDC on Arc) and is modelled from how EscrowV1 and  *)
(* FeeRouter use it.  A pull can deliver less than it was asked for, which *)
(* the escrow's balance check looks for, and a transfer from or to an      *)
(* account the issuer has frozen reverts, which reverts the whole call     *)
(* that contains it.                                                       *)
(***************************************************************************)
EXTENDS Integers, FiniteSets

CONSTANTS
    Accounts,   \* every address that can hold tokens
    Freezable,  \* the accounts the token's issuer may freeze
    Skims,      \* what a pull may fail to deliver; {0} for a plain ERC-20
    MaxTime,    \* the last block time of the model
    MaxUint64   \* the largest uint64: a checked addition beyond it reverts

ASSUME TokenAssumption ==
    /\ IsFiniteSet(Accounts)
    /\ Freezable \subseteq Accounts
    /\ Skims \subseteq Nat
    /\ MaxTime \in Nat \ {0}
    /\ MaxUint64 \in Nat

VARIABLES
    now,        \* block.timestamp
    balance,    \* balanceOf
    frozen      \* the accounts whose transfers revert

tokenVars == <<balance, frozen>>

TokenTypeOK ==
    /\ now \in 1..MaxTime
    /\ balance \in [Accounts -> Nat]
    /\ frozen \subseteq Freezable

\* fault: the sender's balance is not looked at.
MovesOverdrawn(from, to, value) == {from, to} \cap frozen = {}

CanMove(from, to, value) ==
    /\ balance[from] >= value
    /\ {from, to} \cap frozen = {}

\* One transferFrom, of which the recipient may get less than was sent.
Move(from, to, sent, received) ==
    balance' = [x \in Accounts |->
                    balance[x] - (IF x = from THEN sent ELSE 0)
                               + (IF x = to THEN received ELSE 0)]

(***************************************************************************)
(* uint64(block.timestamp) + duration, which reverts when it overflows.    *)
(***************************************************************************)
Fits(duration) == now + duration <= MaxUint64
Deadline(duration) == now + duration

Tick ==
    /\ now < MaxTime
    /\ now' = now + 1

Freeze(account) ==
    /\ account \in Freezable \ frozen
    /\ frozen' = frozen \cup {account}
    /\ UNCHANGED <<now, balance>>

=============================================================================
