-------------------------- MODULE ArbiterRegistry --------------------------
(***************************************************************************)
(* ArbiterRegistry: the owner's allowlist of reviewers.  Nothing ties it   *)
(* to the disputes in progress: a reviewer may be added or removed between *)
(* a commitment and its reveal.  The optional stake gate is external.      *)
(***************************************************************************)
EXTENDS Integers, FiniteSets

CONSTANTS
    Arbiters,           \* every account that may ever be listed
    InitialArbiters,    \* the reviewers the deployment script lists
    StakeEligible       \* the accounts the stake gate lets in

ASSUME ArbiterAssumption ==
    /\ IsFiniteSet(Arbiters)
    /\ InitialArbiters \subseteq Arbiters
    /\ StakeEligible \subseteq Arbiters

VARIABLES
    arbiters,       \* _arbiters
    arbiterCount    \* arbiterCount

registryVars == <<arbiters, arbiterCount>>

RegistryTypeOK ==
    /\ arbiters \subseteq Arbiters
    /\ arbiterCount \in Nat

RegistryInit ==
    /\ arbiters = InitialArbiters
    /\ arbiterCount = Cardinality(InitialArbiters)

\* setArbiter(arbiter, true); listing a listed account returns early.
AddArbiter(a) ==
    /\ a \in StakeEligible \ arbiters
    /\ arbiters' = arbiters \cup {a}
    /\ arbiterCount' = arbiterCount + 1

\* setArbiter(arbiter, false).
RemoveArbiter(a) ==
    /\ a \in arbiters
    /\ arbiters' = arbiters \ {a}
    /\ arbiterCount' = arbiterCount - 1

IsArbiter(a) == a \in arbiters

=============================================================================
