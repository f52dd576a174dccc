-------------------------- MODULE EvaluationRouter --------------------------
(***************************************************************************)
(* contracts/src/EvaluationRouter.sol: the evaluator of escrowed jobs.  An *)
(* oracle settles on the word of the AI judge, within a cap and above a    *)
(* confidence, unless the job's client has chosen the human lane; it may   *)
(* also escalate; a resolver settles on the word of a human.  The escrow   *)
(* itself, AgenticCommerce, is modelled from what the router asks of it.   *)
(* An action is a transaction: one that reverts leaves no trace.           *)
(***************************************************************************)
EXTENDS Integers

CONSTANTS
    Jobs,        \* job ids of the escrow
    Client,      \* the client of each job
    Budget,      \* the escrow budget of each job
    Evaluated,   \* the jobs whose evaluator is this router
    Accounts,    \* who may call, and be given a role
    Evidence,    \* evidence, reason and payout hashes
    Nothing,     \* the zero address and the zero hash
    Configs      \* bound: the configurations the owner chooses from

ASSUME RouterAssumption ==
    /\ Client \in [Jobs -> Accounts]
    /\ Budget \in [Jobs -> Nat]
    /\ Evaluated \subseteq Jobs
    /\ Nothing \notin Accounts \cup Evidence
    /\ Configs \subseteq [oracle : Accounts, humanResolver : Accounts,
                          autoSettleCap : Nat, minConfidenceBP : Nat]

VARIABLES
    resolutions,   \* what the router has recorded of each job
    evidence,      \* the hash recorded with it
    lanes,         \* the lane the client has chosen
    provenance,    \* reviewer, reward and payout of a human verdict
    config,        \* the two roles, the cap and the confidence
    owner,
    status,        \* of each job in the escrow
    expired,       \* jobs whose expiredAt has come
    fees           \* evaluator fees held by the router, in settlements

recordVars == <<resolutions, evidence, provenance>>

escrowVars == <<status, expired, fees>>

routerVars == <<recordVars, lanes, config, owner, escrowVars>>

AutoResolutions == {"AutoCompleted", "AutoRejected"}

HumanResolutions == {"HumanCompleted", "HumanRejected"}

Terminal == AutoResolutions \cup HumanResolutions

Resolution == {"None", "Escalated"} \cup Terminal

Lanes == {"AIAllowed", "HumanOnly"}

\* "ended": the client took the money back, or the job never got so far.
JobStatus == {"open", "submitted", "completed", "rejected", "ended"}

NoProvenance == [reviewer |-> Nothing, reward |-> 0, payout |-> Nothing]

RouterTypeOK ==
    /\ resolutions \in [Jobs -> Resolution]
    /\ evidence \in [Jobs -> Evidence \cup {Nothing}]
    /\ \A j \in Jobs : evidence[j] = Nothing <=> resolutions[j] = "None"
    /\ lanes \in [Jobs -> Lanes]
    /\ provenance \in [Jobs -> [reviewer : Accounts \cup {Nothing}, reward : {0, 1},
                                payout : Evidence \cup {Nothing}]]
    /\ config \in Configs
    /\ owner \in Accounts
    /\ status \in [Jobs -> JobStatus]
    /\ expired \subseteq Jobs
    /\ fees \in Nat

RouterInit ==
    /\ resolutions = [j \in Jobs |-> "None"]
    /\ evidence = [j \in Jobs |-> Nothing]
    /\ lanes = [j \in Jobs |-> "AIAllowed"]
    /\ provenance = [j \in Jobs |-> NoProvenance]
    /\ config \in Configs
    /\ owner \in Accounts
    /\ status = [j \in Jobs |-> "open"]
    /\ expired = {}
    /\ fees = 0

-----------------------------------------------------------------------------
(* The escrow, as far as the router can tell.                              *)

SubmitDeliverable(j) ==
    /\ status[j] = "open"
    /\ status' = [status EXCEPT ![j] = "submitted"]
    /\ UNCHANGED <<recordVars, lanes, config, owner, expired, fees>>

Expires(j) ==
    /\ j \notin expired
    /\ expired' = expired \cup {j}
    /\ UNCHANGED <<recordVars, lanes, config, owner, status, fees>>

\* Once a job has expired its client may take the budget back.
ClaimRefund(j) ==
    /\ j \in expired /\ status[j] \in {"open", "submitted"}
    /\ status' = [status EXCEPT ![j] = "ended"]
    /\ UNCHANGED <<recordVars, lanes, config, owner, expired, fees>>

-----------------------------------------------------------------------------

LaneOpen(j) == resolutions[j] = "None"

SetLane(caller, j, lane) ==
    /\ LaneOpen(j)
    /\ j \in Evaluated
    /\ caller = Client[j]
    /\ lanes' = [lanes EXCEPT ![j] = lane]
    /\ UNCHANGED <<recordVars, config, owner, escrowVars>>

CheckedJob(j) == j \in Evaluated /\ status[j] = "submitted"

\* fault: complete is called either way.
SettleApproved(j, approve) ==
    /\ status' = [status EXCEPT ![j] = "completed"]
    /\ fees' = fees + 1
    /\ UNCHANGED expired

Settle(j, approve) ==
    /\ status' = [status EXCEPT ![j] = IF approve THEN "completed" ELSE "rejected"]
    /\ fees' = IF approve THEN fees + 1 ELSE fees
    /\ UNCHANGED expired

SubmitAIVerdict(caller, j, approve, confidence, hash) ==
    /\ caller = config.oracle
    /\ resolutions[j] = "None"
    /\ lanes[j] # "HumanOnly"
    /\ confidence >= config.minConfidenceBP
    /\ CheckedJob(j)
    /\ Budget[j] <= config.autoSettleCap
    /\ j \notin expired
    /\ resolutions' = [resolutions EXCEPT ![j] =
                          IF approve THEN "AutoCompleted" ELSE "AutoRejected"]
    /\ evidence' = [evidence EXCEPT ![j] = hash]
    /\ Settle(j, approve)
    /\ UNCHANGED <<provenance, lanes, config, owner>>

\* fault: a settled job may be escalated.
NotYetEscalated(j) == resolutions[j] # "Escalated"

Escalatable(j) == resolutions[j] = "None"

\* Neither the evaluator nor the status of the job is looked at.
Escalate(caller, j, reason) ==
    /\ caller = config.oracle
    /\ Escalatable(j)
    /\ resolutions' = [resolutions EXCEPT ![j] = "Escalated"]
    /\ evidence' = [evidence EXCEPT ![j] = reason]
    /\ UNCHANGED <<provenance, lanes, config, owner, escrowVars>>

Resolvable(j) == resolutions[j] \in {"None", "Escalated"}

Paid(reward, payout) == reward # 0 => payout # Nothing

HumanResolve(caller, j, reviewer, approve, reward, hash, payout) ==
    /\ caller = config.humanResolver
    /\ Resolvable(j)
    /\ reviewer # Nothing
    /\ Paid(reward, payout)
    /\ CheckedJob(j)
    /\ resolutions' = [resolutions EXCEPT ![j] =
                          IF approve THEN "HumanCompleted" ELSE "HumanRejected"]
    /\ evidence' = [evidence EXCEPT ![j] = hash]
    /\ provenance' = [provenance EXCEPT ![j] =
                         [reviewer |-> reviewer, reward |-> reward, payout |-> payout]]
    /\ Settle(j, approve)
    /\ UNCHANGED <<lanes, config, owner>>

SetConfig(caller, c) ==
    /\ caller = owner
    /\ config' = c
    /\ UNCHANGED <<recordVars, lanes, owner, escrowVars>>

TransferOwnership(caller, to) ==
    /\ caller = owner
    /\ owner' = to
    /\ UNCHANGED <<recordVars, lanes, config, escrowVars>>

Sweep(caller) ==
    /\ caller = owner
    /\ fees' = 0
    /\ UNCHANGED <<recordVars, lanes, config, owner, status, expired>>

EscrowStep(j) == SubmitDeliverable(j) \/ Expires(j) \/ ClaimRefund(j)

HumanResolveAny(a, j) ==
    \E r \in Accounts, ok \in BOOLEAN, reward \in {0, 1},
       e \in Evidence, p \in Evidence \cup {Nothing} :
        HumanResolve(a, j, r, ok, reward, e, p)

RouterNext ==
    \/ \E j \in Jobs : EscrowStep(j)
    \/ \E a \in Accounts, j \in Jobs :
          \/ \E l \in Lanes : SetLane(a, j, l)
          \/ \E ok \in BOOLEAN, e \in Evidence, c \in Configs :
                SubmitAIVerdict(a, j, ok, c.minConfidenceBP, e)
          \/ \E e \in Evidence : Escalate(a, j, e)
          \/ HumanResolveAny(a, j)
    \/ \E a \in Accounts :
          \/ \E c \in Configs : SetConfig(a, c)
          \/ \E b \in Accounts : TransferOwnership(a, b)
          \/ Sweep(a)

RouterSpec == RouterInit /\ [][RouterNext]_routerVars

-----------------------------------------------------------------------------
(***************************************************************************)
(* The router's record and the escrow agree: a job that is the router's is *)
(* settled exactly as its one terminal resolution says, and no other job   *)
(* has one.                                                                *)
(***************************************************************************)
RecordMatchesEscrow ==
    \A j \in Jobs :
        /\ status[j] = "completed" <=> resolutions[j] \in {"AutoCompleted", "HumanCompleted"}
        /\ status[j] = "rejected" <=> resolutions[j] \in {"AutoRejected", "HumanRejected"}
        /\ resolutions[j] \in Terminal => j \in Evaluated

(***************************************************************************)
(* A job settled by the AI path was on the lane that allows it and still   *)
(* is: the client's choice can neither be overtaken nor rewritten.         *)
(***************************************************************************)
HumanLaneHonoured ==
    \A j \in Jobs : resolutions[j] \in AutoResolutions => lanes[j] = "AIAllowed"

(***************************************************************************)
(* Payout provenance stands at exactly the jobs settled by a human, and a  *)
(* reward among it names its payout transaction.                           *)
(***************************************************************************)
ProvenanceOfHumansOnly ==
    \A j \in Jobs :
        /\ resolutions[j] \in HumanResolutions <=> provenance[j].reviewer # Nothing
        /\ provenance[j].reward # 0 => provenance[j].payout # Nothing

(***************************************************************************)
(* Router and escrow tell one story of every job: every step keeps all of  *)
(* it together, whoever owns the router and whatever its configuration.    *)
(***************************************************************************)
RouterInv ==
    /\ RouterTypeOK
    /\ RecordMatchesEscrow
    /\ HumanLaneHonoured
    /\ ProvenanceOfHumansOnly

(***************************************************************************)
(* A terminal resolution, its evidence and its provenance are never        *)
(* replaced, whoever holds the roles later.                                *)
(***************************************************************************)
VerdictsAreFinal ==
    [][\A j \in Jobs : resolutions[j] \in Terminal =>
          UNCHANGED <<resolutions[j], evidence[j], provenance[j], lanes[j], status[j]>>]_routerVars
=============================================================================
