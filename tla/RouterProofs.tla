---------------------------- MODULE RouterProofs ----------------------------
(***************************************************************************)
(* For any jobs, accounts, budgets and configurations, and whoever owns    *)
(* the router: record and escrow agree, the human lane is honoured and     *)
(* verdicts are final.                                                     *)
(*                                                                         *)
(* The argument: every settlement finds its job submitted and, by          *)
(* RecordMatchesEscrow, without a terminal resolution, and leaves it with  *)
(* the one that says what the escrow did; the escrow itself moves only     *)
(* jobs that are still open or submitted.                                  *)
(***************************************************************************)
EXTENDS EvaluationRouter, TLAPS

LEMMA InitRouterInv == RouterInit => RouterInv
<1> SUFFICES ASSUME RouterInit PROVE RouterInv
  OBVIOUS
<1> USE DEF RouterInit
<1>1. RouterTypeOK
  <2>1. provenance \in [Jobs -> [reviewer : Accounts \cup {Nothing}, reward : {0, 1},
                                 payout : Evidence \cup {Nothing}]]
    BY DEF NoProvenance
  <2> QED
    BY <2>1 DEF RouterTypeOK, Resolution, Lanes, JobStatus
<1>2. RecordMatchesEscrow /\ HumanLaneHonoured /\ ProvenanceOfHumansOnly
  BY DEF RecordMatchesEscrow, HumanLaneHonoured, ProvenanceOfHumansOnly, NoProvenance,
         Terminal, AutoResolutions, HumanResolutions
<1> QED  BY <1>1, <1>2 DEF RouterInv

LEMMA EscrowKeeps ==
    ASSUME RouterInv, NEW j \in Jobs, EscrowStep(j)
    PROVE  RouterInv' /\ UNCHANGED <<recordVars, lanes>>
<1> USE DEF RouterInv, RouterTypeOK, EscrowStep, SubmitDeliverable, Expires, ClaimRefund,
            recordVars, JobStatus
<1>1. UNCHANGED <<recordVars, lanes, config, owner, fees>>
  OBVIOUS
<1>2. RouterTypeOK'
  BY <1>1
<1>3. RecordMatchesEscrow'
  BY <1>1 DEF RecordMatchesEscrow, Resolution, Terminal, AutoResolutions, HumanResolutions
<1>4. HumanLaneHonoured' /\ ProvenanceOfHumansOnly'
  BY <1>1 DEF HumanLaneHonoured, ProvenanceOfHumansOnly
<1> QED  BY <1>1, <1>2, <1>3, <1>4

LEMMA SetLaneKeeps ==
    ASSUME RouterInv, NEW a \in Accounts, NEW j \in Jobs, NEW l \in Lanes, SetLane(a, j, l)
    PROVE  RouterInv'
<1> USE DEF RouterInv, SetLane, LaneOpen, recordVars, escrowVars
<1>1. RouterTypeOK'
  BY DEF RouterTypeOK
<1>2. RecordMatchesEscrow' /\ ProvenanceOfHumansOnly'
  BY DEF RecordMatchesEscrow, ProvenanceOfHumansOnly
<1>3. HumanLaneHonoured'
  BY DEF HumanLaneHonoured, RouterTypeOK, AutoResolutions
<1> QED  BY <1>1, <1>2, <1>3

LEMMA EscalateKeeps ==
    ASSUME RouterInv, NEW a \in Accounts, NEW j \in Jobs, NEW r \in Evidence, Escalate(a, j, r)
    PROVE  RouterInv'
<1> USE DEF RouterInv, Escalate, Escalatable, escrowVars
<1>1. RouterTypeOK'
  BY RouterAssumption DEF RouterTypeOK, Resolution
<1>2. RecordMatchesEscrow'
  BY DEF RecordMatchesEscrow, RouterTypeOK, Terminal, AutoResolutions, HumanResolutions
<1>3. HumanLaneHonoured' /\ ProvenanceOfHumansOnly'
  BY DEF HumanLaneHonoured, ProvenanceOfHumansOnly, RouterTypeOK, AutoResolutions,
         HumanResolutions
<1> QED  BY <1>1, <1>2, <1>3

\* The escrow's side of a settlement, which both verdicts share.
LEMMA SettleKeeps ==
    ASSUME RouterInv, NEW j \in Jobs, CheckedJob(j), NEW ok \in BOOLEAN, Settle(j, ok),
           NEW res, ok => res \in {"AutoCompleted", "HumanCompleted"},
           ~ok => res \in {"AutoRejected", "HumanRejected"},
           NEW h \in Evidence,
           resolutions' = [resolutions EXCEPT ![j] = res],
           evidence' = [evidence EXCEPT ![j] = h],
           UNCHANGED <<lanes, config, owner>>
    PROVE  /\ RecordMatchesEscrow'
           /\ provenance' \in [Jobs -> [reviewer : Accounts \cup {Nothing}, reward : {0, 1},
                                        payout : Evidence \cup {Nothing}]] => RouterTypeOK'
<1> USE DEF RouterInv, RouterTypeOK, Settle, CheckedJob
<1>1. /\ status' = [status EXCEPT ![j] = IF ok THEN "completed" ELSE "rejected"]
      /\ resolutions' \in [Jobs -> Resolution]
  BY DEF Resolution, Terminal, AutoResolutions, HumanResolutions
<1>2. RecordMatchesEscrow'
  BY <1>1 DEF RecordMatchesEscrow, Terminal, AutoResolutions, HumanResolutions
<1>3. status' \in [Jobs -> JobStatus] /\ fees' \in Nat
  BY <1>1 DEF JobStatus
<1>4. \A k \in Jobs : evidence'[k] = Nothing <=> resolutions'[k] = "None"
  BY RouterAssumption
<1> QED  BY <1>1, <1>2, <1>3, <1>4

LEMMA AIVerdictKeeps ==
    ASSUME RouterInv, NEW a \in Accounts, NEW j \in Jobs, NEW ok \in BOOLEAN, NEW c,
           NEW h \in Evidence, SubmitAIVerdict(a, j, ok, c, h)
    PROVE  RouterInv'
<1> DEFINE res == IF ok THEN "AutoCompleted" ELSE "AutoRejected"
<1> USE DEF RouterInv, SubmitAIVerdict
<1>1. /\ CheckedJob(j) /\ Settle(j, ok)
      /\ resolutions' = [resolutions EXCEPT ![j] = res]
      /\ evidence' = [evidence EXCEPT ![j] = h]
      /\ UNCHANGED <<provenance, lanes, config, owner>>
  OBVIOUS
<1>2. /\ ok => res \in {"AutoCompleted", "HumanCompleted"}
      /\ ~ok => res \in {"AutoRejected", "HumanRejected"}
  OBVIOUS
<1> HIDE DEF res
<1>0. provenance' \in [Jobs -> [reviewer : Accounts \cup {Nothing}, reward : {0, 1},
                                payout : Evidence \cup {Nothing}]]
  BY <1>1 DEF RouterTypeOK
<1>3. RecordMatchesEscrow' /\ RouterTypeOK'
  <2> HIDE DEF RouterInv, SubmitAIVerdict
  <2> QED  BY <1>0, <1>1, <1>2, SettleKeeps
<1>4. HumanLaneHonoured'
  BY <1>1 DEF HumanLaneHonoured, RouterTypeOK, Lanes, AutoResolutions
<1>5. ProvenanceOfHumansOnly'
  BY <1>1 DEF ProvenanceOfHumansOnly, RouterTypeOK, HumanResolutions, res
<1> QED  BY <1>3, <1>4, <1>5

LEMMA HumanResolveKeeps ==
    ASSUME RouterInv, NEW a \in Accounts, NEW j \in Jobs, NEW r \in Accounts, NEW ok \in BOOLEAN,
           NEW reward \in {0, 1}, NEW h \in Evidence, NEW p \in Evidence \cup {Nothing},
           HumanResolve(a, j, r, ok, reward, h, p)
    PROVE  RouterInv'
<1> DEFINE res == IF ok THEN "HumanCompleted" ELSE "HumanRejected"
<1> DEFINE paid == [reviewer |-> r, reward |-> reward, payout |-> p]
<1> USE DEF RouterInv, HumanResolve
<1>1. /\ CheckedJob(j) /\ Settle(j, ok)
      /\ resolutions' = [resolutions EXCEPT ![j] = res]
      /\ evidence' = [evidence EXCEPT ![j] = h]
      /\ provenance' = [provenance EXCEPT ![j] = paid]
      /\ UNCHANGED <<lanes, config, owner>>
      /\ r # Nothing /\ Paid(reward, p)
  OBVIOUS
<1>2. /\ ok => res \in {"AutoCompleted", "HumanCompleted"}
      /\ ~ok => res \in {"AutoRejected", "HumanRejected"}
  OBVIOUS
<1>3. /\ paid \in [reviewer : Accounts \cup {Nothing}, reward : {0, 1},
                   payout : Evidence \cup {Nothing}]
      /\ paid.reviewer # Nothing
      /\ paid.reward # 0 => paid.payout # Nothing
  BY <1>1 DEF Paid
<1>4. res \in HumanResolutions /\ res \notin AutoResolutions
  BY DEF HumanResolutions, AutoResolutions
<1> HIDE DEF res, paid
<1>5. provenance' \in [Jobs -> [reviewer : Accounts \cup {Nothing}, reward : {0, 1},
                                payout : Evidence \cup {Nothing}]]
  BY <1>1, <1>3 DEF RouterTypeOK
<1>6. RecordMatchesEscrow' /\ RouterTypeOK'
  <2> HIDE DEF RouterInv, HumanResolve
  <2> QED  BY <1>1, <1>2, <1>5, SettleKeeps
<1>7. HumanLaneHonoured'
  BY <1>1, <1>4 DEF HumanLaneHonoured, RouterTypeOK
<1>8. ProvenanceOfHumansOnly'
  BY <1>1, <1>3, <1>4 DEF ProvenanceOfHumansOnly, RouterTypeOK
<1> QED  BY <1>6, <1>7, <1>8

LEMMA OwnerKeeps ==
    ASSUME RouterInv, NEW a \in Accounts,
           \/ \E c \in Configs : SetConfig(a, c)
           \/ \E b \in Accounts : TransferOwnership(a, b)
           \/ Sweep(a)
    PROVE  RouterInv'
  BY DEF RouterInv, RouterTypeOK, SetConfig, TransferOwnership, Sweep, recordVars, escrowVars,
         RecordMatchesEscrow, HumanLaneHonoured, ProvenanceOfHumansOnly

LEMMA NextKeeps == RouterInv /\ [RouterNext]_routerVars => RouterInv'
<1> SUFFICES ASSUME RouterInv, [RouterNext]_routerVars PROVE RouterInv'
  OBVIOUS
<1>1. CASE UNCHANGED routerVars
  BY <1>1 DEF RouterInv, RouterTypeOK, RecordMatchesEscrow, HumanLaneHonoured,
     ProvenanceOfHumansOnly, routerVars, recordVars, escrowVars
<1>2. ASSUME NEW j \in Jobs, EscrowStep(j) PROVE RouterInv'
  BY <1>2, EscrowKeeps
<1>3. ASSUME NEW a \in Accounts, NEW j \in Jobs, NEW l \in Lanes, SetLane(a, j, l)
      PROVE RouterInv'
  BY <1>3, SetLaneKeeps
<1>4. ASSUME NEW a \in Accounts, NEW j \in Jobs, NEW ok \in BOOLEAN, NEW e \in Evidence,
             NEW c \in Configs, SubmitAIVerdict(a, j, ok, c.minConfidenceBP, e)
      PROVE RouterInv'
  BY <1>4, AIVerdictKeeps
<1>5. ASSUME NEW a \in Accounts, NEW j \in Jobs, NEW e \in Evidence, Escalate(a, j, e)
      PROVE RouterInv'
  BY <1>5, EscalateKeeps
<1>6. ASSUME NEW a \in Accounts, NEW j \in Jobs, HumanResolveAny(a, j) PROVE RouterInv'
  BY <1>6, HumanResolveKeeps DEF HumanResolveAny
<1>7. ASSUME NEW a \in Accounts,
             \/ \E c \in Configs : SetConfig(a, c)
             \/ \E b \in Accounts : TransferOwnership(a, b)
             \/ Sweep(a)
      PROVE RouterInv'
  BY <1>7, OwnerKeeps
<1> QED  BY <1>1, <1>2, <1>3, <1>4, <1>5, <1>6, <1>7 DEF RouterNext

(***************************************************************************)
(* Record, escrow, lanes and provenance keep each other through every call *)
(* of every account, for any number of jobs and any configurations.        *)
(***************************************************************************)
THEOREM Invariance == RouterSpec => []RouterInv
  BY InitRouterInv, NextKeeps, PTL DEF RouterSpec

(***************************************************************************)
(* The storage of the router keeps its types, and evidence is recorded     *)
(* with every resolution and only with one.                                *)
(***************************************************************************)
THEOREM TypeCorrect == RouterSpec => []RouterTypeOK
  BY Invariance, PTL DEF RouterInv

(***************************************************************************)
(* For any number of jobs and any configuration, what the router recorded  *)
(* is what the escrow did.                                                 *)
(***************************************************************************)
THEOREM RecordIsTrue == RouterSpec => []RecordMatchesEscrow
  BY Invariance, PTL DEF RouterInv

(***************************************************************************)
(* However calls of client, oracle and owner interleave, the AI path never *)
(* settles a job on the human lane.                                        *)
(***************************************************************************)
THEOREM LanesAreHonoured == RouterSpec => []HumanLaneHonoured
  BY Invariance, PTL DEF RouterInv

(***************************************************************************)
(* Provenance stands at the jobs settled by a human and at no other.       *)
(***************************************************************************)
THEOREM ProvenanceIsHuman == RouterSpec => []ProvenanceOfHumansOnly
  BY Invariance, PTL DEF RouterInv

-----------------------------------------------------------------------------

FinalStep ==
    \A j \in Jobs : resolutions[j] \in Terminal =>
        UNCHANGED <<resolutions[j], evidence[j], provenance[j], lanes[j], status[j]>>

LEMMA StepIsFinal == RouterInv /\ [RouterNext]_routerVars => FinalStep
<1> SUFFICES ASSUME RouterInv, [RouterNext]_routerVars,
                    NEW k \in Jobs, resolutions[k] \in Terminal
             PROVE  UNCHANGED <<resolutions[k], evidence[k], provenance[k], lanes[k], status[k]>>
  BY DEF FinalStep
<1> DEFINE Same(j) == UNCHANGED <<resolutions[j], evidence[j], provenance[j], lanes[j], status[j]>>
<1>t. RouterTypeOK /\ RecordMatchesEscrow
  BY DEF RouterInv
<1>0. resolutions[k] \notin {"None", "Escalated"} /\ status[k] \in {"completed", "rejected"}
  BY <1>t DEF RecordMatchesEscrow, Terminal, AutoResolutions, HumanResolutions
<1>1. CASE UNCHANGED routerVars
  BY <1>1 DEF routerVars, recordVars, escrowVars
<1>2. ASSUME NEW j \in Jobs, EscrowStep(j) PROVE Same(k)
  <2>1. UNCHANGED <<resolutions, evidence, provenance, lanes>>
    BY <1>2 DEF EscrowStep, SubmitDeliverable, Expires, ClaimRefund, recordVars
  <2>2. status'[k] = status[k]
    BY <1>0, <1>t, <1>2 DEF RouterTypeOK, EscrowStep, SubmitDeliverable, Expires, ClaimRefund
  <2> QED  BY <2>1, <2>2
<1>3. ASSUME NEW a \in Accounts, NEW j \in Jobs, NEW l \in Lanes, SetLane(a, j, l)
      PROVE Same(k)
  BY <1>0, <1>t, <1>3 DEF RouterTypeOK, SetLane, LaneOpen, recordVars, escrowVars
<1>4. ASSUME NEW a \in Accounts, NEW j \in Jobs, NEW ok \in BOOLEAN, NEW e \in Evidence,
             NEW c \in Configs, SubmitAIVerdict(a, j, ok, c.minConfidenceBP, e)
      PROVE Same(k)
  <2>1. j # k
    BY <1>0, <1>4 DEF SubmitAIVerdict
  <2> QED  BY <2>1, <1>t, <1>4 DEF RouterTypeOK, SubmitAIVerdict, Settle
<1>5. ASSUME NEW a \in Accounts, NEW j \in Jobs, NEW e \in Evidence, Escalate(a, j, e)
      PROVE Same(k)
  <2>1. j # k
    BY <1>0, <1>5 DEF Escalate, Escalatable
  <2> QED  BY <2>1, <1>t, <1>5 DEF RouterTypeOK, Escalate, escrowVars
<1>6. ASSUME NEW a \in Accounts, NEW j \in Jobs, HumanResolveAny(a, j) PROVE Same(k)
  <2>1. PICK r \in Accounts, ok \in BOOLEAN, reward \in {0, 1}, e \in Evidence,
             p \in Evidence \cup {Nothing} : HumanResolve(a, j, r, ok, reward, e, p)
    BY <1>6 DEF HumanResolveAny
  <2>2. j # k
    BY <1>0, <2>1 DEF HumanResolve, Resolvable
  <2> QED  BY <2>1, <2>2, <1>t DEF RouterTypeOK, HumanResolve, Settle
<1>7. ASSUME NEW a \in Accounts,
             \/ \E c \in Configs : SetConfig(a, c)
             \/ \E b \in Accounts : TransferOwnership(a, b)
             \/ Sweep(a)
      PROVE Same(k)
  BY <1>7 DEF SetConfig, TransferOwnership, Sweep, recordVars, escrowVars
<1> QED  BY <1>1, <1>2, <1>3, <1>4, <1>5, <1>6, <1>7 DEF RouterNext

(***************************************************************************)
(* Whoever holds the roles later, a terminal resolution is never replaced. *)
(***************************************************************************)
THEOREM FinalForAll == RouterSpec => VerdictsAreFinal
<1>1. RouterInv /\ [RouterNext]_routerVars =>
          [\A j \in Jobs : resolutions[j] \in Terminal =>
             UNCHANGED <<resolutions[j], evidence[j], provenance[j], lanes[j],
                         status[j]>>]_routerVars
  BY StepIsFinal DEF FinalStep
<1> QED  BY <1>1, Invariance, PTL DEF RouterSpec, VerdictsAreFinal
=============================================================================
