---------------------------- MODULE JudgeProofs -----------------------------
(***************************************************************************)
(* For any number of jobs, block ranges, lane changes, failed calls,       *)
(* crashes and stops: the judge's cursor passes no job that still waits,   *)
(* what it names on chain is published, and a poll that ends well leaves   *)
(* no backlog.                                                             *)
(*                                                                         *)
(* The argument: a range on hand holds every job logged in it that is not  *)
(* decided (PassInv), a job leaves it with a resolution or a status that   *)
(* it never loses again (Onward), and nothing is logged in a block that is *)
(* already there (LogInv).                                                 *)
(***************************************************************************)
EXTENDS JudgeWorker, RouterProofs

\* Nothing is logged before its time, nor for a job that was not submitted.
LogInv ==
    /\ cursor - 1 <= block
    /\ \A j \in Jobs : logged[j] <= block + 1
    /\ \A j \in Jobs : logged[j] # 0 => status[j] # "open"

Reading == {"job", "judging", "publishing", "sending", "receipt"}

InHand == Reading \ {"job"}

\* What the poll in hand has covered, and what it still owes.
PassInv ==
    /\ pass.at \in Reading \cup {"logs"} =>
          /\ 1 <= pass.from /\ pass.from <= pass.latest /\ pass.latest <= block
          /\ cursor # 0 => pass.from = cursor
    /\ pass.at \in Reading =>
          /\ pass.to = LastOf(pass.from, pass.latest)
          /\ \A j \in Evaluated :
                logged[j] \in pass.from .. pass.to => j \in pass.todo \/ Decided(j)
    /\ pass.at \in InHand => pass.job \in Jobs /\ judged[pass.job] >= 1

\* The decision that is about to be sent.
DecisionInv ==
    /\ pass.at \in {"publishing", "sending", "receipt"} =>
          pass.decision \in Decision /\ pass.decision.job = pass.job
    /\ pass.at \in {"sending", "receipt"} =>
          pass.decision.hash \in {HumanLane} \cup published

\* What a receipt says is so.
MinedInv == \A t \in mined : resolutions[t.job] # "None"

JudgeInv ==
    /\ RouterInv
    /\ JudgeTypeOK
    /\ EvidenceIsPublished
    /\ NothingPassedOver
    /\ LogInv
    /\ PassInv
    /\ DecisionInv
    /\ MinedInv

LEMMA InitJudgeInv == JudgeInit => JudgeInv
<1> SUFFICES ASSUME JudgeInit PROVE JudgeInv
  OBVIOUS
<1> USE DEF JudgeInit, Pass
<1>1. RouterInv
  BY InitRouterInv
<1>2. JudgeTypeOK
  <2>1. /\ MaxBlock \in Nat /\ 1 <= MaxBlock /\ Attempts \in Nat /\ 1 <= Attempts
        /\ MaxJudgements \in Nat
    BY JudgeAssumption
  <2>2. Pass("sleep") \in Passes
    BY <2>1 DEF Passes, Stages
  <2>3. /\ logged \in [Jobs -> 0 .. MaxBlock] /\ judged \in [Jobs -> 0 .. MaxJudgements]
        /\ block \in 1 .. MaxBlock /\ cursor \in 0 .. MaxBlock + 1
        /\ origin \in 0 .. MaxBlock
    BY <2>1
  <2> HIDE DEF Pass
  <2> QED  BY <2>2, <2>3 DEF JudgeTypeOK
<1>3. EvidenceIsPublished
  BY DEF EvidenceIsPublished, RouterInit
<1>4. NothingPassedOver /\ LogInv /\ PassInv /\ DecisionInv /\ MinedInv
  BY RouterAssumption DEF NothingPassedOver, LogInv, PassInv, DecisionInv, MinedInv, Reading,
     InHand
<1> QED  BY <1>1, <1>2, <1>3, <1>4 DEF JudgeInv

-----------------------------------------------------------------------------
(* What the chain and the clients do.                                      *)

\* A resolution stays one, and a job that has left the queue never returns.
Onward ==
    /\ \A k \in Jobs : resolutions[k] # "None" => resolutions'[k] # "None"
    /\ \A k \in Jobs : status'[k] = "open" => status[k] = "open"
    /\ \A k \in Jobs : status[k] \notin {"open", "submitted"} =>
                          status'[k] \notin {"open", "submitted"}

\* The evidence of one job may be replaced by a hash of the set.
EvidenceFrom(S) == \A k \in Jobs : evidence'[k] = evidence[k] \/ evidence'[k] \in S

LEMMA EscrowOnward ==
    ASSUME RouterInv, NEW j \in Jobs, EscrowStep(j)
    PROVE  RouterInv' /\ Onward /\ EvidenceFrom({})
<1>1. RouterInv' /\ UNCHANGED <<recordVars, lanes>>
  BY EscrowKeeps
<1>2. Onward
  BY <1>1 DEF Onward, RouterInv, RouterTypeOK, EscrowStep, SubmitDeliverable, Expires,
     ClaimRefund, recordVars
<1> QED  BY <1>1, <1>2 DEF EvidenceFrom, recordVars

LEMMA SetLaneOnward ==
    ASSUME RouterInv, NEW a \in Accounts, NEW j \in Jobs, NEW l \in Lanes, SetLane(a, j, l)
    PROVE  RouterInv' /\ Onward /\ EvidenceFrom({})
  BY SetLaneKeeps DEF Onward, EvidenceFrom, SetLane, recordVars, escrowVars

LEMMA EscalateOnward ==
    ASSUME RouterInv, NEW a \in Accounts, NEW j \in Jobs, NEW r \in Evidence, Escalate(a, j, r)
    PROVE  RouterInv' /\ Onward /\ EvidenceFrom({r}) /\ resolutions'[j] # "None"
  BY EscalateKeeps DEF Onward, EvidenceFrom, Escalate, escrowVars, RouterInv, RouterTypeOK

LEMMA AIVerdictOnward ==
    ASSUME RouterInv, NEW a \in Accounts, NEW j \in Jobs, NEW ok \in BOOLEAN, NEW c,
           NEW h \in Evidence, SubmitAIVerdict(a, j, ok, c, h)
    PROVE  RouterInv' /\ Onward /\ EvidenceFrom({h}) /\ resolutions'[j] # "None"
<1>1. RouterInv'
  BY AIVerdictKeeps
<1>2. Onward /\ EvidenceFrom({h}) /\ resolutions'[j] # "None"
  BY DEF Onward, EvidenceFrom, SubmitAIVerdict, Settle, CheckedJob, RouterInv, RouterTypeOK
<1> QED  BY <1>1, <1>2

LEMMA HumanOnward ==
    ASSUME RouterInv, NEW a \in Accounts, NEW j \in Jobs, NEW r \in Accounts, NEW ok \in BOOLEAN,
           NEW reward \in {0, 1}, NEW h \in Evidence, NEW p \in Evidence \cup {Nothing},
           HumanResolve(a, j, r, ok, reward, h, p)
    PROVE  RouterInv' /\ Onward /\ EvidenceFrom({h}) /\ resolutions'[j] # "None"
<1>1. RouterInv'
  BY HumanResolveKeeps
<1>2. Onward /\ EvidenceFrom({h}) /\ resolutions'[j] # "None"
  BY DEF Onward, EvidenceFrom, HumanResolve, Settle, CheckedJob, RouterInv, RouterTypeOK
<1> QED  BY <1>1, <1>2

-----------------------------------------------------------------------------
(* What a move of the outside leaves of the judge's invariant.             *)

\* The chain grows, jobs are logged in the block being built, the router goes on
\* and transactions leave the pool; of the worker only a receipt is touched.
Logs ==
    /\ block' \in 1 .. MaxBlock /\ block <= block'
    /\ logged' \in [Jobs -> 0 .. MaxBlock]
    /\ \A k \in Jobs : \/ logged'[k] = logged[k]
                       \/ /\ logged'[k] = block + 1
                          /\ logged[k] = 0 /\ status'[k] # "open"

Receipts ==
    /\ pending' \subseteq pending /\ mined' \subseteq Decision
    /\ \A t \in mined' : resolutions'[t.job] # "None"

WorkerWaits == UNCHANGED <<workerVars, published>>

LEMMA LogsOnward ==
    ASSUME JudgeInv, Logs, NEW k \in Jobs
    PROVE  /\ {block, block', logged[k], logged'[k]} \subseteq Nat
           /\ block <= block'
           /\ logged[k] <= block + 1
           /\ logged'[k] = logged[k] \/ logged'[k] = block + 1
  BY JudgeAssumption DEF JudgeInv, JudgeTypeOK, Logs, LogInv

LEMMA DecidedStays ==
    ASSUME JudgeInv, Onward, NEW k \in Jobs, logged[k] # 0, Decided(k)
    PROVE  Decided(k)'
  BY DEF JudgeInv, LogInv, Onward, Decided, RouterInv, RouterTypeOK, JobStatus

LEMMA OutsideKeeps ==
    ASSUME JudgeInv, RouterInv', Onward, WorkerWaits, Logs, Receipts,
           NEW S, EvidenceFrom(S),
           S \subseteq {HumanLane, HumanEvidence} \cup published
    PROVE  JudgeInv'
<1>u. /\ cursor' = cursor /\ origin' = origin /\ pass' = pass /\ judged' = judged
      /\ stopping' = stopping /\ published' = published
  BY DEF WorkerWaits, workerVars
<1>t. /\ MaxBlock \in Nat /\ block \in 1 .. MaxBlock /\ cursor \in 0 .. MaxBlock + 1
      /\ origin \in 0 .. MaxBlock /\ pass \in Passes /\ Evaluated \subseteq Jobs
      /\ cursor - 1 <= block /\ block' \in Nat /\ block <= block'
  BY JudgeAssumption, RouterAssumption DEF JudgeInv, JudgeTypeOK, LogInv, Logs
<1>1. JudgeTypeOK'
  BY <1>u DEF JudgeInv, JudgeTypeOK, Logs, Receipts
<1>2. EvidenceIsPublished'
  BY <1>u DEF JudgeInv, EvidenceIsPublished, EvidenceFrom, Receipts
<1>3. NothingPassedOver'
  <2>1. ASSUME NEW k \in Evaluated, logged'[k] # 0, origin <= logged'[k], logged'[k] < cursor
        PROVE  Decided(k)'
    <3>1. logged'[k] = logged[k]
      BY <1>t, <2>1, LogsOnward
    <3>2. Decided(k)
      BY <2>1, <3>1 DEF JudgeInv, NothingPassedOver
    <3> QED  BY <1>t, <2>1, <3>1, <3>2, DecidedStays
  <2> QED  BY <1>u, <2>1 DEF NothingPassedOver
<1>4. LogInv'
  <2>1. cursor' - 1 <= block'
    BY <1>t, <1>u
  <2>2. ASSUME NEW k \in Jobs
        PROVE  logged'[k] <= block' + 1 /\ (logged'[k] # 0 => status'[k] # "open")
    <3>1. logged'[k] <= block' + 1
      BY LogsOnward
    <3>2. logged'[k] # 0 => status'[k] # "open"
      BY DEF JudgeInv, LogInv, Logs, Onward
    <3> QED  BY <3>1, <3>2
  <2> QED  BY <2>1, <2>2 DEF LogInv
<1>5. PassInv'
  <2>1. pass.at \in Reading => /\ pass.from \in Nat /\ pass.to \in Nat /\ pass.to <= block
                               /\ 1 <= pass.from
    BY <1>t, JudgeAssumption DEF JudgeInv, PassInv, LastOf, Passes
  <2>2. ASSUME pass.at \in Reading, NEW k \in Evaluated, logged'[k] \in pass.from .. pass.to
        PROVE  k \in pass.todo \/ Decided(k)'
    <3>1. logged'[k] = logged[k] /\ logged[k] # 0
      BY <1>t, <2>1, <2>2, LogsOnward
    <3>2. k \in pass.todo \/ Decided(k)
      BY <3>1, <2>2 DEF JudgeInv, PassInv
    <3> QED  BY <1>t, <2>2, <3>1, <3>2, DecidedStays
  <2>3. pass.at \in Reading \cup {"logs"} => pass.latest <= block'
    BY <1>t DEF JudgeInv, PassInv, Passes
  <2> QED  BY <1>u, <2>2, <2>3 DEF JudgeInv, PassInv, LastOf
<1>6. DecisionInv' /\ MinedInv'
  BY <1>u DEF JudgeInv, DecisionInv, MinedInv, Receipts
<1> QED  BY <1>1, <1>2, <1>3, <1>4, <1>5, <1>6 DEF JudgeInv

LEMMA SameLogs == ASSUME JudgeInv, UNCHANGED <<block, logged>> PROVE Logs
<1>1. block \in 1 .. MaxBlock /\ MaxBlock \in Nat /\ logged \in [Jobs -> 0 .. MaxBlock]
  BY JudgeAssumption DEF JudgeInv, JudgeTypeOK
<1> QED  BY <1>1 DEF Logs

LEMMA SameReceipts ==
    ASSUME JudgeInv, Onward, pending' \subseteq pending, mined' = mined
    PROVE  Receipts
  BY DEF JudgeInv, JudgeTypeOK, MinedInv, Onward, Decision, Receipts

LEMMA SameRouter ==
    ASSUME JudgeInv, UNCHANGED routerVars
    PROVE  RouterInv' /\ Onward /\ EvidenceFrom({})
  BY DEF JudgeInv, routerVars, recordVars, escrowVars, RouterInv, RouterTypeOK,
     RecordMatchesEscrow, HumanLaneHonoured, ProvenanceOfHumansOnly, Onward, EvidenceFrom

LEMMA MineKeeps == ASSUME JudgeInv, Mine PROVE JudgeInv'
<1>1. RouterInv' /\ Onward /\ EvidenceFrom({})
  BY SameRouter DEF Mine
<1>2. WorkerWaits /\ Receipts
  BY <1>1, SameReceipts DEF Mine, WorkerWaits, outsideVars
<1>3. Logs
  <2>1. block \in 1 .. MaxBlock /\ MaxBlock \in Nat /\ logged \in [Jobs -> 0 .. MaxBlock]
    BY JudgeAssumption DEF JudgeInv, JudgeTypeOK
  <2> QED  BY <2>1 DEF Mine, Logs
<1> QED  BY <1>1, <1>2, <1>3, OutsideKeeps

LEMMA SubmitJobKeeps == ASSUME JudgeInv, NEW j \in Jobs, SubmitJob(j) PROVE JudgeInv'
<1>1. RouterInv' /\ Onward /\ EvidenceFrom({})
  BY EscrowOnward DEF JudgeInv, SubmitJob, EscrowStep
<1>2. WorkerWaits /\ Receipts
  BY <1>1, SameReceipts DEF SubmitJob, WorkerWaits, outsideVars
<1>3. Logs
  <2>1. /\ block \in 1 .. MaxBlock /\ MaxBlock \in Nat /\ block < MaxBlock /\ block' = block
        /\ logged \in [Jobs -> 0 .. MaxBlock] /\ logged' = [logged EXCEPT ![j] = block + 1]
    BY JudgeAssumption DEF JudgeInv, JudgeTypeOK, SubmitJob
  <2>2. logged[j] = 0 /\ status'[j] # "open"
    BY DEF JudgeInv, LogInv, SubmitJob, SubmitDeliverable, RouterInv, RouterTypeOK
  <2>3. logged' \in [Jobs -> 0 .. MaxBlock]
    BY <2>1
  <2> QED  BY <2>1, <2>2, <2>3 DEF Logs
<1> QED  BY <1>1, <1>2, <1>3, OutsideKeeps

LEMMA OthersKeep ==
    ASSUME JudgeInv, NEW j \in Jobs, ChangeLane(j) \/ OtherMoves(j) PROVE JudgeInv'
<1>0. /\ RouterInv /\ Client[j] \in Accounts /\ config.humanResolver \in Accounts
      /\ {HumanEvidence} \subseteq Evidence
  BY RouterAssumption, JudgeAssumption DEF JudgeInv, RouterInv, RouterTypeOK
<1>1. WorkerWaits /\ UNCHANGED <<pending, mined>> /\ Logs
  BY SameLogs DEF ChangeLane, OtherMoves, Moves, outsideVars, WorkerWaits
<1>2. CASE ChangeLane(j)
  <2>1. RouterInv' /\ Onward /\ EvidenceFrom({})
    BY <1>0, <1>2, SetLaneOnward DEF ChangeLane
  <2> QED  BY <1>1, <2>1, SameReceipts, OutsideKeeps
<1>3. CASE Expires(j) \/ ClaimRefund(j)
  <2>1. RouterInv' /\ Onward /\ EvidenceFrom({})
    BY <1>0, <1>3, EscrowOnward DEF EscrowStep
  <2> QED  BY <1>1, <2>1, SameReceipts, OutsideKeeps
<1>4. CASE HumanResolve(config.humanResolver, j, Client[j], FALSE, 1, HumanEvidence,
                        HumanEvidence)
  <2>1. RouterInv' /\ Onward /\ EvidenceFrom({HumanEvidence})
    BY <1>0, <1>4, HumanOnward
  <2> QED  BY <1>1, <2>1, SameReceipts, OutsideKeeps
<1> QED  BY <1>2, <1>3, <1>4 DEF OtherMoves

LEMMA IncludeKeeps == ASSUME JudgeInv, NEW t \in pending, Include(t) PROVE JudgeInv'
<1>0. /\ RouterInv /\ t \in Decision /\ config.oracle \in Accounts
      /\ t.job \in Jobs /\ t.approve \in BOOLEAN /\ t.hash \in Evidence
      /\ {t.hash} \subseteq {HumanLane, HumanEvidence} \cup published
  BY RouterAssumption DEF JudgeInv, JudgeTypeOK, EvidenceIsPublished, RouterInv, RouterTypeOK,
     Decision
<1>1. WorkerWaits /\ pending' \subseteq pending /\ Logs
  BY SameLogs DEF Include, chainVars, WorkerWaits
<1>2. ASSUME RouterInv', Onward, EvidenceFrom({t.hash}), resolutions'[t.job] # "None",
             mined' = IF t = pass.decision THEN {t} ELSE mined
      PROVE  JudgeInv'
  <2>1. Receipts
    BY <1>0, <1>1, <1>2 DEF JudgeInv, JudgeTypeOK, MinedInv, Onward, Decision, Receipts
  <2> QED  BY <1>0, <1>1, <1>2, <2>1, OutsideKeeps
<1>3. CASE SubmitAIVerdict(config.oracle, t.job, t.approve, config.minConfidenceBP, t.hash)
           /\ mined' = IF t = pass.decision THEN {t} ELSE mined
  BY <1>0, <1>2, <1>3, AIVerdictOnward
<1>4. CASE Escalate(config.oracle, t.job, t.hash)
           /\ mined' = IF t = pass.decision THEN {t} ELSE mined
  BY <1>0, <1>2, <1>4, EscalateOnward
<1>5. CASE UNCHANGED <<routerVars, mined>>
  <2>1. RouterInv' /\ Onward /\ EvidenceFrom({})
    BY <1>5, SameRouter
  <2> QED  BY <1>1, <1>5, <2>1, SameReceipts, OutsideKeeps
<1> QED  BY <1>3, <1>4, <1>5 DEF Include

-----------------------------------------------------------------------------
(* What a step of the worker does: the chain and the cursor stay.          *)

Inside ==
    /\ UNCHANGED <<insideVars, cursor, origin>>
    /\ judged' \in [Jobs -> 0 .. MaxJudgements] /\ stopping' \in BOOLEAN
    /\ published \subseteq published' /\ published' \subseteq Evidence
    /\ pending' \subseteq Decision
    /\ \A t \in pending' : t \in pending \/ t.hash \in {HumanLane} \cup published
    /\ mined' \subseteq mined

LEMMA InsideKeeps ==
    ASSUME JudgeInv, Inside, pass' \in Passes, PassInv', DecisionInv'
    PROVE  JudgeInv'
<1>1. UNCHANGED <<routerVars, block, logged, cursor, origin, resolutions, status, evidence>>
  BY DEF Inside, insideVars, chainVars, routerVars, recordVars, escrowVars
<1>2. RouterInv'
  BY <1>1, SameRouter
<1>3. JudgeTypeOK'
  BY <1>1 DEF JudgeInv, JudgeTypeOK, Inside
<1>4. EvidenceIsPublished'
  BY <1>1 DEF JudgeInv, EvidenceIsPublished, Inside
<1>5. NothingPassedOver' /\ LogInv'
  BY <1>1 DEF JudgeInv, NothingPassedOver, LogInv, Decided
<1>6. MinedInv'
  BY <1>1 DEF JudgeInv, MinedInv, Inside
<1> QED  BY <1>2, <1>3, <1>4, <1>5, <1>6 DEF JudgeInv

LEMMA PassFacts ==
    ASSUME JudgeInv
    PROVE  /\ pass \in Passes /\ MaxBlock \in Nat /\ MaxBlock >= 1
           /\ Attempts \in Nat /\ Attempts >= 1 /\ MaxJudgements \in Nat
           /\ BlockRange \in Nat /\ BlockRange >= 1
           /\ block \in 1 .. MaxBlock /\ cursor \in 0 .. MaxBlock + 1
           /\ Evaluated \subseteq Jobs
  BY JudgeAssumption, RouterAssumption DEF JudgeInv, JudgeTypeOK

LEMMA NothingNew ==
    ASSUME JudgeInv, UNCHANGED <<insideVars, cursor, origin, judged>>, stopping' \in BOOLEAN,
           UNCHANGED <<published, pending>>, mined' \subseteq mined
    PROVE  Inside
  BY DEF Inside, JudgeInv, JudgeTypeOK

\* A pass that is over, or has not begun, promises nothing.
LEMMA NoPassKeeps ==
    ASSUME JudgeInv, Inside, NEW at \in {"sleep", "stopped"}, pass' = Pass(at)
    PROVE  JudgeInv'
<1>1. pass' \in Passes /\ pass'.at = at
  BY PassFacts DEF Pass, Passes, Stages
<1>2. PassInv' /\ DecisionInv'
  BY <1>1 DEF PassInv, DecisionInv, Reading, InHand
<1> QED  BY <1>1, <1>2, InsideKeeps

LEMMA StartPassKeeps == ASSUME JudgeInv, StartPass PROVE JudgeInv'
<1>1. Inside
  BY NothingNew DEF StartPass, JudgeInv, JudgeTypeOK
<1> DEFINE first == IF cursor = 0 THEN block ELSE cursor
<1>2. first <= block /\ pass' = [Pass("logs") EXCEPT !.from = first, !.latest = block]
  BY DEF StartPass
<1>3. first \in 1 .. MaxBlock /\ (cursor # 0 => first = cursor)
  BY <1>2, PassFacts
<1> HIDE DEF first
<1>4. /\ pass'.at = "logs" /\ pass'.from = first /\ pass'.latest = block
      /\ pass' \in Passes
  <2>1. Pass("logs") \in Passes /\ Pass("logs").at = "logs"
    BY PassFacts DEF Pass, Passes, Stages
  <2>2. first \in 0 .. MaxBlock + 1 /\ block \in 0 .. MaxBlock
    BY <1>3, PassFacts
  <2> QED  BY <1>2, <2>1, <2>2 DEF Passes
<1>5. cursor' = cursor /\ block' = block
  BY <1>1 DEF Inside, insideVars, chainVars
<1>6. PassInv' /\ DecisionInv'
  BY <1>2, <1>3, <1>4, <1>5, PassFacts DEF PassInv, DecisionInv, Reading, InHand
<1> QED  BY <1>1, <1>4, <1>6, InsideKeeps

\* A step within the range on hand: a job leaves it only when it is decided.
LEMMA StillReading ==
    ASSUME JudgeInv, Inside, pass.at \in Reading, pass'.at \in Reading,
           pass'.from = pass.from, pass'.to = pass.to, pass'.latest = pass.latest,
           \A k \in pass.todo : k \in pass'.todo \/ (k \in Evaluated => Decided(k)),
           pass'.at \in InHand => pass'.job \in Jobs /\ judged'[pass'.job] >= 1
    PROVE  PassInv'
<1>1. /\ cursor' = cursor /\ block' = block /\ logged' = logged
      /\ resolutions' = resolutions /\ status' = status
  BY DEF Inside, insideVars, chainVars, routerVars, recordVars, escrowVars
<1>2. /\ 1 <= pass.from /\ pass.from <= pass.latest /\ pass.latest <= block
      /\ cursor # 0 => pass.from = cursor
      /\ pass.to = LastOf(pass.from, pass.latest)
  BY DEF JudgeInv, PassInv
<1>3. \A k \in Evaluated : logged[k] \in pass.from .. pass.to => k \in pass'.todo \/ Decided(k)
  BY DEF JudgeInv, PassInv
<1>4. \A k \in Evaluated :
          logged'[k] \in pass'.from .. pass'.to => k \in pass'.todo \/ Decided(k)'
  BY <1>1, <1>3 DEF Decided
<1>5. pass'.to = LastOf(pass'.from, pass'.latest)
  BY <1>2
<1> QED  BY <1>1, <1>2, <1>4, <1>5 DEF PassInv, LastOf

LEMMA GetLogsKeeps == ASSUME JudgeInv, GetLogs PROVE JudgeInv'
<1> DEFINE to == LastOf(pass.from, pass.latest)
<1>1. Inside
  BY NothingNew DEF GetLogs, JudgeInv, JudgeTypeOK
<1>2. /\ pass.at = "logs" /\ pass' = [pass EXCEPT !.at = "job", !.to = to,
                                           !.todo = LogsOf(pass.from, to)]
  BY DEF GetLogs
<1>3. /\ 1 <= pass.from /\ pass.from <= pass.latest /\ pass.latest <= block
      /\ cursor # 0 => pass.from = cursor
  BY <1>2 DEF JudgeInv, PassInv
<1>4. to \in 0 .. MaxBlock
  BY <1>3, PassFacts DEF LastOf, Passes
<1>5. LogsOf(pass.from, to) \subseteq Jobs
  BY DEF LogsOf
<1> DEFINE todo == LogsOf(pass.from, to)
<1>6. todo \subseteq Jobs /\ pass' = [pass EXCEPT !.at = "job", !.to = to, !.todo = todo]
  BY <1>2, <1>5
<1>7. \A k \in Jobs : logged[k] \in pass.from .. to => k \in todo
  BY DEF LogsOf
<1>e. to = LastOf(pass.from, pass.latest)
  OBVIOUS
<1> HIDE DEF to, todo
<1>8. /\ pass'.at = "job" /\ pass'.from = pass.from /\ pass'.latest = pass.latest
      /\ pass'.to = to /\ pass'.todo = todo /\ pass' \in Passes
  BY <1>4, <1>6, PassFacts DEF Passes, Stages
<1>9. cursor' = cursor /\ block' = block /\ logged' = logged
  BY <1>1 DEF Inside, insideVars, chainVars
<1>10. PassInv'
  <2>1. pass'.to = LastOf(pass'.from, pass'.latest)
    BY <1>e, <1>8
  <2>2. \A k \in Evaluated : logged'[k] \in pass'.from .. pass'.to => k \in pass'.todo
    BY <1>7, <1>8, <1>9, PassFacts
  <2> QED  BY <1>3, <1>8, <1>9, <2>1, <2>2 DEF PassInv, Reading, InHand, LastOf
<1>11. DecisionInv'
  BY <1>8 DEF DecisionInv
<1> QED  BY <1>1, <1>8, <1>10, <1>11, InsideKeeps

LEMMA SkipJobKeeps == ASSUME JudgeInv, SkipJob PROVE JudgeInv'
<1>1. Inside
  BY NothingNew DEF SkipJob, JudgeInv, JudgeTypeOK
<1>2. PICK j \in Jobs : ~ToBeJudged(j) /\ pass' = [pass EXCEPT !.todo = @ \ {j}]
  BY DEF SkipJob
<1>3. pass.at = "job"
  BY DEF SkipJob
<1>4. /\ pass' \in Passes /\ pass'.at = "job" /\ pass'.todo = pass.todo \ {j}
      /\ pass'.from = pass.from /\ pass'.to = pass.to /\ pass'.latest = pass.latest
  BY <1>2, <1>3, PassFacts DEF Passes
<1>5. j \in Evaluated => Decided(j)
  BY <1>2 DEF ToBeJudged, Decided
<1>6. PassInv'
  BY <1>1, <1>3, <1>4, <1>5, StillReading DEF Reading, InHand
<1>7. DecisionInv'
  BY <1>4 DEF DecisionInv
<1> QED  BY <1>1, <1>4, <1>6, <1>7, InsideKeeps

LEMMA TakeJobKeeps == ASSUME JudgeInv, TakeJob PROVE JudgeInv'
<1>1. PICK j \in Jobs :
          /\ judged[j] < MaxJudgements
          /\ judged' = [judged EXCEPT ![j] = @ + 1]
          /\ pass' = IF lanes[j] = "HumanOnly"
                     THEN [pass EXCEPT !.at = "sending", !.job = j,
                               !.decision = [job |-> j, nth |-> judged[j] + 1,
                                             action |-> "escalate", approve |-> FALSE,
                                             hash |-> HumanLane]]
                     ELSE [pass EXCEPT !.at = "judging", !.job = j]
  BY DEF TakeJob
<1>2. judged \in [Jobs -> 0 .. MaxJudgements] /\ MaxJudgements \in Nat
  BY PassFacts DEF JudgeInv, JudgeTypeOK
<1>3. /\ judged' \in [Jobs -> 0 .. MaxJudgements] /\ judged'[j] >= 1
      /\ judged[j] + 1 \in 1 .. MaxJudgements
  BY <1>1, <1>2
<1>4. Inside
  BY <1>3 DEF Inside, TakeJob, JudgeInv, JudgeTypeOK
<1> DEFINE d == [job |-> j, nth |-> judged[j] + 1, action |-> "escalate",
                 approve |-> FALSE, hash |-> HumanLane]
<1>5. d \in Decision /\ d.job = j /\ d.hash = HumanLane
  BY <1>3, JudgeAssumption DEF Decision
<1>6. pass' = IF lanes[j] = "HumanOnly" THEN [pass EXCEPT !.at = "sending", !.job = j,
                                                       !.decision = d]
              ELSE [pass EXCEPT !.at = "judging", !.job = j]
  BY <1>1
<1> HIDE DEF d
<1>7. pass.at = "job"
  BY DEF TakeJob
<1>8. /\ pass' \in Passes /\ pass'.at \in {"judging", "sending"} /\ pass'.todo = pass.todo
      /\ pass'.from = pass.from /\ pass'.to = pass.to /\ pass'.latest = pass.latest
      /\ pass'.job = j /\ (pass'.at = "sending" => pass'.decision = d)
  <2>1. CASE lanes[j] = "HumanOnly"
    BY <1>5, <1>6, <2>1, PassFacts DEF Passes, Stages
  <2>2. CASE lanes[j] # "HumanOnly"
    BY <1>6, <2>2, PassFacts DEF Passes, Stages
  <2> QED  BY <2>1, <2>2
<1>9. PassInv'
  BY <1>3, <1>4, <1>7, <1>8, StillReading DEF Reading, InHand
<1>10. DecisionInv'
  BY <1>5, <1>8 DEF DecisionInv
<1> QED  BY <1>4, <1>8, <1>9, <1>10, InsideKeeps

\* What a pass with a job in hand holds.
LEMMA InHandFacts ==
    ASSUME JudgeInv, pass.at \in InHand
    PROVE  /\ pass.job \in Jobs /\ judged[pass.job] \in 1 .. MaxJudgements
           /\ pass.at \in Reading
<1>1. pass.job \in Jobs /\ judged[pass.job] >= 1 /\ judged \in [Jobs -> 0 .. MaxJudgements]
  BY DEF JudgeInv, JudgeTypeOK, PassInv
<1> QED  BY <1>1, PassFacts DEF InHand

LEMMA JudgeKeeps == ASSUME JudgeInv, Judge PROVE JudgeInv'
<1>1. Inside
  BY NothingNew DEF Judge, JudgeInv, JudgeTypeOK
<1>2. pass.at = "judging"
  BY DEF Judge
<1>3. /\ pass.job \in Jobs /\ judged[pass.job] \in 1 .. MaxJudgements /\ pass.at \in Reading
  BY <1>2, InHandFacts DEF InHand, Reading
<1>4. PICK settle \in BOOLEAN, verdict \in Verdicts :
          pass' = [pass EXCEPT !.at = "publishing",
                     !.decision = [job |-> pass.job, nth |-> judged[pass.job],
                                   action |-> IF settle THEN "settle" ELSE "escalate",
                                   approve |-> settle /\ verdict = "approve",
                                   hash |-> <<pass.job, judged[pass.job]>>]]
  BY DEF Judge, MaySettle
<1> DEFINE d == [job |-> pass.job, nth |-> judged[pass.job],
                 action |-> IF settle THEN "settle" ELSE "escalate",
                 approve |-> settle /\ verdict = "approve",
                 hash |-> <<pass.job, judged[pass.job]>>]
<1>5. d \in Decision /\ d.job = pass.job
  <2>1. <<pass.job, judged[pass.job]>> \in Evidence
    BY <1>3, JudgeAssumption
  <2>2. (settle /\ verdict = "approve") \in BOOLEAN
    OBVIOUS
  <2>3. (IF settle THEN "settle" ELSE "escalate") \in {"settle", "escalate"}
    OBVIOUS
  <2> QED  BY <1>3, <2>1, <2>2, <2>3 DEF Decision
<1>6. pass' = [pass EXCEPT !.at = "publishing", !.decision = d]
  BY <1>4
<1> HIDE DEF d
<1>7. /\ pass' \in Passes /\ pass'.at = "publishing" /\ pass'.todo = pass.todo
      /\ pass'.from = pass.from /\ pass'.to = pass.to /\ pass'.latest = pass.latest
      /\ pass'.job = pass.job /\ pass'.decision = d
  BY <1>5, <1>6, PassFacts DEF Passes, Stages
<1>8. PassInv'
  <2>1. judged' = judged
    BY DEF Judge
  <2> QED  BY <1>1, <1>3, <1>7, <2>1, PassFacts, StillReading DEF Reading, InHand
<1>9. DecisionInv'
  BY <1>5, <1>7 DEF DecisionInv
<1> QED  BY <1>1, <1>7, <1>8, <1>9, InsideKeeps

\* A step that keeps the job in hand, and its decision.
LEMMA SameJobKeeps ==
    ASSUME JudgeInv, Inside, judged' = judged, pass.at \in {"publishing", "sending", "receipt"},
           NEW at \in {"publishing", "sending", "receipt"}, NEW n \in 0 .. Attempts - 1,
           pass' = [pass EXCEPT !.at = at, !.tries = n],
           at \in {"sending", "receipt"} =>
              pass.decision.hash \in {HumanLane} \cup published'
    PROVE  JudgeInv'
<1>1. /\ pass.job \in Jobs /\ judged[pass.job] \in 1 .. MaxJudgements /\ pass.at \in Reading
  BY InHandFacts DEF InHand, Reading
<1>2. /\ pass' \in Passes /\ pass'.at = at /\ pass'.todo = pass.todo
      /\ pass'.from = pass.from /\ pass'.to = pass.to /\ pass'.latest = pass.latest
      /\ pass'.job = pass.job /\ pass'.decision = pass.decision
  BY PassFacts DEF Passes, Stages
<1>3. PassInv'
  BY <1>1, <1>2, PassFacts, StillReading DEF Reading, InHand
<1>4. DecisionInv'
  BY <1>2 DEF JudgeInv, DecisionInv
<1> QED  BY <1>2, <1>3, <1>4, InsideKeeps

\* The evidence in hand may be stored at any time.
LEMMA StoringIsInside ==
    ASSUME JudgeInv, pass.at = "publishing",
           UNCHANGED <<insideVars, cursor, origin, judged, stopping, pending, mined>>,
           published' \in {published, StoreAIEvidence(pass.decision.hash)}
    PROVE  Inside
<1>1. pass.decision.hash \in Evidence
  BY DEF JudgeInv, DecisionInv, Decision
<1> QED  BY <1>1 DEF Inside, JudgeInv, JudgeTypeOK, StoreAIEvidence

LEMMA PublishKeeps == ASSUME JudgeInv, Publish PROVE JudgeInv'
<1>1. Inside
  BY StoringIsInside DEF Publish
<1>2. pass' = [pass EXCEPT !.at = "sending", !.tries = 0] /\ 0 \in 0 .. Attempts - 1
  BY PassFacts DEF Publish
<1>3. pass.decision.hash \in published' /\ judged' = judged /\ pass.at = "publishing"
  BY DEF Publish, StoreAIEvidence
<1> QED  BY <1>1, <1>2, <1>3, SameJobKeeps

LEMMA PublishFailsKeeps == ASSUME JudgeInv, PublishFails PROVE JudgeInv'
<1>1. Inside /\ judged' = judged /\ pass.at = "publishing"
  BY StoringIsInside DEF PublishFails
<1>2. CASE pass.tries + 1 < Attempts /\ pass' = [pass EXCEPT !.tries = @ + 1]
  <2>1. pass.tries \in 0 .. Attempts - 1
    BY PassFacts DEF Passes
  <2>2. pass.tries + 1 \in 0 .. Attempts - 1
    BY <1>2, <2>1, PassFacts
  <2>3. pass' = [pass EXCEPT !.at = "publishing", !.tries = pass.tries + 1]
    <3> DEFINE n == pass.tries + 1
    <3>1. pass' = [pass EXCEPT !.tries = n]
      BY <1>2
    <3> HIDE DEF n
    <3>2. pass' = [pass EXCEPT !.at = "publishing", !.tries = n]
      BY <1>1, <3>1, PassFacts DEF Passes
    <3> QED  BY <3>2 DEF n
  <2> QED  BY <1>1, <2>2, <2>3, SameJobKeeps
<1>3. CASE Abandon
  BY <1>1, <1>3, NoPassKeeps DEF Abandon
<1> QED  BY <1>2, <1>3 DEF PublishFails

\* The decision in hand may go out at any time from here on.
LEMMA SendingIsInside ==
    ASSUME JudgeInv, pass.at = "sending",
           UNCHANGED <<insideVars, cursor, origin, judged, stopping, published>>,
           mined' \subseteq mined,
           pending' \in {pending, pending \cup {pass.decision}}
    PROVE  Inside
<1>1. pass.decision \in Decision /\ pass.decision.hash \in {HumanLane} \cup published
  BY DEF JudgeInv, DecisionInv
<1> QED  BY <1>1 DEF Inside, JudgeInv, JudgeTypeOK

LEMMA SendKeeps == ASSUME JudgeInv, Send PROVE JudgeInv'
<1>1. Inside /\ judged' = judged /\ pass.at = "sending"
  BY SendingIsInside DEF Send
<1>2. pass.tries \in 0 .. Attempts - 1 /\ published' = published
  BY PassFacts DEF Passes, Send
<1>3. pass' = [pass EXCEPT !.at = "receipt", !.tries = pass.tries]
  BY PassFacts DEF Send, Passes
<1>4. pass.decision.hash \in {HumanLane} \cup published'
  BY <1>1, <1>2 DEF JudgeInv, DecisionInv
<1> QED  BY <1>1, <1>2, <1>3, <1>4, SameJobKeeps

LEMMA ConfirmedKeeps == ASSUME JudgeInv, Confirmed PROVE JudgeInv'
<1>1. Inside
  BY NothingNew DEF Confirmed, JudgeInv, JudgeTypeOK
<1>2. pass.at = "receipt" /\ pass.decision \in mined
  BY DEF Confirmed
<1>3. Decided(pass.job) /\ pass.at \in Reading
  BY <1>2 DEF JudgeInv, DecisionInv, MinedInv, Decided, Reading
<1>4. /\ pass' \in Passes /\ pass'.at = "job" /\ pass'.todo = pass.todo \ {pass.job}
      /\ pass'.from = pass.from /\ pass'.to = pass.to /\ pass'.latest = pass.latest
  BY PassFacts DEF Confirmed, Passes, Stages
<1>5. PassInv'
  BY <1>1, <1>3, <1>4, StillReading DEF Reading, InHand
<1>6. DecisionInv'
  BY <1>4 DEF DecisionInv
<1> QED  BY <1>1, <1>4, <1>5, <1>6, InsideKeeps

LEMMA EndKeeps ==
    ASSUME JudgeInv, Reverted \/ CallFails \/ Stop \/ Boot \/ Crash
    PROVE  JudgeInv'
<1>1. CASE Reverted \/ Stop \/ Boot \/ Crash
  <2>1. Inside
    BY <1>1, NothingNew DEF Reverted, Stop, Boot, Crash, JudgeInv, JudgeTypeOK
  <2>2. pass' = Pass("sleep") \/ pass' = Pass("stopped")
    BY <1>1 DEF Reverted, Stop, Boot, Crash, Abandon
  <2> QED  BY <2>1, <2>2, NoPassKeeps
<1>2. CASE CallFails
  <2>1. Inside
    <3>1. CASE pass.at = "sending"
      BY <1>2, <3>1, SendingIsInside DEF CallFails
    <3>2. CASE pass.at # "sending"
      BY <1>2, <3>2, NothingNew DEF CallFails, JudgeInv, JudgeTypeOK
    <3> QED  BY <3>1, <3>2
  <2> QED  BY <1>2, <2>1, NoPassKeeps DEF CallFails, Abandon
<1> QED  BY <1>1, <1>2

LEMMA SamePassKeeps == ASSUME JudgeInv, Inside, UNCHANGED <<pass, judged>> PROVE JudgeInv'
<1>1. /\ cursor' = cursor /\ block' = block /\ logged' = logged
      /\ resolutions' = resolutions /\ status' = status
  BY DEF Inside, insideVars, chainVars, routerVars, recordVars, escrowVars
<1>2. PassInv'
  BY <1>1 DEF JudgeInv, PassInv, Decided, LastOf
<1>3. DecisionInv'
  BY DEF JudgeInv, DecisionInv, Inside
<1> QED  BY <1>2, <1>3, PassFacts, InsideKeeps

LEMMA SignalKeeps == ASSUME JudgeInv, Signal PROVE JudgeInv'
<1>1. Inside
  BY NothingNew DEF Signal
<1> QED  BY <1>1, SamePassKeeps DEF Signal

LEMMA StutterKeeps == ASSUME JudgeInv, UNCHANGED judgeVars PROVE JudgeInv'
<1>1. Inside
  BY NothingNew DEF judgeVars, workerVars, insideVars, JudgeInv, JudgeTypeOK
<1> QED  BY <1>1, SamePassKeeps DEF judgeVars, workerVars

\* A range without a job left is left behind, and the cursor with it.
LEMMA RangeDone ==
    ASSUME JudgeInv, Checkpoint
    PROVE  /\ pass.from \in 1 .. MaxBlock /\ pass.to \in 0 .. MaxBlock
           /\ pass.from <= pass.to /\ pass.to <= pass.latest /\ pass.latest <= block
           /\ pass.latest \in Nat
           /\ cursor # 0 => pass.from = cursor
           /\ \A k \in Evaluated : logged[k] \in pass.from .. pass.to => Decided(k)
           /\ UNCHANGED <<block, logged, resolutions, status>>
<1>1. pass.at \in Reading /\ pass.todo = {}
  BY DEF Checkpoint, Reading
<1>2. /\ 1 <= pass.from /\ pass.from <= pass.latest /\ pass.latest <= block
      /\ cursor # 0 => pass.from = cursor
      /\ pass.to = LastOf(pass.from, pass.latest)
      /\ \A k \in Evaluated : logged[k] \in pass.from .. pass.to => k \in pass.todo \/ Decided(k)
  BY <1>1 DEF JudgeInv, PassInv
<1>3. pass.from \in 0 .. MaxBlock + 1 /\ pass.latest \in 0 .. MaxBlock /\ pass.to \in 0 .. MaxBlock
  BY PassFacts DEF Passes
<1>4. pass.from <= pass.to /\ pass.to <= pass.latest
  BY <1>2, <1>3, PassFacts DEF LastOf
<1>5. UNCHANGED <<block, logged, resolutions, status>>
  BY DEF Checkpoint, insideVars, chainVars, routerVars, recordVars, escrowVars
<1>6. \A k \in Evaluated : logged[k] \in pass.from .. pass.to => Decided(k)
  BY <1>1, <1>2
<1> QED  BY <1>2, <1>3, <1>4, <1>5, <1>6, PassFacts

\* Everything logged from the first checkpoint up to the new cursor is decided.
LEMMA NothingLeftBehind ==
    ASSUME JudgeInv, Checkpoint, NEW k \in Evaluated,
           logged[k] # 0, origin' <= logged[k], logged[k] <= pass.to
    PROVE  Decided(k)
<1>1. /\ logged[k] \in Nat /\ cursor \in Nat /\ origin \in Nat /\ (origin # 0 <=> cursor # 0)
      /\ pass.from \in Nat /\ pass.to \in Nat
  BY RangeDone, PassFacts DEF JudgeInv, JudgeTypeOK
<1>2. CASE pass.from <= logged[k]
  BY <1>1, <1>2, RangeDone
<1>3. CASE logged[k] < pass.from
  <2>1. origin # 0
    BY <1>1, <1>3 DEF Checkpoint
  <2>2. origin' = origin /\ pass.from = cursor
    BY <1>1, <2>1, RangeDone DEF Checkpoint
  <2> QED  BY <1>3, <2>2 DEF JudgeInv, NothingPassedOver
<1> QED  BY <1>1, <1>2, <1>3

LEMMA CheckpointKeeps == ASSUME JudgeInv, Checkpoint PROVE JudgeInv'
<1>1. /\ UNCHANGED <<insideVars, judged, stopping, published, pending, mined>>
      /\ cursor' = pass.to + 1
      /\ origin' = IF origin = 0 THEN pass.from ELSE origin
      /\ pass' = IF MoreRanges THEN [pass EXCEPT !.at = "logs", !.from = pass.to + 1]
                 ELSE Pass("sleep")
  BY DEF Checkpoint
<1>2. /\ UNCHANGED <<routerVars, resolutions, status, evidence, lanes>>
      /\ UNCHANGED <<block, logged>>
  BY <1>1 DEF insideVars, chainVars, routerVars, recordVars, escrowVars
<1>3. RouterInv'
  BY <1>2, SameRouter
<1>4. /\ pass.to \in Nat /\ pass.to <= MaxBlock /\ pass.from \in 1 .. MaxBlock
      /\ pass.to + 1 \in 1 .. MaxBlock + 1
      /\ pass.to <= block
  BY RangeDone, PassFacts
<1>5. pass' \in Passes
  <2>1. CASE MoreRanges
    <3> DEFINE n == pass.to + 1
    <3>1. n \in 0 .. MaxBlock + 1 /\ pass' = [pass EXCEPT !.at = "logs", !.from = n]
      BY <1>1, <1>4, <2>1
    <3> HIDE DEF n
    <3> QED  BY <3>1, PassFacts DEF Passes, Stages
  <2>2. CASE ~MoreRanges
    <3>1. Pass("sleep") \in Passes
      BY PassFacts DEF Pass, Passes, Stages
    <3> QED  BY <1>1, <2>2, <3>1
  <2> QED  BY <2>1, <2>2
<1>6. cursor' \in 1 .. MaxBlock + 1 /\ origin' \in 1 .. MaxBlock
  BY <1>1, <1>4 DEF JudgeInv, JudgeTypeOK
<1>7. JudgeTypeOK'
  BY <1>1, <1>2, <1>5, <1>6 DEF JudgeInv, JudgeTypeOK
<1>8. EvidenceIsPublished' /\ MinedInv'
  BY <1>1, <1>2 DEF JudgeInv, EvidenceIsPublished, MinedInv
<1>9. NothingPassedOver'
  <2>1. ASSUME NEW k \in Evaluated, logged[k] # 0, origin' <= logged[k], logged[k] < cursor'
        PROVE  Decided(k)
    <3>1. logged[k] \in Nat
      BY PassFacts DEF JudgeInv, JudgeTypeOK
    <3>2. logged[k] <= pass.to
      BY <1>1, <1>4, <2>1, <3>1
    <3> QED  BY <2>1, <3>2, NothingLeftBehind
  <2> QED  BY <1>2, <2>1 DEF NothingPassedOver, Decided
<1>10. LogInv'
  <2>1. cursor' - 1 <= block
    BY <1>1, <1>4
  <2> QED  BY <1>2, <2>1 DEF JudgeInv, LogInv
<1>11. PassInv' /\ DecisionInv'
  <2>1. CASE MoreRanges
    <3>1. /\ pass'.at = "logs" /\ pass'.from = cursor' /\ pass'.latest = pass.latest
          /\ pass'.from = pass.to + 1
      BY <1>1, <2>1, PassFacts DEF Passes
    <3>2. 1 <= pass'.from /\ pass'.from <= pass'.latest /\ pass'.latest <= block'
      BY <1>2, <1>4, <2>1, <3>1, RangeDone DEF MoreRanges
    <3> QED  BY <3>1, <3>2 DEF PassInv, DecisionInv, Reading, InHand
  <2>2. CASE ~MoreRanges
    <3>1. pass'.at = "sleep"
      BY <1>1, <2>2 DEF Pass
    <3> QED  BY <3>1 DEF PassInv, DecisionInv, Reading, InHand
  <2> QED  BY <2>1, <2>2
<1> QED  BY <1>3, <1>7, <1>8, <1>9, <1>10, <1>11 DEF JudgeInv

LEMMA JudgeStepKeeps == JudgeInv /\ [Next]_judgeVars => JudgeInv'
<1> SUFFICES ASSUME JudgeInv, [Next]_judgeVars PROVE JudgeInv'
  OBVIOUS
<1>1. CASE UNCHANGED judgeVars
  BY <1>1, StutterKeeps
<1>2. CASE Mine
  BY <1>2, MineKeeps
<1>3. ASSUME NEW j \in Jobs, SubmitJob(j) \/ ChangeLane(j) \/ OtherMoves(j) PROVE JudgeInv'
  BY <1>3, SubmitJobKeeps, OthersKeep
<1>4. ASSUME NEW t \in pending, Include(t) PROVE JudgeInv'
  BY <1>4, IncludeKeeps
<1>5. CASE WorkerStep
  BY <1>5, StartPassKeeps, GetLogsKeeps, SkipJobKeeps, TakeJobKeeps, JudgeKeeps, PublishKeeps,
     SendKeeps, ConfirmedKeeps, CheckpointKeeps, EndKeeps DEF WorkerStep
<1>6. CASE PublishFails \/ CallFails \/ Signal \/ Crash
  BY <1>6, PublishFailsKeeps, EndKeeps, SignalKeeps
<1> QED  BY <1>1, <1>2, <1>3, <1>4, <1>5, <1>6 DEF Next

(***************************************************************************)
(* For any number of jobs, block ranges and faults the judge keeps all of  *)
(* it together: types, evidence, cursor, the range and the decision in     *)
(* hand, and what a receipt says.                                          *)
(***************************************************************************)
THEOREM JudgeInvariance == Spec => []JudgeInv
  BY InitJudgeInv, JudgeStepKeeps, PTL DEF Spec

(***************************************************************************)
(* The AI evidence that stands on chain, or is on its way, is held by the  *)
(* review service, whatever failed or was given up on the way.             *)
(***************************************************************************)
THEOREM EvidenceHeld == Spec => []EvidenceInv
<1>1. JudgeInv => EvidenceInv
  BY DEF JudgeInv, EvidenceInv
<1> QED  BY <1>1, JudgeInvariance, PTL

(***************************************************************************)
(* The cursor on disk passes no job of the router that still waits.        *)
(***************************************************************************)
THEOREM CursorIsSafe == Spec => []NothingPassedOver
<1>1. JudgeInv => NothingPassedOver
  BY DEF JudgeInv
<1> QED  BY <1>1, JudgeInvariance, PTL

-----------------------------------------------------------------------------
(* The poll that ends well.                                                *)

CaughtUp ==
    (pass.at = "job" /\ pass'.at = "sleep" /\ cursor' # cursor) =>
        \A j \in Evaluated :
           logged[j] # 0 /\ origin' <= logged[j] /\ logged[j] <= pass.latest => Decided(j)

LEMMA OnlyCheckpointMoves ==
    ASSUME [Next]_judgeVars, cursor' # cursor
    PROVE  Checkpoint
  BY DEF Next, Mine, SubmitJob, ChangeLane, OtherMoves, Moves, Include, WorkerStep, StartPass,
     GetLogs, SkipJob, TakeJob, Judge, Publish, Send, Confirmed, Reverted, Stop, Boot,
     PublishFails, CallFails, Signal, Crash, judgeVars, workerVars, outsideVars

LEMMA StepCatchesUp == JudgeInv /\ [Next]_judgeVars => CaughtUp
<1> SUFFICES ASSUME JudgeInv, [Next]_judgeVars, pass'.at = "sleep", cursor' # cursor,
                    NEW j \in Evaluated, logged[j] # 0, origin' <= logged[j],
                    logged[j] <= pass.latest
             PROVE  Decided(j)
  BY DEF CaughtUp
<1>1. Checkpoint
  BY OnlyCheckpointMoves
<1>2. ~MoreRanges
  <2>1. ASSUME MoreRanges PROVE pass'.at = "logs"
    BY <1>1, <2>1, PassFacts DEF Checkpoint, Passes
  <2> QED  BY <2>1
<1>3. pass.to = pass.latest
  BY <1>1, <1>2, RangeDone DEF MoreRanges
<1> QED  BY <1>1, <1>3, NothingLeftBehind

(***************************************************************************)
(* A poll counts as a success, and the judge as healthy, only when all     *)
(* that was submitted up to the block it began at is decided.              *)
(***************************************************************************)
THEOREM HealthyIsCaughtUp == Spec => HealthyMeansCaughtUp
<1>1. JudgeInv /\ [Next]_judgeVars =>
        [(pass.at = "job" /\ pass'.at = "sleep" /\ cursor' # cursor) =>
            \A j \in Evaluated :
               logged[j] # 0 /\ origin' <= logged[j] /\ logged[j] <= pass.latest
                  => Decided(j)]_judgeVars
  BY StepCatchesUp DEF CaughtUp
<1> QED  BY <1>1, JudgeInvariance, PTL DEF Spec, HealthyMeansCaughtUp

-----------------------------------------------------------------------------
(* The chain that the judge works on is the router.                        *)

LEMMA JudgeStepOfRouter == JudgeInv /\ [Next]_judgeVars => [RouterNext]_routerVars
<1> SUFFICES ASSUME JudgeInv, [Next]_judgeVars PROVE [RouterNext]_routerVars
  OBVIOUS
<1>0. /\ config \in Configs /\ config.oracle \in Accounts /\ config.humanResolver \in Accounts
      /\ Client \in [Jobs -> Accounts] /\ HumanEvidence \in Evidence
  BY RouterAssumption, JudgeAssumption DEF JudgeInv, RouterInv, RouterTypeOK
<1>1. ASSUME NEW a \in Accounts, NEW j \in Jobs, NEW l \in Lanes, SetLane(a, j, l)
      PROVE RouterNext
  BY <1>1 DEF RouterNext
<1>2. ASSUME NEW a \in Accounts, NEW j \in Jobs, NEW ok \in BOOLEAN, NEW e \in Evidence,
             NEW c \in Configs, SubmitAIVerdict(a, j, ok, c.minConfidenceBP, e)
      PROVE RouterNext
  BY <1>2 DEF RouterNext
<1>3. ASSUME NEW a \in Accounts, NEW j \in Jobs, NEW e \in Evidence, Escalate(a, j, e)
      PROVE RouterNext
  BY <1>3 DEF RouterNext
<1>4. ASSUME NEW a \in Accounts, NEW j \in Jobs, NEW r \in Accounts, NEW ok \in BOOLEAN,
             NEW e \in Evidence, HumanResolve(a, j, r, ok, 1, e, e)
      PROVE RouterNext
  <2>1. HumanResolveAny(a, j)
    BY <1>4 DEF HumanResolveAny
  <2> QED  BY <2>1 DEF RouterNext
<1>5. ASSUME NEW j \in Jobs, EscrowStep(j) PROVE RouterNext
  BY <1>5 DEF RouterNext
<1>6. ASSUME NEW j \in Jobs, SubmitJob(j) \/ ChangeLane(j) \/ OtherMoves(j)
      PROVE  RouterNext
  <2>1. CASE SubmitJob(j)
    BY <1>5, <2>1 DEF SubmitJob, EscrowStep
  <2>2. CASE ChangeLane(j)
    BY <1>0, <1>1, <2>2 DEF ChangeLane
  <2>3. CASE OtherMoves(j)
    BY <1>0, <1>4, <1>5, <2>3 DEF OtherMoves, EscrowStep
  <2> QED  BY <1>6, <2>1, <2>2, <2>3
<1>7. ASSUME NEW t \in pending, Include(t) PROVE [RouterNext]_routerVars
  <2>1. t.job \in Jobs /\ t.approve \in BOOLEAN /\ t.hash \in Evidence
    BY DEF JudgeInv, JudgeTypeOK, Decision
  <2> QED  BY <1>0, <1>2, <1>3, <1>7, <2>1 DEF Include
<1>8. ASSUME Mine \/ WorkerStep \/ PublishFails \/ CallFails \/ Signal \/ Crash
             \/ UNCHANGED judgeVars
      PROVE  UNCHANGED routerVars
  BY <1>8 DEF Mine, WorkerStep, StartPass, GetLogs, SkipJob, TakeJob, Judge, Publish, Send,
     Confirmed, Reverted, Checkpoint, Stop, Boot, PublishFails, CallFails, Signal, Crash,
     judgeVars, outsideVars, insideVars, chainVars
<1> QED  BY <1>6, <1>7, <1>8 DEF Next

(***************************************************************************)
(* The judge, its faults and its late transactions do to the contract only *)
(* what EvaluationRouter allows: what is proved of it holds here.          *)
(***************************************************************************)
THEOREM JudgeUsesRouter == Spec => RouterSpec
<1>1. JudgeInit => RouterInit
  BY DEF JudgeInit
<1> QED  BY <1>1, JudgeStepOfRouter, JudgeInvariance, PTL DEF Spec, RouterSpec
=============================================================================
