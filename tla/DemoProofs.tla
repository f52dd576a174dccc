----------------------------- MODULE DemoProofs ------------------------------
(***************************************************************************)
(* For any number of runs, jobs, transactions and faults: only the call in *)
(* hand writes its run, what a row says is so on chain, the judge settles  *)
(* no job of the demo, and an archived run has its money back unless the   *)
(* hash of a funding transaction was lost.                                 *)
(*                                                                         *)
(* The argument: a row is backed by the chain (Backed), in terms that no   *)
(* later transaction takes back (Onward); so a step of one run has to say  *)
(* only why its own new row is backed.                                     *)
(***************************************************************************)
EXTENDS DemoRun, RouterProofs, FiniteSetTheorems

\* The states in which the escrow of a run is funded.
Later == {"awaiting_escalation", "awaiting_purchase", "purchasing_review", "review_active"}

NeedsFunds(row) ==
    \/ row.op \in {"submit_deliverable", "wait_for_escalation", "purchase_review"}
    \/ row.state \in Later
    \/ row.state = "failed" /\ row.recovery \in Later

\* The states and operations of a run without a job.
EarlyStates == {"absent", "queued", "preparing_escrow", "failed", "archived_refund_pending",
                "archived_refunded"}

EarlyOps == {"null", "initialize", "create_job", "wait_for_refund_eligibility"}

\* What a row says of itself.
RowOK(row) ==
    /\ row.job \in {0, 1}
    /\ row.state = "failed" => row.recovery \in Processable
    /\ row.state = "absent" => row.job = 0
    /\ row.job = 0 =>
          /\ row.txs["fund"] = 0 /\ row.op \in EarlyOps
          /\ row.state \in EarlyStates /\ row.recovery \in EarlyStates

\* Of a transaction: it went out for a job, and a deliverable on the human lane.
SentOK(r, row) ==
    \A n \in 1 .. MaxSends :
        /\ \A k \in Keys \ {"createJob"} : receipts[<<r, k, n>>] # "none" => row.job # 0
        /\ receipts[<<r, "submit", n>>] # "none" => lanes[<<r, row.job>>] = "HumanOnly"

FundedOK(r, row) ==
    \A n \in 1 .. MaxJobs : escrow[<<r, n>>] = "funded" =>
        /\ n = row.job
        /\ \E m \in 1 .. MaxSends : receipts[<<r, "fund", m>>] = "success"

ArchivedOK(r, row) ==
    row.state = "archived_refunded" =>
        \/ row.txs["fund"] = 0
        \/ row.job # 0 /\ status[<<r, row.job>>] \in {"rejected", "ended"}

FinalOK(r, row) ==
    row.state = "finalized" =>
        \/ order[r] = "approved" /\ status[<<r, row.job>>] = "completed"
        \/ order[r] = "rejected" /\ status[<<r, row.job>>] = "rejected"

\* What a row says of the chain.
Backed(r, row) ==
    /\ NeedsFunds(row) => escrow[<<r, row.job>>] = "funded"
    /\ SentOK(r, row) /\ FundedOK(r, row) /\ ArchivedOK(r, row) /\ FinalOK(r, row)

\* The call in hand works with the row as it is, on what stays true.
CallOK(r, call, row) ==
    call.pc # "idle" =>
        /\ call.run = row /\ row.state \in Processable
        /\ call.pc = "look" => row.state \in {"queued", "preparing_escrow", "purchasing_review"}
        /\ call.pc = "attach" => row.state = "purchasing_review"
        /\ call.pc = "verify" => row.state = "review_active"
        /\ call.pc = "record" => call.key \in Keys /\ (row.job = 0 => call.key = "createJob")
        /\ call.pc = "act" /\ call.done /\ row.state = "preparing_escrow" =>
              /\ row.op = "create_job" => Made(r) # {}
              /\ row.op = "fund_escrow" => escrow[<<r, row.job>>] = "funded"

RunOK(r) == RowOK(runs[r]) /\ Backed(r, runs[r]) /\ CallOK(r, at[r], runs[r])

\* What holds of the escrow, whatever the rows say.
WorldInv ==
    /\ \A r \in Runs :
          /\ \E k \in 0 .. MaxJobs : Made(r) = 1 .. k
          /\ Made(r) # {} => \E n \in 1 .. MaxSends : receipts[<<r, "createJob", n>>] = "success"
    /\ \A j \in Jobs : status[j] # "open" => escrow[j] = "funded"
    /\ \A j \in Jobs : status[j] = "submitted" => lanes[j] = "HumanOnly"

WorldOK == RouterInv /\ WorldInv /\ HumansDecide

DemoInv == DemoTypeOK /\ WorldOK /\ \A r \in Runs : RunOK(r)

LEMMA DemoFacts ==
    /\ MaxJobs \in Nat /\ MaxJobs >= 1 /\ MaxSends \in Nat /\ MaxSends >= 1
    /\ \A r \in Runs, n \in 1 .. MaxJobs : <<r, n>> \in Jobs
    /\ \A r \in Runs, k \in Keys, n \in 1 .. MaxSends : <<r, k, n>> \in Tx
    /\ Evaluated = Jobs
    /\ \A j \in Jobs : DemoClient \in Accounts /\ Client[j] = DemoClient
  BY DemoAssumption, RouterAssumption DEF Tx

LEMMA NoRowOK == NoRow \in Row /\ RowOK(NoRow) /\ ~NeedsFunds(NoRow)
<1>1. NoRow \in Row
  BY DemoFacts DEF NoRow, Row, States, Active, TerminalStates, Operations
<1>2. RowOK(NoRow) /\ ~NeedsFunds(NoRow)
  BY DEF NoRow, RowOK, NeedsFunds, Later, EarlyStates, EarlyOps, Keys
<1> QED  BY <1>1, <1>2

LEMMA IdleOK == Idle \in Calls /\ \A r, row : CallOK(r, Idle, row)
<1>1. Idle \in Calls
  BY NoRowOK, DemoFacts DEF Idle, Calls
<1>2. Idle.pc = "idle"
  BY DEF Idle
<1> QED  BY <1>1, <1>2 DEF CallOK

LEMMA IdleCall == Idle \in Calls /\ Idle.pc = "idle"
  BY IdleOK DEF Idle

LEMMA InitDemoInv == DemoInit => DemoInv
<1> SUFFICES ASSUME DemoInit PROVE DemoInv
  OBVIOUS
<1> USE DEF DemoInit
<1>1. RouterInv
  BY InitRouterInv
<1>2. DemoTypeOK
  BY <1>1, NoRowOK, IdleOK DEF DemoTypeOK, RouterInv
<1>3. HumansDecide
  BY DEF HumansDecide, RouterInit, AutoResolutions
<1>4. WorldInv
  <2>1. \A r \in Runs : Made(r) = {}
    BY DemoFacts DEF Made
  <2>2. 0 \in 0 .. MaxJobs /\ 1 .. 0 = {}
    BY DemoFacts
  <2> QED  BY <2>1, <2>2 DEF WorldInv, RouterInit
<1>5. ASSUME NEW r \in Runs PROVE RunOK(r)
  <2>1. runs[r] = NoRow /\ at[r] = Idle
    OBVIOUS
  <2>2. SentOK(r, NoRow) /\ FundedOK(r, NoRow)
    <3>1. /\ "submit" \in Keys /\ \A t \in Tx : receipts[t] = "none"
          /\ \A j \in Jobs : escrow[j] = "absent"
      BY DEF Keys
    <3> HIDE DEF DemoInit
    <3> QED  BY <3>1, DemoFacts DEF SentOK, FundedOK
  <2>3. ArchivedOK(r, NoRow) /\ FinalOK(r, NoRow)
    BY DEF ArchivedOK, FinalOK, NoRow
  <2> QED  BY <2>1, <2>2, <2>3, NoRowOK, IdleOK DEF RunOK, Backed
<1> QED  BY <1>1, <1>2, <1>3, <1>4, <1>5 DEF DemoInv, WorldOK

-----------------------------------------------------------------------------
(* What stays true whatever the chain and the review service do.           *)

\* No funding, lane, settlement or verdict is taken back; what is new is the
\* funding of a run's job by a transaction of its own, and what was sent for it.
Onward ==
    /\ \A j \in Jobs : escrow[j] = "funded" => escrow'[j] = "funded"
    /\ \A r \in Runs, n \in 1 .. MaxJobs :
          escrow'[<<r, n>>] = "funded" =>
              \/ escrow[<<r, n>>] = "funded"
              \/ /\ n = runs[r].job
                 /\ \E m \in 1 .. MaxSends : receipts'[<<r, "fund", m>>] = "success"
    /\ \A t \in Tx : receipts[t] = "success" => receipts'[t] = "success"
    /\ \A r \in Runs, k \in Keys, n \in 1 .. MaxSends :
          receipts'[<<r, k, n>>] # "none" =>
              \/ receipts[<<r, k, n>>] # "none"
              \/ /\ k = "createJob" \/ runs[r].job # 0
                 /\ k = "submit" => lanes[<<r, runs[r].job>>] = "HumanOnly"
    /\ \A j \in Jobs : lanes[j] = "HumanOnly" => lanes'[j] = "HumanOnly"
    /\ \A j \in Jobs : status[j] \in {"completed", "rejected", "ended"} => status'[j] = status[j]
    /\ \A r \in Runs : order[r] \in {"approved", "rejected"} => order'[r] = order[r]
    /\ \A r \in Runs : Made(r) # {} => Made(r)' # {}

LEMMA JobIs ==
    ASSUME NEW r \in Runs, NEW row, RowOK(row), row.job # 0
    PROVE  <<r, row.job>> \in Jobs /\ row.job \in 1 .. MaxJobs
  BY DemoFacts DEF RowOK

LEMMA RowHasJob ==
    ASSUME NEW row, RowOK(row),
           NeedsFunds(row) \/ row.state = "finalized"
    PROVE  row.job # 0
  BY DEF RowOK, NeedsFunds, EarlyStates, EarlyOps, Later

LEMMA StaysBacked ==
    ASSUME Onward, NEW r \in Runs, NEW row, row = runs[r], RowOK(row), Backed(r, row)
    PROVE  Backed(r, row)'
<1>1. NeedsFunds(row) => escrow'[<<r, row.job>>] = "funded"
  BY JobIs, RowHasJob DEF Backed, Onward
<1>2. SentOK(r, row)'
  <2>1. ASSUME NEW n \in 1 .. MaxSends, NEW k \in Keys \ {"createJob"},
               receipts'[<<r, k, n>>] # "none"
        PROVE  row.job # 0
    <3>1. k \in Keys /\ k # "createJob"
      OBVIOUS
    <3>2. receipts[<<r, k, n>>] # "none" \/ row.job # 0
      <4>1. \/ receipts[<<r, k, n>>] # "none"
            \/ k = "createJob" \/ runs[r].job # 0
        BY <2>1, <3>1, Zenon DEF Onward
      <4> QED  BY <3>1, <4>1
    <3>3. receipts[<<r, k, n>>] # "none" => row.job # 0
      BY DEF Backed, SentOK
    <3> QED  BY <3>2, <3>3
  <2>2. ASSUME NEW n \in 1 .. MaxSends, receipts'[<<r, "submit", n>>] # "none"
        PROVE  lanes'[<<r, row.job>>] = "HumanOnly"
    <3>1. "submit" \in Keys \ {"createJob"}
      BY DEF Keys
    <3>2. <<r, row.job>> \in Jobs
      BY <2>1, <2>2, <3>1, JobIs
    <3>3. lanes[<<r, row.job>>] = "HumanOnly"
      BY <2>2, <3>1 DEF Backed, SentOK, Onward
    <3> QED  BY <3>2, <3>3 DEF Onward
  <2> QED  BY <2>1, <2>2 DEF SentOK
<1>3. FundedOK(r, row)'
  <2>1. \A m \in 1 .. MaxSends : <<r, "fund", m>> \in Tx
    BY DemoFacts DEF Keys
  <2> QED  BY <2>1, DemoFacts DEF Backed, FundedOK, Onward
<1>4. ArchivedOK(r, row)'
  BY JobIs DEF Backed, ArchivedOK, Onward
<1>5. FinalOK(r, row)'
  BY JobIs, RowHasJob DEF Backed, FinalOK, Onward
<1> QED  BY <1>1, <1>2, <1>3, <1>4, <1>5 DEF Backed, NeedsFunds

LEMMA CallStays ==
    ASSUME Onward, NEW r \in Runs, NEW row, RowOK(row), NEW call, CallOK(r, call, row)
    PROVE  CallOK(r, call, row)'
<1>1. row.op = "fund_escrow" => row.job # 0
  BY DEF RowOK, EarlyOps
<1> QED  BY <1>1, JobIs DEF CallOK, Onward

\* A step of the world: no row and no call is touched.
LEMMA WorldKeeps ==
    ASSUME DemoInv, Onward, UNCHANGED <<runs, at>>, WorldOK', DemoTypeOK'
    PROVE  DemoInv'
<1>1. ASSUME NEW r \in Runs PROVE RunOK(r)'
  <2>1. PICK row : row = runs[r]
    OBVIOUS
  <2>2. PICK call : call = at[r]
    OBVIOUS
  <2>3. RowOK(row) /\ Backed(r, row) /\ CallOK(r, call, row)
    BY <2>1, <2>2 DEF DemoInv, RunOK
  <2>4. runs'[r] = row /\ at'[r] = call
    BY <2>1, <2>2
  <2>5. RowOK(row)' /\ Backed(r, row)' /\ CallOK(r, call, row)'
    BY <2>1, <2>3, StaysBacked, CallStays DEF RowOK
  <2> QED  BY <2>4, <2>5 DEF RunOK
<1> QED  BY <1>1 DEF DemoInv

\* A step of one run: its row and its call are replaced.
LEMMA RunKeeps ==
    ASSUME DemoInv, Onward, WorldOK', DemoTypeOK', NEW r \in Runs, NEW row, NEW call,
           runs' = [runs EXCEPT ![r] = row], at' = [at EXCEPT ![r] = call],
           RowOK(row), Backed(r, row)', CallOK(r, call, row)'
    PROVE  DemoInv'
<1>1. runs \in [Runs -> Row] /\ at \in [Runs -> Calls]
  BY DEF DemoInv, DemoTypeOK
<1>2. ASSUME NEW q \in Runs PROVE RunOK(q)'
  <2>1. CASE q = r
    <3>1. runs'[q] = row /\ at'[q] = call
      BY <1>1, <2>1
    <3> QED  BY <2>1, <3>1 DEF RunOK, RowOK
  <2>2. CASE q # r
    <3>1. PICK other : other = runs[q]
      OBVIOUS
    <3>2. PICK hold : hold = at[q]
      OBVIOUS
    <3>3. RowOK(other) /\ Backed(q, other) /\ CallOK(q, hold, other)
      BY <3>1, <3>2 DEF DemoInv, RunOK
    <3>4. runs'[q] = other /\ at'[q] = hold
      BY <1>1, <2>2, <3>1, <3>2
    <3>5. RowOK(other)' /\ Backed(q, other)' /\ CallOK(q, hold, other)'
      BY <3>1, <3>3, StaysBacked, CallStays DEF RowOK
    <3> QED  BY <3>4, <3>5 DEF RunOK
  <2> QED  BY <2>1, <2>2
<1> QED  BY <1>2 DEF DemoInv

-----------------------------------------------------------------------------
(* Steps of one run that leave chain and order alone.                      *)

\* An order moves, and never from where it is settled.
OrderMoves ==
    /\ order' \in [Runs -> {"none", "charged", "active", "approved", "rejected", "refunded",
                            "stuck"}]
    /\ \A q \in Runs : order[q] \in {"approved", "rejected"} => order'[q] = order[q]

LEMMA RowStep ==
    ASSUME DemoInv, UNCHANGED <<chain, receipts>>, order' = order \/ OrderMoves,
           NEW r \in Runs, NEW row \in Row, NEW call \in Calls,
           runs' = [runs EXCEPT ![r] = row], at' = [at EXCEPT ![r] = call],
           RowOK(row), Backed(r, row), CallOK(r, call, row)
    PROVE  DemoInv'
<1> USE DEF chain, routerVars, recordVars, escrowVars
<1>o. /\ order' \in [Runs -> {"none", "charged", "active", "approved", "rejected", "refunded",
                             "stuck"}]
      /\ \A q \in Runs : order[q] \in {"approved", "rejected"} => order'[q] = order[q]
  BY DEF OrderMoves, DemoInv, DemoTypeOK
<1>1. Onward
  BY <1>o DEF Onward, Made
<1>2. WorldOK'
  <2>1. RouterInv'
    BY DEF DemoInv, WorldOK, RouterInv, RouterTypeOK, RecordMatchesEscrow, HumanLaneHonoured,
           ProvenanceOfHumansOnly
  <2>2. WorldInv' /\ HumansDecide'
    BY DEF DemoInv, WorldOK, WorldInv, HumansDecide, Made
  <2> QED  BY <2>1, <2>2 DEF WorldOK
<1>3. DemoTypeOK'
  <2>1. runs' \in [Runs -> Row] /\ at' \in [Runs -> Calls]
    BY DEF DemoInv, DemoTypeOK
  <2> QED  BY <2>1, <1>2, <1>o DEF DemoInv, DemoTypeOK, WorldOK, RouterInv
<1>4. Backed(r, row)' /\ CallOK(r, call, row)'
  BY <1>o DEF Backed, SentOK, FundedOK, ArchivedOK, FinalOK, CallOK, Made
<1> QED  BY <1>1, <1>2, <1>3, <1>4, RunKeeps

\* The run in hand.
LEMMA InHand ==
    ASSUME DemoInv, NEW r \in Runs
    PROVE  /\ runs[r] \in Row /\ at[r] \in Calls
           /\ RowOK(runs[r]) /\ Backed(r, runs[r]) /\ CallOK(r, at[r], runs[r])
           /\ at[r].pc # "idle" => at[r].run = runs[r] /\ runs[r].state \in Processable
           /\ runs = [runs EXCEPT ![r] = runs[r]] /\ at = [at EXCEPT ![r] = at[r]]
<1>1. runs \in [Runs -> Row] /\ at \in [Runs -> Calls] /\ RunOK(r)
  BY DEF DemoInv, DemoTypeOK
<1> QED  BY <1>1 DEF RunOK, CallOK

\* A row of the same job that ends nothing is as well backed.
LEMMA Rebacked ==
    ASSUME NEW r \in Runs, NEW row, NEW new, Backed(r, row), new.job = row.job,
           new.state \notin TerminalStates,
           NeedsFunds(new) => NeedsFunds(row) \/ escrow[<<r, row.job>>] = "funded"
    PROVE  Backed(r, new)
  BY DEF Backed, SentOK, FundedOK, ArchivedOK, FinalOK, TerminalStates

LEMMA FailedOK ==
    ASSUME NEW r \in Runs, NEW row \in Row, NEW e \in {"reverted", "other"},
           RowOK(row), Backed(r, row), row.state \in Processable
    PROVE  /\ Failed(row, e) \in Row /\ RowOK(Failed(row, e)) /\ Backed(r, Failed(row, e))
<1> DEFINE new == [row EXCEPT !.state = "failed", !.error = e, !.recovery = row.state]
<1>0. row.state # "failed" /\ row.state \notin TerminalStates
  BY DEF Processable, Active, TerminalStates
<1>1. Failed(row, e) = new
  BY <1>0 DEF Failed
<1>2. new \in Row
  BY <1>0 DEF Row, States
<1>3. /\ new.job = row.job /\ new.state = "failed" /\ new.recovery = row.state
      /\ new.op = row.op /\ new.txs = row.txs
  BY DEF Row
<1> HIDE DEF new
<1>4. RowOK(new)
  BY <1>3 DEF RowOK, EarlyStates
<1>5. Backed(r, new)
  <2>1. NeedsFunds(new) => NeedsFunds(row)
    BY <1>3 DEF NeedsFunds, Later
  <2>2. new.state \notin TerminalStates
    BY <1>3 DEF TerminalStates
  <2> QED  BY <2>1, <2>2, <1>3, Rebacked
<1> QED  BY <1>1, <1>2, <1>4, <1>5

LEMMA FailKeeps ==
    ASSUME DemoInv, UNCHANGED <<chain, receipts>>, order' = order \/ OrderMoves, NEW r \in Runs,
           at[r].pc # "idle", NEW e \in {"reverted", "other"}, Fail(r, e)
    PROVE  DemoInv'
<1>1. PICK row : row = runs[r]
  OBVIOUS
<1>2. row \in Row /\ RowOK(row) /\ Backed(r, row) /\ row.state \in Processable
  BY <1>1, InHand
<1>3. /\ Failed(row, e) \in Row /\ RowOK(Failed(row, e)) /\ Backed(r, Failed(row, e))
  BY <1>2, FailedOK
<1>4. runs' = [runs EXCEPT ![r] = Failed(row, e)] /\ at' = [at EXCEPT ![r] = Idle]
  BY <1>1 DEF Fail, Set, Leave
<1> QED  BY <1>3, <1>4, IdleOK, RowStep

LEMMA NoteKeeps ==
    ASSUME DemoInv, UNCHANGED <<chain, receipts>>, order' = order \/ OrderMoves, NEW r \in Runs,
           at[r].pc # "idle", NoteTransientFailure(r)
    PROVE  DemoInv'
<1>1. PICK row : row = runs[r]
  OBVIOUS
<1>2. row \in Row /\ RowOK(row) /\ Backed(r, row) /\ row.state \in Processable
  BY <1>1, InHand
<1>3. PICK new : new = [row EXCEPT !.error = "other"]
  OBVIOUS
<1>4. new \in Row
  BY <1>2, <1>3 DEF Row
<1>5. /\ new.job = row.job /\ new.state = row.state /\ new.recovery = row.recovery
      /\ new.op = row.op /\ new.txs = row.txs
  BY <1>2, <1>3 DEF Row
<1>6. RowOK(new)
  BY <1>2, <1>5 DEF RowOK
<1>7. Backed(r, new)
  <2>1. NeedsFunds(new) => NeedsFunds(row)
    BY <1>5 DEF NeedsFunds
  <2>2. new.state \notin TerminalStates
    BY <1>2, <1>5 DEF TerminalStates, Processable, Active
  <2> QED  BY <2>1, <2>2, <1>2, <1>5, Rebacked
<1>8. runs' = [runs EXCEPT ![r] = new] /\ at' = [at EXCEPT ![r] = Idle]
  BY <1>1, <1>3 DEF NoteTransientFailure, Set, Leave
<1> QED  BY <1>4, <1>6, <1>7, <1>8, IdleOK, RowStep

\* A call that ends, or goes on, with the row as it is.
LEMMA CallKeeps ==
    ASSUME DemoInv, UNCHANGED <<chain, receipts, runs>>,
           order' = order \/ OrderMoves, NEW r \in Runs,
           NEW call \in Calls, at' = [at EXCEPT ![r] = call], CallOK(r, call, runs[r])
    PROVE  DemoInv'
<1>1. PICK row : row = runs[r]
  OBVIOUS
<1>2. row \in Row /\ RowOK(row) /\ Backed(r, row) /\ runs' = [runs EXCEPT ![r] = row]
  BY <1>1, InHand
<1> QED  BY <1>1, <1>2, RowStep

\* A row that is moved to another state, with its operation.
LEMMA MoveKeeps ==
    ASSUME DemoInv, UNCHANGED <<chain, order, receipts>>, NEW r \in Runs,
           NEW row, row = runs[r], NEW state \in States \ {"failed", "absent"}, NEW op \in Operations,
           Transition(r, state, op), NEW call \in Calls, at' = [at EXCEPT ![r] = call],
           call.pc = "idle",
           row.job = 0 => state \in EarlyStates /\ op \in EarlyOps,
           op \in {"submit_deliverable", "wait_for_escalation", "purchase_review"}
              => escrow[<<r, row.job>>] = "funded",
           state \in Later => escrow[<<r, row.job>>] = "funded",
           ArchivedOK(r, [row EXCEPT !.state = state]), FinalOK(r, [row EXCEPT !.state = state])
    PROVE  DemoInv'
<1>1. row \in Row /\ RowOK(row) /\ Backed(r, row)
  BY InHand
<1>2. PICK new : new = [row EXCEPT !.state = state, !.op = op, !.error = "none"]
  OBVIOUS
<1>3. new \in Row
  BY <1>1, <1>2 DEF Row
<1>4. /\ new.job = row.job /\ new.state = state /\ new.recovery = row.recovery
      /\ new.op = op /\ new.txs = row.txs
  BY <1>1, <1>2 DEF Row
<1>5. RowOK(new)
  BY <1>1, <1>4 DEF RowOK
<1>6. Backed(r, new)
  <2>1. ArchivedOK(r, new) /\ FinalOK(r, new)
    BY <1>1, <1>4 DEF Row, ArchivedOK, FinalOK
  <2>2. SentOK(r, new) /\ FundedOK(r, new)
    BY <1>1, <1>4 DEF Backed, SentOK, FundedOK
  <2>3. NeedsFunds(new) => escrow[<<r, new.job>>] = "funded"
    BY <1>4 DEF NeedsFunds
  <2> QED  BY <2>1, <2>2, <2>3 DEF Backed
<1>7. runs' = [runs EXCEPT ![r] = new]
  BY <1>2 DEF Transition, Set
<1>8. CallOK(r, call, new)
  BY DEF CallOK
<1> QED  BY <1>3, <1>5, <1>6, <1>7, <1>8, RowStep

\* A move that neither ends the run nor needs more of the chain.
LEMMA GoesOn ==
    ASSUME DemoInv, UNCHANGED <<chain, order, receipts>>, NEW r \in Runs,
           NEW state \in Active \cup {"archived_refund_pending"}, NEW op \in Operations,
           Transition(r, state, op), NEW call \in Calls, at' = [at EXCEPT ![r] = call],
           call.pc = "idle",
           runs[r].job = 0 => state \in EarlyStates /\ op \in EarlyOps,
           \/ NeedsFunds(runs[r])
           \/ /\ op \notin {"submit_deliverable", "wait_for_escalation", "purchase_review"}
              /\ state \notin Later
    PROVE  DemoInv'
<1>1. PICK row \in Row : row = runs[r]
  BY InHand
<1>2. Backed(r, row) /\ state \in States \ ({"failed", "absent"} \cup TerminalStates)
  BY <1>1, InHand DEF States, Active, TerminalStates
<1>3. ArchivedOK(r, [row EXCEPT !.state = state]) /\ FinalOK(r, [row EXCEPT !.state = state])
  BY <1>2 DEF ArchivedOK, FinalOK, Row, TerminalStates
<1>4. NeedsFunds(row) => escrow[<<r, row.job>>] = "funded"
  BY <1>2 DEF Backed
<1> QED  BY <1>1, <1>2, <1>3, <1>4, MoveKeeps

\* What the world says of a chain that does not move.
LEMMA SameWorld ==
    ASSUME WorldOK, UNCHANGED chain,
           \A t \in Tx : receipts[t] = "success" => receipts'[t] = "success"
    PROVE  WorldOK'
<1> USE DEF chain, routerVars, recordVars, escrowVars
<1>1. RouterInv'
  BY DEF WorldOK, RouterInv, RouterTypeOK, RecordMatchesEscrow, HumanLaneHonoured,
         ProvenanceOfHumansOnly
<1>2. "createJob" \in Keys
  BY DEF Keys
<1>3. WorldInv' /\ HumansDecide'
  BY <1>2, DemoFacts DEF WorldOK, WorldInv, HumansDecide, Made
<1> QED  BY <1>1, <1>3 DEF WorldOK

LEMMA AwaitKeeps ==
    ASSUME DemoInv, UNCHANGED <<chain, order>>, NEW r \in Runs, NEW key, NEW done,
           at[r].pc # "idle", AwaitReceipt(r, key, done)
    PROVE  DemoInv'
<1>1. CASE Fail(r, "reverted") \/ Fail(r, "other")
  BY <1>1, FailKeeps DEF AwaitReceipt
<1>2. CASE Leave(r) /\ UNCHANGED runs
  BY <1>2, IdleOK, CallKeeps DEF AwaitReceipt, Leave
<1> QED  BY <1>1, <1>2 DEF AwaitReceipt

LEMMA SendKeeps ==
    ASSUME DemoInv, UNCHANGED <<chain, order>>, NEW r \in Runs, NEW key \in Keys,
           at[r].pc # "idle", Send(r, key),
           key = "createJob" \/ runs[r].job # 0,
           key = "submit" => lanes[<<r, runs[r].job>>] = "HumanOnly"
    PROVE  DemoInv'
<1>1. CASE ~Succeeds(r, key)
  BY <1>1, FailKeeps DEF Send
<1>2. CASE Succeeds(r, key)
  <2>1. PICK n \in 1 .. MaxSends :
            /\ receipts[<<r, key, n>>] = "none"
            /\ receipts' = [receipts EXCEPT ![<<r, key, n>>] = "pool"]
            /\ at' = [at EXCEPT ![r].pc = "record", ![r].key = key, ![r].nth = n]
            /\ UNCHANGED runs
    BY <1>2 DEF Send, Unsent
  <2>2. PICK row : row = runs[r]
    OBVIOUS
  <2>3. PICK call : call = [at[r] EXCEPT !.pc = "record", !.key = key, !.nth = n]
    OBVIOUS
  <2>4. row \in Row /\ RowOK(row) /\ Backed(r, row) /\ at[r] \in Calls /\ at[r].run = row
        /\ row.state \in Processable
    BY <2>2, InHand
  <2>5. /\ receipts \in [Tx -> {"none", "pool", "dropped", "success", "reverted"}]
        /\ at \in [Runs -> Calls] /\ runs \in [Runs -> Row]
    BY DEF DemoInv, DemoTypeOK
  <2>6. call \in Calls /\ call.run = row /\ call.pc = "record" /\ call.key = key
    <3>1. PICK held \in Calls : held = at[r]
      BY <2>4
    <3>2. n \in 0 .. MaxSends
      BY DemoFacts
    <3>3. call = [held EXCEPT !.pc = "record", !.key = key, !.nth = n]
      BY <2>3, <3>1
    <3>4. call.run = held.run /\ call.pc = "record" /\ call.key = key
      BY <3>3 DEF Calls
    <3>5. call \in Calls
      BY <3>2, <3>3 DEF Calls
    <3> QED  BY <2>4, <3>1, <3>4, <3>5
  <2>7. at' = [at EXCEPT ![r] = call] /\ runs' = [runs EXCEPT ![r] = row]
    BY <2>1, <2>2, <2>3, <2>5
  <2>8. \A t \in Tx : receipts'[t] # receipts[t] => t = <<r, key, n>> /\ receipts[t] = "none"
    BY <2>1, <2>5
  <2>9. Onward
    <3>1. \A q \in Runs, k \in Keys, m \in 1 .. MaxSends :
              receipts'[<<q, k, m>>] # "none" =>
                  receipts[<<q, k, m>>] # "none" \/ (q = r /\ k = key)
      BY <2>8, DemoFacts
    <3> QED  BY <2>8, <3>1 DEF Onward, Made, chain, routerVars, escrowVars
  <2>10. WorldOK'
    BY <2>8, SameWorld DEF DemoInv
  <2>11. DemoTypeOK'
    <3>1. receipts' \in [Tx -> {"none", "pool", "dropped", "success", "reverted"}]
      BY <2>1, <2>5
    <3>2. at' \in [Runs -> Calls] /\ runs' \in [Runs -> Row]
      BY <2>5, <2>6, <2>7, <2>1
    <3> QED  BY <3>1, <3>2, <2>10 DEF DemoInv, DemoTypeOK, WorldOK, RouterInv, chain
  <2>12. Backed(r, row)'
    BY <2>2, <2>4, <2>9, StaysBacked
  <2>13. CallOK(r, call, row)'
    <3>1. row.job = 0 => key = "createJob"
      BY <2>2
    <3> QED  BY <3>1, <2>4, <2>6 DEF CallOK
  <2> QED  BY <2>4, <2>7, <2>9, <2>10, <2>11, <2>12, <2>13, RunKeeps
<1> QED  BY <1>1, <1>2

\* An operation of the preparation, but for the row it ends with.
LEMMA OperationKeeps ==
    ASSUME DemoInv, NEW r \in Runs, NEW op, NEW key \in Keys, NEW row,
           Operation(r, op, key, row),
           op \in {"set_human_lane", "set_budget", "approve_usdc", "fund_escrow",
                   "submit_deliverable"} \/ key = "createJob",
           key = "submit" => \/ at[r].done \/ at[r].run.txs["submit"] # 0
                             \/ lanes[<<r, at[r].run.job>>] = "HumanOnly",
           at[r].done /\ Set(r, row) => row \in Row /\ RowOK(row) /\ Backed(r, row)
    PROVE  DemoInv'
<1>1. /\ at[r].pc = "act" /\ at[r].run = runs[r] /\ runs[r].state = "preparing_escrow"
      /\ runs[r].op = op /\ UNCHANGED <<chain, order>>
  BY InHand DEF Operation
<1>2. CASE at[r].done /\ Set(r, row) /\ Leave(r) /\ UNCHANGED receipts
  BY <1>1, <1>2, IdleOK, RowStep DEF Set, Leave
<1>3. CASE AwaitReceipt(r, key, Done(at[r].run, r))
  BY <1>1, <1>3, AwaitKeeps
<1>4. CASE ~at[r].done /\ at[r].run.txs[key] = 0 /\ Send(r, key)
  <2>1. key = "createJob" \/ runs[r].job # 0
    BY <1>1, InHand DEF RowOK, EarlyOps
  <2> QED  BY <1>1, <1>4, <2>1, SendKeeps
<1> QED  BY <1>2, <1>3, <1>4 DEF Operation

-----------------------------------------------------------------------------
(* The steps of a run.                                                     *)

\* The job that is found is the one everything was sent for.
LEMMA FoundBacked ==
    ASSUME NEW r \in Runs, NEW row, NEW new, RowOK(row), Backed(r, row),
           row.state \in Processable, new.job = 1, new.state = row.state,
           NeedsFunds(new) => NeedsFunds(row)
    PROVE  RowOK(new) /\ Backed(r, new)
<1>1. row.job \in {0, 1} /\ (NeedsFunds(row) => row.job = 1)
  BY RowHasJob DEF RowOK
<1>2. new.state \notin TerminalStates \cup {"failed", "absent"}
  BY DEF Processable, Active, TerminalStates
<1>3. RowOK(new)
  BY <1>2 DEF RowOK
<1>4. SentOK(r, new)
  <2>1. CASE row.job = 0
    <3>1. "submit" \in Keys \ {"createJob"}
      BY DEF Keys
    <3> QED  BY <2>1, <3>1 DEF Backed, SentOK
  <2>2. CASE row.job = 1
    BY <2>2 DEF Backed, SentOK
  <2> QED  BY <1>1, <2>1, <2>2
<1>5. FundedOK(r, new)
  BY <1>1, DemoFacts DEF Backed, FundedOK
<1>6. ArchivedOK(r, new) /\ FinalOK(r, new)
  BY <1>2 DEF ArchivedOK, FinalOK, TerminalStates
<1>7. NeedsFunds(new) => escrow[<<r, new.job>>] = "funded"
  BY <1>1 DEF Backed
<1> QED  BY <1>3, <1>4, <1>5, <1>6, <1>7 DEF Backed

LEMMA FoundRow ==
    ASSUME DemoInv, NEW r \in Runs, Made(r) # {}, NEW row \in Row
    PROVE  /\ FindCreatedJob(row, r) \in Row
           /\ FindCreatedJob(row, r).job = 1 /\ FindCreatedJob(row, r).state = row.state
           /\ FindCreatedJob(row, r).recovery = row.recovery /\ FindCreatedJob(row, r).op = row.op
<1>1. \E n \in 1 .. MaxSends : receipts[<<r, "createJob", n>>] = "success"
  BY DEF DemoInv, WorldOK, WorldInv
<1>2. PICK c : c = CHOOSE n \in 1 .. MaxSends : receipts[<<r, "createJob", n>>] = "success"
  OBVIOUS
<1>3. c \in 1 .. MaxSends
  BY <1>1, <1>2
<1>4. PICK h \in 0 .. MaxSends :
          h = IF row.txs["createJob"] # 0 THEN row.txs["createJob"] ELSE c
  <2>1. row.txs \in [Keys -> 0 .. MaxSends] /\ "createJob" \in Keys
    BY DEF Row, Keys
  <2> QED  BY <1>3, <2>1, DemoFacts
<1>5. FindCreatedJob(row, r) = [row EXCEPT !.job = 1, !.txs["createJob"] = h]
  BY <1>2, <1>4 DEF FindCreatedJob, Row
<1>6. PICK new : new = [row EXCEPT !.job = 1, !.txs["createJob"] = h]
  OBVIOUS
<1>7. new.job = 1 /\ new.state = row.state /\ new.recovery = row.recovery /\ new.op = row.op
  BY <1>6 DEF Row
<1>8. new \in Row
  <2>1. PICK txs \in [Keys -> 0 .. MaxSends] : txs = [row.txs EXCEPT !["createJob"] = h]
    BY DEF Row, Keys
  <2>2. new = [row EXCEPT !.job = 1, !.txs = txs]
    BY <1>6, <2>1 DEF Row
  <2>3. 1 \in 0 .. MaxJobs
    BY DemoFacts
  <2> QED  BY <2>2, <2>3 DEF Row
<1> QED  BY <1>5, <1>6, <1>7, <1>8

LEMMA CompletedOK ==
    ASSUME NEW r \in Runs, NEW row \in Row, RowOK(row), Backed(r, row), row.job # 0,
           NEW next \in Operations, NEW state \in States \ (TerminalStates \cup {"failed", "absent"}),
           NEW new, new = [row EXCEPT !.op = next, !.error = "none", !.state = state],
           NeedsFunds(new) => NeedsFunds(row) \/ escrow[<<r, row.job>>] = "funded"
    PROVE  new \in Row /\ RowOK(new) /\ Backed(r, new)
<1>1. new \in Row
  BY DEF Row
<1>2. new.job = row.job /\ new.state = state
  BY DEF Row
<1>3. RowOK(new)
  BY <1>2 DEF RowOK
<1> QED  BY <1>1, <1>2, <1>3, Rebacked

LEMMA PreparationKeeps ==
    ASSUME DemoInv, NEW r \in Runs,
           \/ ProcessCreateJob(r) \/ ProcessSetLane(r) \/ ProcessSetBudget(r)
           \/ ProcessApproval(r) \/ ProcessFunding(r) \/ ProcessSubmission(r)
    PROVE  DemoInv'
<1>0. PICK row : row = runs[r]
  OBVIOUS
<1>1. row \in Row /\ RowOK(row) /\ Backed(r, row) /\ CallOK(r, at[r], row)
  BY <1>0, InHand
<1>k. {"createJob", "setLane", "setBudget", "approval", "fund", "submit"} \subseteq Keys
  BY DEF Keys
<1>a. ASSUME at[r].pc = "act", at[r].run.state = "preparing_escrow"
      PROVE  at[r].run = row /\ row.state = "preparing_escrow"
  BY <1>a, <1>1 DEF CallOK
<1>2. CASE ProcessCreateJob(r)
  <2>1. PICK found : found = FindCreatedJob(row, r)
    OBVIOUS
  <2>2. PICK new : new = [found EXCEPT !.op = "set_human_lane", !.error = "none"]
    OBVIOUS
  <2>3. Operation(r, "create_job", "createJob", new)
    BY <1>0, <1>2, <2>1, <2>2 DEF ProcessCreateJob
  <2>4. at[r].pc = "act" /\ row.state = "preparing_escrow" /\ row.op = "create_job"
    BY <2>3, <1>a DEF Operation
  <2>5. ASSUME at[r].done PROVE new \in Row /\ RowOK(new) /\ Backed(r, new)
    <3>1. Made(r) # {}
      BY <2>4, <2>5, <1>1 DEF CallOK
    <3>2. found \in Row /\ found.job = 1 /\ found.state = row.state
      BY <1>1, <2>1, <3>1, FoundRow
    <3>3. new \in Row
      BY <2>2, <3>2 DEF Row, Operations
    <3>4. new.job = 1 /\ new.state = row.state /\ new.op = "set_human_lane"
      BY <2>2, <3>2 DEF Row
    <3>5. ~NeedsFunds(new) /\ row.state \in Processable
      BY <2>4, <3>4 DEF NeedsFunds, Later, Processable, Active
    <3> QED  BY <1>1, <3>3, <3>4, <3>5, FoundBacked
  <2> QED  BY <1>k, <2>3, <2>5, OperationKeeps
<1>3. ASSUME NEW op, NEW key \in Keys \ {"createJob"}, NEW next \in Operations,
             NEW state \in States \ (TerminalStates \cup {"failed", "absent"}),
             Operation(r, op, key, Completed(r, next, state)),
             op \in {"set_human_lane", "set_budget", "approve_usdc", "fund_escrow",
                     "submit_deliverable"},
             key = "submit" => \/ at[r].done \/ at[r].run.txs["submit"] # 0
                               \/ lanes[<<r, at[r].run.job>>] = "HumanOnly",
             next = "submit_deliverable" => op = "fund_escrow",
             next \in {"wait_for_escalation", "purchase_review"} \/ state \in Later
                => op = "submit_deliverable"
      PROVE  DemoInv'
  <2>1. PICK new : new = [row EXCEPT !.op = next, !.error = "none", !.state = state]
    OBVIOUS
  <2>2. Completed(r, next, state) = new
    BY <1>0, <2>1 DEF Completed
  <2>3. at[r].pc = "act" /\ row.state = "preparing_escrow" /\ row.op = op
    BY <1>3, <1>a DEF Operation
  <2>4. ASSUME at[r].done PROVE new \in Row /\ RowOK(new) /\ Backed(r, new)
    <3>1. row.job # 0
      BY <1>1, <1>3, <2>3 DEF RowOK, EarlyOps
    <3>2. new.op = next /\ new.state = state /\ state # "failed"
      BY <1>1, <2>1 DEF Row
    <3>3. NeedsFunds(new) => NeedsFunds(row) \/ escrow[<<r, row.job>>] = "funded"
      <4>1. op = "fund_escrow" => escrow[<<r, row.job>>] = "funded"
        BY <1>1, <2>3, <2>4 DEF CallOK
      <4>2. op = "submit_deliverable" => NeedsFunds(row)
        BY <2>3 DEF NeedsFunds
      <4> QED  BY <1>3, <3>2, <4>1, <4>2 DEF NeedsFunds
    <3> QED  BY <1>1, <2>1, <3>1, <3>3, CompletedOK
  <2> QED  BY <1>3, <2>2, <2>4, OperationKeeps
<1>o. /\ {"set_budget", "approve_usdc", "fund_escrow", "submit_deliverable",
          "wait_for_escalation"} \subseteq Operations
      /\ {"preparing_escrow", "awaiting_escalation"}
            \subseteq States \ (TerminalStates \cup {"failed", "absent"})
      /\ "preparing_escrow" \notin Later
  BY DEF Operations, States, Active, TerminalStates, Later
<1>4. ASSUME NEW op, NEW key, NEW next, Operation(r, op, key, Completed(r, next, runs[r].state))
      PROVE  Operation(r, op, key, Completed(r, next, "preparing_escrow"))
  BY <1>4, <1>a, <1>0 DEF Operation
<1>5. CASE ProcessSetLane(r)
  BY <1>5, <1>3, <1>4, <1>k, <1>o DEF ProcessSetLane
<1>6. CASE ProcessSetBudget(r)
  BY <1>6, <1>3, <1>4, <1>k, <1>o DEF ProcessSetBudget
<1>7. CASE ProcessApproval(r)
  BY <1>7, <1>3, <1>4, <1>k, <1>o DEF ProcessApproval
<1>8. CASE ProcessFunding(r)
  BY <1>8, <1>3, <1>4, <1>k, <1>o DEF ProcessFunding
<1>9. CASE ProcessSubmission(r)
  <2>1. CASE LaneLost(r)
    <3>1. Fail(r, "other") /\ UNCHANGED <<chain, order, receipts>> /\ at[r].pc # "idle"
      BY <1>9, <2>1 DEF ProcessSubmission, Doing, outside
    <3> QED  BY <3>1, FailKeeps
  <2>2. CASE ~LaneLost(r)
    <3>1. Operation(r, "submit_deliverable", "submit",
                    Completed(r, "wait_for_escalation", "awaiting_escalation"))
      BY <1>9, <2>2 DEF ProcessSubmission
    <3> QED  BY <3>1, <2>2, <1>3, <1>k, <1>o DEF LaneLost, OnHumanLane
  <2> QED  BY <2>1, <2>2
<1> QED  BY <1>2, <1>5, <1>6, <1>7, <1>8, <1>9

LEMMA LookKeeps ==
    ASSUME DemoInv, NEW r \in Runs,
           ProcessRun(r) \/ PrepareEscrow(r) \/ Look(r) \/ PurchaseReview(r)
    PROVE  DemoInv'
<1>0. PICK row \in Row : row = runs[r]
  BY InHand
<1>1. PICK held \in Calls : held = at[r]
  BY InHand
<1>2. RowOK(row) /\ Backed(r, row) /\ CallOK(r, held, row)
  BY <1>0, <1>1, InHand
<1>3. CASE ProcessRun(r)
  <2>1. PICK pc \in {"look", "act"} :
            /\ pc = "look" => row.state \in {"queued", "preparing_escrow", "purchasing_review"}
            /\ at' = [at EXCEPT ![r] = [Idle EXCEPT !.run = row, !.pc = pc]]
    BY <1>0, <1>3 DEF ProcessRun
  <2>2. PICK call : call = [Idle EXCEPT !.run = row, !.pc = pc]
    OBVIOUS
  <2>3. call \in Calls
    BY <2>2, IdleOK DEF Calls
  <2>4. call.run = row /\ call.pc = pc /\ call.done = FALSE
    BY <2>2 DEF Idle
  <2>5. CallOK(r, call, row)
    BY <1>0, <1>3, <2>1, <2>4 DEF CallOK, ProcessRun
  <2> QED  BY <1>0, <1>3, <2>1, <2>2, <2>3, <2>5, CallKeeps DEF ProcessRun, outside
<1>4. CASE PrepareEscrow(r)
  <2>1. PICK new : new = [row EXCEPT !.state = "preparing_escrow", !.op = "create_job",
                                     !.error = "none"]
    OBVIOUS
  <2>2. PICK call : call = [held EXCEPT !.run = new]
    OBVIOUS
  <2>3. /\ held.pc = "look" /\ row.state = "queued"
        /\ runs' = [runs EXCEPT ![r] = new] /\ at' = [at EXCEPT ![r].run = new]
    BY <1>0, <1>1, <1>2, <1>4, <2>1 DEF PrepareEscrow, Set, Begin, CallOK
  <2>4. new \in Row
    BY <2>1 DEF Row, States, Active, Operations
  <2>5. /\ new.job = row.job /\ new.state = "preparing_escrow" /\ new.op = "create_job"
        /\ new.txs = row.txs /\ new.recovery = row.recovery
    BY <2>1 DEF Row
  <2>6. RowOK(new)
    BY <1>2, <2>5 DEF RowOK, EarlyOps, EarlyStates
  <2>7. Backed(r, new)
    BY <1>2, <2>5, Rebacked DEF NeedsFunds, Later, TerminalStates
  <2>8. call \in Calls /\ call.run = new /\ call.pc = "look"
    BY <2>2, <2>3, <2>4 DEF Calls
  <2>9. at' = [at EXCEPT ![r] = call]
    BY <1>1, <2>2, <2>3 DEF DemoInv, DemoTypeOK
  <2>10. CallOK(r, call, new)
    BY <2>5, <2>8 DEF CallOK, Processable, Active
  <2> QED  BY <1>4, <2>3, <2>4, <2>6, <2>7, <2>8, <2>9, <2>10, RowStep DEF PrepareEscrow, outside
<1>5. CASE Look(r)
  <2>1. PICK d \in BOOLEAN : d = Done(held.run, r)
    BY DEF Done
  <2>2. PICK call : call = [held EXCEPT !.pc = "act", !.done = d]
    OBVIOUS
  <2>3. call \in Calls /\ call.run = held.run /\ call.pc = "act" /\ call.done = d
    BY <2>2 DEF Calls
  <2>4. held.pc = "look" /\ held.run = row /\ row.state = "preparing_escrow"
    BY <1>1, <1>2, <1>5 DEF Look, CallOK
  <2>5. CallOK(r, call, row)
    BY <2>1, <2>3, <2>4 DEF CallOK, Done, Processable, Active
  <2>6. at' = [at EXCEPT ![r] = call]
    BY <1>1, <1>5, <2>1, <2>2 DEF Look, DemoInv, DemoTypeOK
  <2> QED  BY <1>0, <1>5, <2>3, <2>5, <2>6, CallKeeps DEF Look, outside
<1>6. CASE PurchaseReview(r)
  <2>1. PICK pc \in {"act", "attach"} : at' = [at EXCEPT ![r].pc = pc]
    BY <1>6 DEF PurchaseReview
  <2>2. PICK call : call = [held EXCEPT !.pc = pc]
    OBVIOUS
  <2>3. call \in Calls /\ call.run = held.run /\ call.pc = pc
    BY <2>2 DEF Calls
  <2>4. held.pc = "look" /\ held.run = row /\ row.state = "purchasing_review"
    BY <1>1, <1>2, <1>6 DEF PurchaseReview, CallOK
  <2>5. CallOK(r, call, row)
    BY <2>3, <2>4 DEF CallOK, Processable, Active
  <2>6. at' = [at EXCEPT ![r] = call]
    BY <1>1, <2>1, <2>2 DEF DemoInv, DemoTypeOK
  <2> QED  BY <1>0, <1>6, <2>3, <2>5, <2>6, CallKeeps DEF PurchaseReview, outside
<1> QED  BY <1>3, <1>4, <1>5, <1>6

LEMMA RecordKeeps ==
    ASSUME DemoInv, NEW r \in Runs, RecordSent(r)
    PROVE  DemoInv'
<1>0. PICK row \in Row : row = runs[r]
  BY InHand
<1>1. PICK held \in Calls : held = at[r]
  BY InHand
<1>2. RowOK(row) /\ Backed(r, row) /\ CallOK(r, held, row)
  BY <1>0, <1>1, InHand
<1>3. held.pc = "record" /\ held.key \in Keys /\ (row.job = 0 => held.key = "createJob")
      /\ row.state \in Processable
  BY <1>1, <1>2 DEF RecordSent, CallOK
<1>4. PICK txs : txs = [row.txs EXCEPT ![held.key] = held.nth]
  OBVIOUS
<1>5. PICK new : new = [row EXCEPT !.txs = txs]
  OBVIOUS
<1>6. txs \in [Keys -> 0 .. MaxSends]
  BY <1>3, <1>4 DEF Row, Calls
<1>7. new \in Row
  BY <1>5, <1>6 DEF Row
<1>8. /\ new.job = row.job /\ new.state = row.state /\ new.recovery = row.recovery
      /\ new.op = row.op /\ new.txs = txs
  BY <1>5 DEF Row
<1>9. row.job = 0 => txs["fund"] = row.txs["fund"]
  BY <1>3, <1>4 DEF Row, Keys
<1>10. RowOK(new)
  BY <1>2, <1>8, <1>9 DEF RowOK
<1>11. Backed(r, new)
  BY <1>2, <1>3, <1>8, Rebacked DEF NeedsFunds, Processable, Active, TerminalStates
<1>12. runs' = [runs EXCEPT ![r] = new] /\ at' = [at EXCEPT ![r] = Idle]
       /\ UNCHANGED <<chain, order, receipts>>
  BY <1>0, <1>1, <1>4, <1>5 DEF RecordSent, RecordTransaction, Set, Leave, outside, Row
<1> QED  BY <1>7, <1>10, <1>11, <1>12, IdleOK, RowStep

LEMMA EscalationKeeps ==
    ASSUME DemoInv, NEW r \in Runs, ReconcileEscalation(r)
    PROVE  DemoInv'
<1>0. PICK row \in Row : row = runs[r]
  BY InHand
<1>1. /\ RowOK(row) /\ Backed(r, row) /\ at[r].pc # "idle" /\ row.state = "awaiting_escalation"
      /\ UNCHANGED <<chain, order, receipts>>
  BY <1>0, InHand DEF ReconcileEscalation, InState, outside
<1>2. CASE Transition(r, "awaiting_purchase", "null") /\ Leave(r)
  <2>1. NeedsFunds(row) /\ row.job # 0
    BY <1>1, RowHasJob DEF NeedsFunds, Later
  <2>2. "awaiting_purchase" \in Active /\ "null" \in Operations
    BY DEF Active, Operations
  <2> QED  BY <1>0, <1>1, <1>2, <2>1, <2>2, IdleCall, GoesOn DEF Leave
<1>3. CASE Leave(r) /\ UNCHANGED runs
  BY <1>1, <1>3, IdleOK, CallKeeps DEF Leave
<1>4. CASE Fail(r, "other")
  BY <1>1, <1>4, FailKeeps
<1> QED  BY <1>2, <1>3, <1>4 DEF ReconcileEscalation

LEMMA PayKeeps ==
    ASSUME DemoInv, NEW r \in Runs, Pay(r)
    PROVE  DemoInv'
<1>0. PICK row \in Row : row = runs[r]
  BY InHand
<1>1. PICK held \in Calls : held = at[r]
  BY InHand
<1>2. /\ CallOK(r, held, row) /\ held.pc = "act" /\ held.run = row
      /\ row.state = "purchasing_review" /\ UNCHANGED <<chain, receipts>>
  BY <1>0, <1>1, InHand DEF Pay, InState
<1>3. order' = order \/ OrderMoves
  <2>1. PICK s \in {"charged", "active"} :
            order' = order \/ order' = [order EXCEPT ![r] = IF @ = "none" THEN s ELSE @]
    BY DEF Pay
  <2> QED  BY <2>1 DEF OrderMoves, DemoInv, DemoTypeOK
<1>4. CASE at' = [at EXCEPT ![r].pc = "attach"] /\ UNCHANGED runs
  <2>1. PICK call : call = [held EXCEPT !.pc = "attach"]
    OBVIOUS
  <2>2. call \in Calls /\ call.run = held.run /\ call.pc = "attach"
    BY <2>1 DEF Calls
  <2>3. CallOK(r, call, row)
    BY <1>2, <2>2 DEF CallOK
  <2>4. at' = [at EXCEPT ![r] = call]
    BY <1>1, <1>4, <2>1 DEF DemoInv, DemoTypeOK
  <2> QED  BY <1>0, <1>2, <1>3, <1>4, <2>2, <2>3, <2>4, CallKeeps
<1>5. CASE NoteTransientFailure(r)
  BY <1>1, <1>2, <1>3, <1>5, NoteKeeps
<1>6. CASE Fail(r, "other")
  BY <1>1, <1>2, <1>3, <1>6, FailKeeps
<1> QED  BY <1>4, <1>5, <1>6 DEF Pay

LEMMA AttachKeeps ==
    ASSUME DemoInv, NEW r \in Runs, AttachReviewOrder(r)
    PROVE  DemoInv'
<1>0. PICK row \in Row : row = runs[r]
  BY InHand
<1>1. RowOK(row) /\ Backed(r, row) /\ row.state = "purchasing_review"
  BY <1>0, InHand DEF AttachReviewOrder, CallOK
<1>2. PICK new : new = [row EXCEPT !.op = "wait_for_review", !.error = "none",
                                   !.state = "review_active"]
  OBVIOUS
<1>3. NeedsFunds(row) /\ row.job # 0
  BY <1>1, RowHasJob DEF NeedsFunds, Later
<1>4. new \in Row /\ RowOK(new) /\ Backed(r, new)
  BY <1>1, <1>2, <1>3, CompletedOK DEF Operations, States, Active, TerminalStates
<1>5. PICK call : call = [Idle EXCEPT !.pc = "act", !.run = new]
  OBVIOUS
<1>6. call \in Calls /\ call.pc = "act" /\ call.run = new /\ call.done = FALSE
  <2>1. Idle \in Calls /\ Idle.done = FALSE
    BY IdleCall DEF Idle
  <2> QED  BY <1>4, <1>5, <2>1 DEF Calls
<1>7. CallOK(r, call, new)
  <2>1. new.state = "review_active"
    BY <1>2 DEF Row
  <2> QED  BY <1>6, <2>1 DEF CallOK, Processable, Active
<1>8. runs' = [runs EXCEPT ![r] = new] /\ at' = [at EXCEPT ![r] = call]
      /\ UNCHANGED <<chain, order, receipts>>
  BY <1>0, <1>2, <1>5 DEF AttachReviewOrder, Set, outside
<1> QED  BY <1>4, <1>6, <1>7, <1>8, RowStep

LEMMA ReviewKeeps ==
    ASSUME DemoInv, NEW r \in Runs, ReconcileReview(r)
    PROVE  DemoInv'
<1>0. PICK row \in Row : row = runs[r]
  BY InHand
<1>1. /\ RowOK(row) /\ Backed(r, row) /\ at[r].pc # "idle" /\ row.state = "review_active"
      /\ at[r].run = row /\ UNCHANGED <<chain, order, receipts>>
  BY <1>0, InHand DEF ReconcileReview, InState, outside
<1>2. NeedsFunds(row) /\ row.job # 0
  BY <1>1, RowHasJob DEF NeedsFunds, Later
<1>o. {"null", "wait_for_refund_eligibility"} \subseteq Operations
  BY DEF Operations
<1>3. CASE Transition(r, "archived_refund_pending", "wait_for_refund_eligibility") /\ Leave(r)
  <2>1. "archived_refund_pending" \in Active \cup {"archived_refund_pending"}
    OBVIOUS
  <2> QED  BY <1>0, <1>1, <1>2, <1>3, <1>o, <2>1, IdleCall, GoesOn DEF Leave
<1>4. CASE at' = [at EXCEPT ![r].pc = "verify"] /\ UNCHANGED runs
  <2>1. PICK call : call = [at[r] EXCEPT !.pc = "verify"]
    OBVIOUS
  <2>2. at[r] \in Calls /\ row.state \in Processable
    BY <1>0, <1>1, InHand
  <2>3. call \in Calls /\ call.pc = "verify" /\ call.run = row
    BY <1>1, <2>1, <2>2 DEF Calls
  <2>4. CallOK(r, call, row) /\ at' = [at EXCEPT ![r] = call]
    BY <1>1, <1>4, <2>1, <2>2, <2>3 DEF CallOK
  <2> QED  BY <1>0, <1>1, <1>4, <2>3, <2>4, CallKeeps
<1>5. CASE Leave(r) /\ UNCHANGED runs
  BY <1>1, <1>5, IdleOK, CallKeeps DEF Leave
<1> QED  BY <1>3, <1>4, <1>5 DEF ReconcileReview

LEMMA VerifyKeeps ==
    ASSUME DemoInv, NEW r \in Runs, VerifyProvenance(r)
    PROVE  DemoInv'
<1>0. PICK row \in Row : row = runs[r]
  BY InHand
<1>1. /\ RowOK(row) /\ Backed(r, row) /\ at[r].pc # "idle" /\ row.state = "review_active"
      /\ at[r].run = row /\ UNCHANGED <<chain, order, receipts>>
  BY <1>0, InHand DEF VerifyProvenance, CallOK, outside
<1>2. row.job # 0
  BY <1>1, RowHasJob DEF NeedsFunds, Later
<1>3. "null" \in Operations /\ "finalized" \in States \ {"failed", "absent"}
  BY DEF Operations, States, Active, TerminalStates
<1>4. CASE ProvenanceMatches(r) /\ Transition(r, "finalized", "null") /\ Leave(r)
  <2>1. PICK new : new = [row EXCEPT !.state = "finalized"]
    OBVIOUS
  <2>2. new.state = "finalized" /\ new.job = row.job
    BY <2>1 DEF Row
  <2>3. ArchivedOK(r, new) /\ FinalOK(r, new)
    BY <1>1, <1>4, <2>2 DEF ArchivedOK, FinalOK, ProvenanceMatches
  <2> QED  BY <1>0, <1>1, <1>2, <1>3, <1>4, <2>1, <2>3, IdleCall, MoveKeeps DEF Leave, Later
<1>5. CASE Fail(r, "other")
  BY <1>1, <1>5, FailKeeps
<1> QED  BY <1>1, <1>4, <1>5 DEF VerifyProvenance

\* The archive of a row: nothing was funded, or it is settled or given back.
LEMMA RefundedKeeps ==
    ASSUME DemoInv, UNCHANGED <<chain, order, receipts>>, NEW r \in Runs,
           Refunded(r), NEW call \in Calls, at' = [at EXCEPT ![r] = call], call.pc = "idle",
           \/ runs[r].txs["fund"] = 0
           \/ runs[r].job # 0 /\ status[<<r, runs[r].job>>] \in {"rejected", "ended"}
    PROVE  DemoInv'
<1>1. PICK row \in Row : row = runs[r]
  BY InHand
<1>2. PICK new : new = [row EXCEPT !.state = "archived_refunded"]
  OBVIOUS
<1>3. new.state = "archived_refunded" /\ new.job = row.job /\ new.txs = row.txs
  BY <1>2 DEF Row
<1>4. ArchivedOK(r, new) /\ FinalOK(r, new)
  BY <1>1, <1>3 DEF ArchivedOK, FinalOK
<1>5. /\ "archived_refunded" \in States \ {"failed", "absent"} /\ "null" \in Operations
      /\ "archived_refunded" \in EarlyStates /\ "null" \in EarlyOps
      /\ "archived_refunded" \notin Later
  BY DEF States, TerminalStates, Operations, EarlyStates, EarlyOps, Later
<1> QED  BY <1>1, <1>2, <1>4, <1>5, MoveKeeps DEF Refunded

LEMMA ArchiveKeeps ==
    ASSUME DemoInv, NEW r \in Runs, ArchiveWithoutJob(r) \/ ReconcileArchive(r)
    PROVE  DemoInv'
<1>0. PICK row \in Row : row = runs[r]
  BY InHand
<1>1. /\ RowOK(row) /\ Backed(r, row) /\ at[r].pc # "idle" /\ at[r].run = row
      /\ row.state = "archived_refund_pending" /\ row.state \in Processable
      /\ UNCHANGED <<chain, order>>
  BY <1>0, InHand DEF ArchiveWithoutJob, ReconcileArchive, InState
<1>2. CASE ArchiveWithoutJob(r)
  <2>1. row.job = 0 /\ row.txs["fund"] = 0
    BY <1>1, <1>2 DEF ArchiveWithoutJob, RowOK
  <2>2. CASE /\ Made(r) # {}
             /\ Set(r, FindCreatedJob(runs[r], r)) /\ Leave(r)
             /\ UNCHANGED receipts
    <3>1. PICK new : new = FindCreatedJob(row, r)
      OBVIOUS
    <3>2. /\ new \in Row /\ new.job = 1 /\ new.state = row.state
          /\ new.recovery = row.recovery /\ new.op = row.op
      BY <2>2, <3>1, FoundRow
    <3>3. NeedsFunds(new) => NeedsFunds(row)
      BY <3>2 DEF NeedsFunds
    <3>4. RowOK(new) /\ Backed(r, new)
      BY <1>1, <3>2, <3>3, FoundBacked
    <3>5. runs' = [runs EXCEPT ![r] = new] /\ at' = [at EXCEPT ![r] = Idle]
      BY <1>0, <2>2, <3>1 DEF Set, Leave
    <3> QED  BY <1>1, <2>2, <3>2, <3>4, <3>5, IdleOK, RowStep
  <2>3. CASE AwaitReceipt(r, "createJob", FALSE)
    BY <1>1, <2>3, AwaitKeeps
  <2>4. CASE Refunded(r) /\ Leave(r) /\ UNCHANGED receipts
    BY <1>0, <1>1, <2>1, <2>4, IdleCall, RefundedKeeps DEF Leave
  <2> QED  BY <1>2, <2>2, <2>3, <2>4 DEF ArchiveWithoutJob
<1>3. CASE ReconcileArchive(r)
  <2>1. row.job # 0
    BY <1>1, <1>3 DEF ReconcileArchive
  <2>2. CASE Fail(r, "other") /\ UNCHANGED receipts
    BY <1>1, <2>2, FailKeeps
  <2>3. CASE /\ Rejected(<<r, row.job>>) \/ NeverFunded(row)
             /\ Refunded(r) /\ Leave(r) /\ UNCHANGED receipts
    BY <1>0, <1>1, <2>1, <2>3, IdleCall, RefundedKeeps DEF Leave, Rejected, NeverFunded
  <2>4. CASE AwaitReceipt(r, "fund", FALSE) \/ AwaitReceipt(r, "escrowRefund", TRUE)
    BY <1>1, <2>4, AwaitKeeps
  <2>5. CASE Leave(r) /\ UNCHANGED <<runs, receipts>>
    BY <1>1, <2>5, IdleOK, CallKeeps DEF Leave
  <2>6. CASE Send(r, "escrowRefund")
    <3>1. "escrowRefund" \in Keys
      BY DEF Keys
    <3> QED  BY <1>0, <1>1, <2>1, <2>6, <3>1, SendKeeps
  <2> QED  BY <1>1, <1>3, <2>2, <2>3, <2>4, <2>5, <2>6 DEF ReconcileArchive
<1> QED  BY <1>2, <1>3

-----------------------------------------------------------------------------
(* The operator.                                                           *)

\* A run that waits for its operator has no call in hand.
LEMMA NoCall ==
    ASSUME DemoInv, NEW r \in Runs, runs[r].state \notin Processable
    PROVE  at[r] \in Calls /\ at[r].pc = "idle" /\ at = [at EXCEPT ![r] = at[r]]
  BY InHand

LEMMA CreateRunKeeps ==
    ASSUME DemoInv, NEW r \in Runs, CreateRun(r)
    PROVE  DemoInv'
<1>0. PICK row \in Row : row = runs[r]
  BY InHand
<1>1. /\ RowOK(row) /\ Backed(r, row) /\ row.state = "absent" /\ row.job = 0
      /\ UNCHANGED <<chain, order, receipts, at>> /\ runs' = [runs EXCEPT ![r] = NewRun]
  BY <1>0, InHand DEF CreateRun, RowOK, outside, Set
<1>2. /\ NewRun.state = "queued" /\ NewRun.op = "initialize" /\ NewRun.recovery = "absent"
      /\ NewRun.job = 0 /\ NewRun.txs["fund"] = 0
  BY DEF NewRun, NoRow, Keys
<1>3. NewRun \in Row
  <2>1. NoRow \in Row
    BY NoRowOK
  <2>2. PICK none \in Row : none = NoRow
    BY <2>1
  <2>3. NewRun = [none EXCEPT !.state = "queued", !.op = "initialize"]
    BY <2>2 DEF NewRun
  <2>4. "queued" \in States /\ "initialize" \in Operations
    BY DEF States, Active, Operations
  <2> QED  BY <2>3, <2>4 DEF Row
<1>4. RowOK(NewRun) /\ ~NeedsFunds(NewRun)
  BY <1>2 DEF RowOK, EarlyOps, EarlyStates, NeedsFunds, Later
<1>5. Backed(r, NewRun)
  BY <1>1, <1>2, <1>4, Rebacked DEF TerminalStates
<1>6. at[r] \in Calls /\ at[r].pc = "idle" /\ at = [at EXCEPT ![r] = at[r]]
  BY <1>0, <1>1, NoCall DEF Processable, Active
<1>7. PICK held \in Calls : held = at[r]
  BY <1>6
<1>8. CallOK(r, held, NewRun)
  BY <1>6, <1>7 DEF CallOK
<1> QED  BY <1>1, <1>3, <1>4, <1>5, <1>6, <1>7, <1>8, RowStep

LEMMA PurchaseKeeps ==
    ASSUME DemoInv, NEW r \in Runs, Purchase(r)
    PROVE  DemoInv'
<1>1. /\ runs[r].state = "awaiting_purchase" /\ UNCHANGED <<chain, order, receipts, at>>
      /\ Transition(r, "purchasing_review", "purchase_review")
  BY DEF Purchase, outside
<1>2. RowOK(runs[r]) /\ NeedsFunds(runs[r]) /\ runs[r].job # 0
  BY <1>1, InHand, RowHasJob DEF NeedsFunds, Later
<1>3. at[r] \in Calls /\ at[r].pc = "idle" /\ at = [at EXCEPT ![r] = at[r]]
  BY <1>1, NoCall DEF Processable, Active
<1>4. "purchasing_review" \in Active /\ "purchase_review" \in Operations
  BY DEF Active, Operations
<1>5. PICK held \in Calls : held = at[r]
  BY <1>3
<1> QED  BY <1>1, <1>2, <1>3, <1>4, <1>5, GoesOn

LEMMA ArchiveByOperatorKeeps ==
    ASSUME DemoInv, NEW r \in Runs, Archive(r)
    PROVE  DemoInv'
<1>0. PICK row \in Row : row = runs[r]
  BY InHand
<1>1. /\ RowOK(row) /\ row.state \in {"failed", "awaiting_purchase"}
      /\ UNCHANGED <<chain, order, receipts, at>>
  BY <1>0, InHand DEF Archive, Archivable, outside
<1>2. at[r] \in Calls /\ at[r].pc = "idle" /\ at = [at EXCEPT ![r] = at[r]]
  BY <1>0, <1>1, NoCall DEF Processable, Active
<1>3. PICK held \in Calls : held = at[r]
  BY <1>2
<1>4. CASE row.job = 0 /\ Refunded(r)
  <2>1. row.txs["fund"] = 0
    BY <1>1, <1>4 DEF RowOK
  <2> QED  BY <1>0, <1>1, <1>2, <1>3, <1>4, <2>1, RefundedKeeps
<1>5. CASE Transition(r, "archived_refund_pending", "wait_for_refund_eligibility")
  <2>1. /\ "archived_refund_pending" \in Active \cup {"archived_refund_pending"}
        /\ "wait_for_refund_eligibility" \in Operations
        /\ "archived_refund_pending" \in EarlyStates /\ "archived_refund_pending" \notin Later
        /\ "wait_for_refund_eligibility" \in EarlyOps
    BY DEF Operations, EarlyStates, EarlyOps, Later
  <2> QED  BY <1>0, <1>1, <1>2, <1>3, <1>5, <2>1, GoesOn
<1> QED  BY <1>0, <1>4, <1>5 DEF Archive

LEMMA RecoveryIs ==
    ASSUME NEW op
    PROVE  /\ RecoveryOperation("queued", op) = "null"
           /\ RecoveryOperation("preparing_escrow", op) = IF op = "null" THEN "create_job" ELSE op
           /\ RecoveryOperation("awaiting_escalation", op) = "wait_for_escalation"
           /\ RecoveryOperation("purchasing_review", op) = "purchase_review"
           /\ RecoveryOperation("review_active", op) = "wait_for_review"
           /\ RecoveryOperation("archived_refund_pending", op) = "wait_for_refund_eligibility"
<1>1. RecoveryOperation("queued", op) = "null"
  BY Zenon DEF RecoveryOperation
<1>2. RecoveryOperation("preparing_escrow", op) = IF op = "null" THEN "create_job" ELSE op
  BY Zenon DEF RecoveryOperation
<1>3. RecoveryOperation("awaiting_escalation", op) = "wait_for_escalation"
  BY Zenon DEF RecoveryOperation
<1>4. RecoveryOperation("purchasing_review", op) = "purchase_review"
  BY Zenon DEF RecoveryOperation
<1>5. RecoveryOperation("review_active", op) = "wait_for_review"
  BY Zenon DEF RecoveryOperation
<1>6. RecoveryOperation("archived_refund_pending", op) = "wait_for_refund_eligibility"
  BY Zenon DEF RecoveryOperation
<1> QED  BY <1>1, <1>2, <1>3, <1>4, <1>5, <1>6

\* What is gone on with needs no more than what had failed.
LEMMA RecoveredOp ==
    ASSUME NEW rec \in Processable, NEW op \in Operations, NEW next,
           next = RecoveryOperation(rec, op)
    PROVE  /\ next \in Operations
           /\ next \in {"submit_deliverable", "wait_for_escalation", "purchase_review"} =>
                 rec \in Later \/ op = next
           /\ op \in EarlyOps /\ rec \in EarlyStates => next \in EarlyOps
<1> USE RecoveryIs DEF Operations, EarlyOps, EarlyStates, Later
<1>1. CASE rec = "queued"
  BY <1>1
<1>2. CASE rec = "preparing_escrow"
  BY <1>2
<1>3. CASE rec = "awaiting_escalation"
  BY <1>3
<1>4. CASE rec = "purchasing_review"
  BY <1>4
<1>5. CASE rec = "review_active"
  BY <1>5
<1>6. CASE rec = "archived_refund_pending"
  BY <1>6
<1> QED  BY <1>1, <1>2, <1>3, <1>4, <1>5, <1>6 DEF Processable, Active

LEMMA RetryKeeps ==
    ASSUME DemoInv, NEW r \in Runs, Retry(r)
    PROVE  DemoInv'
<1>0. PICK row \in Row : row = runs[r]
  BY InHand
<1>1. /\ RowOK(row) /\ Backed(r, row) /\ row.state = "failed" /\ row.recovery \in Processable
      /\ UNCHANGED <<chain, order, receipts, at>>
  BY <1>0, InHand DEF Retry, Retryable, outside, RowOK
<1>2. PICK rec : rec = IF HasOrder(r) /\ row.recovery = "purchasing_review"
                       THEN "review_active" ELSE row.recovery
  OBVIOUS
<1>3. PICK txs : txs = IF row.error = "reverted" THEN ClearTransaction(row) ELSE row.txs
  OBVIOUS
<1>4. PICK op : op = RecoveryOperation(rec, row.op)
  OBVIOUS
<1>5. PICK new : new = [row EXCEPT !.state = rec, !.op = op, !.error = "none", !.txs = txs]
  OBVIOUS
<1>6. runs' = [runs EXCEPT ![r] = new]
  BY <1>0, <1>2, <1>3, <1>4, <1>5 DEF Retry, Set
<1>7. /\ rec \in Processable /\ (rec \in Later <=> row.recovery \in Later)
      /\ row.recovery \in EarlyStates => rec \in EarlyStates
  BY <1>1, <1>2 DEF Processable, Active, Later, EarlyStates
<1>8. /\ op \in Operations
      /\ op \in {"submit_deliverable", "wait_for_escalation", "purchase_review"} =>
            rec \in Later \/ row.op = op
      /\ row.op \in EarlyOps /\ rec \in EarlyStates => op \in EarlyOps
  <2>1. row.op \in Operations
    BY DEF Row
  <2> QED  BY <1>4, <1>7, <2>1, RecoveredOp
<1>9. txs \in [Keys -> 0 .. MaxSends] /\ (row.txs["fund"] = 0 => txs["fund"] = 0)
  BY <1>3, DemoFacts DEF ClearTransaction, Row, Keys
<1>10. rec \in States \ (TerminalStates \cup {"failed", "absent"})
  BY <1>7 DEF Processable, States, Active, TerminalStates
<1>11. new \in Row
  BY <1>5, <1>8, <1>9, <1>10 DEF Row
<1>12. /\ new.state = rec /\ new.op = op /\ new.txs = txs /\ new.job = row.job
       /\ new.recovery = row.recovery
  BY <1>5 DEF Row
<1>13. RowOK(new)
  BY <1>1, <1>7, <1>8, <1>9, <1>10, <1>12 DEF RowOK
<1>14. Backed(r, new)
  <2>1. NeedsFunds(new) => NeedsFunds(row)
    BY <1>1, <1>7, <1>8, <1>10, <1>12 DEF NeedsFunds
  <2> QED  BY <2>1, <1>1, <1>10, <1>12, Rebacked
<1>15. at[r] \in Calls /\ at[r].pc = "idle" /\ at = [at EXCEPT ![r] = at[r]]
  BY <1>0, <1>1, NoCall DEF Processable, Active
<1>16. PICK held \in Calls : held = at[r]
  BY <1>15
<1>17. CallOK(r, held, new)
  BY <1>15, <1>16 DEF CallOK
<1> QED  BY <1>1, <1>6, <1>11, <1>13, <1>14, <1>15, <1>16, <1>17, RowStep

-----------------------------------------------------------------------------
(* What is lost.                                                           *)

LEMMA CallFailsKeeps ==
    ASSUME DemoInv, NEW r \in Runs, CallFails(r)
    PROVE  DemoInv'
  BY NoteKeeps, FailKeeps DEF CallFails

LEMMA CrashKeeps ==
    ASSUME DemoInv, Crash
    PROVE  DemoInv'
<1>1. UNCHANGED <<runs, order, chain, receipts>> /\ at' = [r \in Runs |-> Idle]
  BY DEF Crash
<1>2. WorldOK'
  BY <1>1, SameWorld DEF DemoInv
<1>3. DemoTypeOK'
  <2>1. at' \in [Runs -> Calls]
    BY <1>1, IdleOK
  <2> QED  BY <1>1, <1>2, <2>1 DEF DemoInv, DemoTypeOK, WorldOK, RouterInv, chain
<1>4. Onward
  BY <1>1 DEF Onward, Made, chain, routerVars, escrowVars
<1>5. ASSUME NEW r \in Runs PROVE RunOK(r)'
  <2>1. PICK row : row = runs[r]
    OBVIOUS
  <2>2. RowOK(row) /\ Backed(r, row)
    BY <2>1 DEF DemoInv, RunOK
  <2>3. RowOK(row)' /\ Backed(r, row)'
    BY <1>4, <2>1, <2>2, StaysBacked DEF RowOK
  <2>4. CallOK(r, Idle, row)'
    BY IdleCall DEF CallOK
  <2>5. runs'[r] = row /\ at'[r] = Idle
    BY <1>1, <2>1
  <2> QED  BY <2>3, <2>4, <2>5 DEF RunOK
<1> QED  BY <1>2, <1>3, <1>5 DEF DemoInv

-----------------------------------------------------------------------------
(* The chain, the judge, the review service and the reviewer.              *)

\* A step of the world that touches neither escrow nor receipts.
LEMMA RouterStepKeeps ==
    ASSUME DemoInv, UNCHANGED <<runs, at, escrow, allowance, lapsed, receipts>>, RouterInv', HumansDecide',
           order' = order \/ OrderMoves,
           \A j \in Jobs :
              /\ status[j] \in {"completed", "rejected", "ended"} => status'[j] = status[j]
              /\ status'[j] # "open" => status[j] # "open"
              /\ status'[j] = "submitted" => status[j] = "submitted",
           UNCHANGED lanes
    PROVE  DemoInv'
<1>1. /\ order' \in [Runs -> {"none", "charged", "active", "approved", "rejected", "refunded",
                             "stuck"}]
      /\ \A q \in Runs : order[q] \in {"approved", "rejected"} => order'[q] = order[q]
  BY DEF OrderMoves, DemoInv, DemoTypeOK
<1>2. Onward
  BY <1>1 DEF Onward, Made
<1>3. WorldInv'
  BY DEF DemoInv, WorldOK, WorldInv, Made
<1>4. DemoTypeOK'
  BY <1>1 DEF DemoInv, DemoTypeOK, RouterInv
<1> QED  BY <1>2, <1>3, <1>4, WorldKeeps DEF WorldOK

LEMMA ElapseKeeps ==
    ASSUME DemoInv, NEW r \in Runs, Elapse(r)
    PROVE  DemoInv'
<1>1. expired' \subseteq Jobs /\ UNCHANGED <<recordVars, lanes, config, owner, status, fees>>
  BY DemoAssumption DEF Elapse, DemoInv, DemoTypeOK, RouterTypeOK
<1>2. RouterInv' /\ HumansDecide'
  BY <1>1 DEF DemoInv, WorldOK, HumansDecide, recordVars, RouterInv, RouterTypeOK,
              RecordMatchesEscrow, HumanLaneHonoured, ProvenanceOfHumansOnly
<1> QED  BY <1>1, <1>2, RouterStepKeeps DEF Elapse

LEMMA OrderKeeps ==
    ASSUME DemoInv, NEW r \in Runs, ReviewMoves(r) \/ RetryReview(r)
    PROVE  DemoInv'
<1>1. PICK s \in {"active", "approved", "rejected", "refunded", "stuck"} :
          order[r] \notin {"approved", "rejected"} /\ order' = [order EXCEPT ![r] = s]
  BY DEF ReviewMoves, RetryReview, Exhausted
<1>2. OrderMoves
  BY <1>1 DEF OrderMoves, DemoInv, DemoTypeOK
<1>3. UNCHANGED <<runs, at, chain, receipts>>
  BY DEF ReviewMoves, RetryReview
<1>4. WorldOK'
  BY <1>3, SameWorld DEF DemoInv
<1> QED  BY <1>2, <1>3, <1>4, RouterStepKeeps DEF WorldOK, chain, routerVars, escrowVars

LEMMA DemoAccounts ==
    ASSUME DemoInv
    PROVE  /\ config.oracle \in Accounts /\ config.humanResolver \in Accounts
           /\ Word \in Evidence
<1>1. config \in Configs
  BY DEF DemoInv, DemoTypeOK, RouterTypeOK
<1> QED  BY <1>1, RouterAssumption, DemoAssumption

LEMMA JudgeKeeps ==
    ASSUME DemoInv, NEW j \in Jobs, JudgeActs(j)
    PROVE  DemoInv'
<1>1. lanes[j] = "HumanOnly" /\ Escalate(config.oracle, j, Word)
  BY DEF JudgeActs, DemoInv, WorldOK, WorldInv
<1>2. RouterInv'
  <2>1. PICK oracle \in Accounts : oracle = config.oracle
    BY DemoAccounts
  <2> QED  BY <1>1, <2>1, DemoAccounts, EscalateKeeps DEF DemoInv, WorldOK
<1>3. HumansDecide'
  BY <1>1 DEF Escalate, DemoInv, WorldOK, HumansDecide, DemoTypeOK, RouterTypeOK, AutoResolutions
<1>4. UNCHANGED <<lanes, status>>
  BY <1>1 DEF Escalate, escrowVars
<1> QED  BY <1>2, <1>3, <1>4, RouterStepKeeps DEF JudgeActs

LEMMA HumanKeeps ==
    ASSUME DemoInv, NEW r \in Runs, HumanVerdict(r)
    PROVE  DemoInv'
<1>1. PICK job : job = JobOf(r)
  OBVIOUS
<1>2. PICK approve \in BOOLEAN :
          HumanResolve(config.humanResolver, job, DemoClient, approve, 1, Word, Word)
  BY <1>1 DEF HumanVerdict
<1>3. job \in Jobs /\ status[job] = "submitted"
  BY <1>2, RouterAssumption DEF HumanResolve, CheckedJob
<1>4. RouterInv'
  <2>1. PICK a \in Accounts : a = config.humanResolver
    BY DemoAccounts
  <2> QED  BY <1>2, <1>3, <2>1, DemoFacts, DemoAccounts, HumanResolveKeeps DEF DemoInv, WorldOK
<1>5. HumansDecide'
  BY <1>2, <1>3 DEF HumanResolve, DemoInv, WorldOK, HumansDecide, DemoTypeOK, RouterTypeOK,
                    AutoResolutions
<1>6. /\ UNCHANGED lanes
      /\ \A j \in Jobs : status'[j] = IF j = job THEN IF approve THEN "completed" ELSE "rejected"
                                      ELSE status[j]
  BY <1>2, <1>3 DEF HumanResolve, Settle, DemoInv, DemoTypeOK, RouterTypeOK
<1>7. \A j \in Jobs :
          /\ status[j] \in {"completed", "rejected", "ended"} => status'[j] = status[j]
          /\ status'[j] # "open" => status[j] # "open"
          /\ status'[j] = "submitted" => status[j] = "submitted"
  BY <1>3, <1>6
<1> QED  BY <1>4, <1>5, <1>6, <1>7, RouterStepKeeps DEF HumanVerdict

-----------------------------------------------------------------------------
(* The transactions.                                                       *)

\* A transaction that leaves the pool, whatever its outcome.
Mined(t, outcome) ==
    /\ receipts[t] = "pool"
    /\ receipts' = [receipts EXCEPT ![t] = outcome]
    /\ UNCHANGED <<runs, at, order>>

\* What a mined transaction does to the escrow of its run, at most.
EscrowMoves(r, key) ==
    /\ escrow' \in [Jobs -> {"absent", "made", "priced", "funded"}] /\ allowance' \in {0, 1}
    /\ lapsed' \subseteq Jobs
    /\ \A j \in Jobs : escrow[j] = "funded" => escrow'[j] = "funded"
    /\ \A j \in Jobs :
          escrow'[j] = "funded" => escrow[j] = "funded" \/ (key = "fund" /\ j = JobOf(r))
    /\ \A q \in Runs : /\ \E k \in 0 .. MaxJobs : Made(q)' = 1 .. k
                       /\ Made(q) # {} => Made(q)' # {}
                       /\ Made(q)' # {} => Made(q) # {} \/ (key = "createJob" /\ q = r)

LEMMA MinedKeeps ==
    ASSUME DemoInv, NEW r \in Runs, NEW key \in Keys, NEW n \in 1 .. MaxSends,
           NEW outcome \in {"success", "reverted", "dropped"}, Mined(<<r, key, n>>, outcome),
           RouterInv', HumansDecide', NEW moved, EscrowMoves(r, moved),
           moved \in {"fund", "createJob"} => moved = key /\ outcome = "success",
           \A j \in Jobs :
              /\ lanes[j] = "HumanOnly" => lanes'[j] = "HumanOnly"
              /\ status[j] \in {"completed", "rejected", "ended"} => status'[j] = status[j]
              /\ status'[j] # "open" => escrow'[j] = "funded"
              /\ status'[j] = "submitted" => lanes'[j] = "HumanOnly"
    PROVE  DemoInv'
<1>1. <<r, key, n>> \in Tx /\ receipts \in [Tx -> {"none", "pool", "dropped", "success", "reverted"}]
  BY DemoFacts DEF DemoInv, DemoTypeOK
<1>2. /\ receipts' \in [Tx -> {"none", "pool", "dropped", "success", "reverted"}]
      /\ \A u \in Tx : receipts[u] = "success" => receipts'[u] = "success"
      /\ \A u \in Tx : receipts'[u] # "none" => receipts[u] # "none"
      /\ receipts'[<<r, key, n>>] = outcome
  BY <1>1 DEF Mined
<1>3. Onward
  <2>1. ASSUME NEW q \in Runs, NEW m \in 1 .. MaxJobs, escrow'[<<q, m>>] = "funded",
               escrow[<<q, m>>] # "funded"
        PROVE  m = runs[q].job /\ \E i \in 1 .. MaxSends : receipts'[<<q, "fund", i>>] = "success"
    <3>1. moved = "fund" /\ <<q, m>> = JobOf(r)
      BY <2>1, DemoFacts DEF EscrowMoves
    <3>2. q = r /\ m = runs[r].job
      BY <3>1 DEF JobOf
    <3> QED  BY <1>2, <3>1, <3>2
  <2>2. \A q \in Runs, k \in Keys, m \in 1 .. MaxSends :
            receipts'[<<q, k, m>>] # "none" => receipts[<<q, k, m>>] # "none"
    BY <1>2, DemoFacts
  <2>3. \A q \in Runs : order[q] \in {"approved", "rejected"} => order'[q] = order[q]
    BY DEF Mined
  <2>4. \A j \in Jobs : escrow[j] = "funded" => escrow'[j] = "funded"
    BY DEF EscrowMoves
  <2>5. \A q \in Runs : Made(q) # {} => Made(q)' # {}
    BY DEF EscrowMoves
  <2> QED  BY <1>2, <2>1, <2>2, <2>3, <2>4, <2>5 DEF Onward
<1>4. WorldInv'
  <2>1. ASSUME NEW q \in Runs
        PROVE  /\ \E k \in 0 .. MaxJobs : Made(q)' = 1 .. k
               /\ Made(q)' # {} =>
                     \E i \in 1 .. MaxSends : receipts'[<<q, "createJob", i>>] = "success"
    <3>1. \E k \in 0 .. MaxJobs : Made(q)' = 1 .. k
      BY DEF EscrowMoves
    <3>2. ASSUME Made(q) # {}
          PROVE  \E i \in 1 .. MaxSends : receipts'[<<q, "createJob", i>>] = "success"
      <4>1. PICK i \in 1 .. MaxSends : receipts[<<q, "createJob", i>>] = "success"
        BY <3>2 DEF DemoInv, WorldOK, WorldInv
      <4>2. <<q, "createJob", i>> \in Tx
        BY DemoFacts DEF Keys
      <4> QED  BY <1>2, <4>1, <4>2
    <3>3. Made(q)' # {} => Made(q) # {} \/ (moved = "createJob" /\ q = r)
      BY DEF EscrowMoves
    <3> QED  BY <1>2, <3>1, <3>2, <3>3
  <2> QED  BY <2>1 DEF WorldInv
<1>5. DemoTypeOK'
  BY <1>2 DEF DemoInv, DemoTypeOK, RouterInv, Mined, EscrowMoves
<1> QED  BY <1>3, <1>4, <1>5, WorldKeeps DEF WorldOK, Mined

LEMMA StillEscrow ==
    ASSUME DemoInv, NEW r \in Runs, NEW key, UNCHANGED <<escrow, allowance>>,
           lapsed' \subseteq Jobs
    PROVE  EscrowMoves(r, key)
  BY DEF EscrowMoves, Made, DemoInv, DemoTypeOK, WorldOK, WorldInv

LEMMA SameRouter ==
    ASSUME DemoInv, UNCHANGED routerVars
    PROVE  RouterInv' /\ HumansDecide'
  BY DEF DemoInv, WorldOK, HumansDecide, RouterInv, RouterTypeOK, RecordMatchesEscrow,
         HumanLaneHonoured, ProvenanceOfHumansOnly, routerVars, recordVars, escrowVars

LEMMA RevertedKeeps ==
    ASSUME DemoInv, NEW r \in Runs, NEW key \in Keys, NEW n \in 1 .. MaxSends,
           NEW outcome \in {"reverted", "dropped"}, Mined(<<r, key, n>>, outcome), UNCHANGED chain
    PROVE  DemoInv'
<1>0. lapsed' \subseteq Jobs
  BY DEF chain, DemoInv, DemoTypeOK
<1>1. EscrowMoves(r, "none") /\ RouterInv' /\ HumansDecide'
  BY <1>0, StillEscrow, SameRouter DEF chain
<1>2. \A j \in Jobs :
          /\ lanes[j] = "HumanOnly" => lanes'[j] = "HumanOnly"
          /\ status[j] \in {"completed", "rejected", "ended"} => status'[j] = status[j]
          /\ status'[j] # "open" => escrow'[j] = "funded"
          /\ status'[j] = "submitted" => lanes'[j] = "HumanOnly"
  BY DEF DemoInv, WorldOK, WorldInv, chain, routerVars, escrowVars
<1> QED  BY <1>1, <1>2, MinedKeeps

\* What the router keeps, for the transactions that do not call it.
LEMMA EscrowKeepsRouter ==
    ASSUME DemoInv, UNCHANGED routerVars, NEW r \in Runs, NEW key \in Keys, NEW n \in 1 .. MaxSends,
           Mined(<<r, key, n>>, "success"), EscrowMoves(r, key)
    PROVE  DemoInv'
<1>1. RouterInv' /\ HumansDecide'
  BY SameRouter
<1>2. \A j \in Jobs :
          /\ lanes[j] = "HumanOnly" => lanes'[j] = "HumanOnly"
          /\ status[j] \in {"completed", "rejected", "ended"} => status'[j] = status[j]
          /\ status'[j] # "open" => escrow'[j] = "funded"
          /\ status'[j] = "submitted" => lanes'[j] = "HumanOnly"
  BY DEF DemoInv, WorldOK, WorldInv, routerVars, escrowVars, EscrowMoves
<1> QED  BY <1>1, <1>2, MinedKeeps

\* The escrow of one job moves on, and the job stays the only one that does.
LEMMA JobMoves ==
    ASSUME DemoInv, NEW r \in Runs, NEW key, NEW j \in Jobs,
           escrow[j] \in {"made", "priced"}, NEW to \in {"priced", "funded"},
           escrow' = [escrow EXCEPT ![j] = to], allowance' \in {0, 1}, UNCHANGED lapsed,
           to = "funded" => key = "fund" /\ j = JobOf(r)
    PROVE  EscrowMoves(r, key)
<1>1. escrow \in [Jobs -> {"absent", "made", "priced", "funded"}] /\ lapsed' \subseteq Jobs
  BY DEF DemoInv, DemoTypeOK
<1>2. \A q \in Runs : Made(q)' = Made(q)
  BY <1>1, DemoFacts DEF Made
<1>3. \A q \in Runs : \E k \in 0 .. MaxJobs : Made(q)' = 1 .. k
  BY <1>2 DEF DemoInv, WorldOK, WorldInv
<1> QED  BY <1>1, <1>2, <1>3 DEF EscrowMoves

LEMMA CreateJobMoves ==
    ASSUME DemoInv, NEW r \in Runs, Succeeds(r, "createJob"), Effect(r, "createJob")
    PROVE  EscrowMoves(r, "createJob") /\ UNCHANGED routerVars
<1>1. PICK k \in 0 .. MaxJobs : Made(r) = 1 .. k
  BY DEF DemoInv, WorldOK, WorldInv
<1>2. Cardinality(Made(r)) = k
  <2>1. k \in Nat /\ 1 \in Int /\ k \in Int
    BY DemoFacts
  <2>2. Cardinality(1 .. k) = IF 1 > k THEN 0 ELSE k - 1 + 1
    BY <2>1, FS_Interval
  <2> QED  BY <1>1, <2>1, <2>2
<1>3. k + 1 \in 1 .. MaxJobs /\ <<r, k + 1>> \in Jobs
  BY <1>2, DemoFacts DEF Succeeds
<1>4. /\ escrow' = [escrow EXCEPT ![<<r, k + 1>>] = "made"]
      /\ UNCHANGED <<allowance, lapsed, routerVars>>
  BY <1>2 DEF Effect
<1>5. escrow[<<r, k + 1>>] = "absent"
  BY <1>1, <1>3, DemoFacts DEF Made
<1>6. /\ escrow \in [Jobs -> {"absent", "made", "priced", "funded"}] /\ allowance \in {0, 1}
      /\ lapsed \subseteq Jobs
  BY DEF DemoInv, DemoTypeOK
<1>7. Made(r)' = 1 .. (k + 1)
  <2>1. \A n \in 1 .. MaxJobs : escrow'[<<r, n>>] # "absent" <=> n \in 1 .. k \/ n = k + 1
    BY <1>1, <1>3, <1>4, <1>6, DemoFacts DEF Made
  <2> QED  BY <1>3, <2>1, DemoFacts DEF Made
<1>8. \A q \in Runs : q # r => Made(q)' = Made(q)
  BY <1>3, <1>4, <1>6, DemoFacts DEF Made
<1>9. ASSUME NEW q \in Runs
      PROVE  /\ \E m \in 0 .. MaxJobs : Made(q)' = 1 .. m
             /\ Made(q) # {} => Made(q)' # {}
             /\ Made(q)' # {} => Made(q) # {} \/ q = r
  <2>1. CASE q = r
    <3>1. k + 1 \in 0 .. MaxJobs /\ 1 \in 1 .. (k + 1)
      BY <1>3, DemoFacts
    <3> QED  BY <1>7, <2>1, <3>1
  <2>2. CASE q # r
    BY <1>8, <2>2 DEF DemoInv, WorldOK, WorldInv
  <2> QED  BY <2>1, <2>2
<1>10. \A j \in Jobs : escrow'[j] = "funded" <=> escrow[j] = "funded"
  BY <1>4, <1>5, <1>6
<1> QED  BY <1>3, <1>4, <1>6, <1>9, <1>10 DEF EscrowMoves

LEMMA MineKeeps ==
    ASSUME DemoInv, NEW r \in Runs, NEW key \in Keys, NEW n \in 1 .. MaxSends,
           Mine(<<r, key, n>>)
    PROVE  DemoInv'
<1>1. CASE /\ Mined(<<r, key, n>>, "reverted") /\ UNCHANGED chain
  BY <1>1, RevertedKeeps
<1>2. CASE Succeeds(r, key) /\ Effect(r, key) /\ Mined(<<r, key, n>>, "success")
  <2>0. PICK job : job = JobOf(r)
    OBVIOUS
  <2>1. key # "createJob" => job \in Jobs
    <3>1. PICK row : row = runs[r]
      OBVIOUS
    <3>2. RowOK(row) /\ SentOK(r, row)
      BY <3>1, InHand DEF Backed
    <3>3. receipts[<<r, key, n>>] # "none"
      BY <1>2 DEF Mined
    <3> QED  BY <2>0, <3>1, <3>2, <3>3, JobIs DEF JobOf, SentOK
  <2>2. key = "submit" => lanes[job] = "HumanOnly"
    <3>1. SentOK(r, runs[r]) /\ receipts[<<r, key, n>>] # "none"
      BY <1>2, InHand DEF Backed, Mined
    <3> QED  BY <2>0, <3>1 DEF SentOK, JobOf
  <2>3. CASE key = "createJob"
    BY <1>2, <2>3, CreateJobMoves, EscrowKeepsRouter
  <2>4. CASE key \in {"setBudget", "fund"}
    <3>1. PICK to \in {"priced", "funded"} :
              /\ escrow' = [escrow EXCEPT ![job] = to] /\ escrow[job] \in {"made", "priced"}
              /\ to = "funded" => key = "fund"
              /\ allowance' \in {0, 1} /\ UNCHANGED <<lapsed, routerVars>>
      BY <1>2, <2>0, <2>4 DEF Succeeds, Effect, DemoInv, DemoTypeOK
    <3>2. EscrowMoves(r, key)
      BY <2>0, <2>1, <2>4, <3>1, JobMoves
    <3> QED  BY <1>2, <3>1, <3>2, EscrowKeepsRouter
  <2>5. CASE key = "approval"
    <3>1. UNCHANGED <<escrow, lapsed, routerVars>> /\ allowance' = 1
      BY <1>2, <2>5 DEF Effect
    <3>2. EscrowMoves(r, key)
      BY <3>1 DEF EscrowMoves, Made, DemoInv, DemoTypeOK, WorldOK, WorldInv
    <3> QED  BY <1>2, <3>1, <3>2, EscrowKeepsRouter
  <2>6. CASE key \in {"setLane", "submit", "escrowRefund"}
    <3>0. UNCHANGED <<escrow, allowance>> /\ lapsed' \subseteq Jobs
      BY <1>2, <2>0, <2>1, <2>6 DEF Effect, DemoInv, DemoTypeOK
    <3>1. UNCHANGED <<escrow, allowance>> /\ EscrowMoves(r, "none") /\ job \in Jobs
      BY <2>1, <2>6, <3>0, StillEscrow
    <3>2. /\ RouterInv
          /\ \A j \in Jobs : status[j] # "open" => escrow[j] = "funded"
          /\ \A j \in Jobs : status[j] = "submitted" => lanes[j] = "HumanOnly"
      BY DEF DemoInv, WorldOK, WorldInv
    <3>3. CASE key = "setLane"
      <4>1. SetLane(DemoClient, job, "HumanOnly")
        BY <1>2, <2>0, <3>3 DEF Effect
      <4>2. RouterInv'
        BY <3>1, <3>2, <4>1, DemoFacts, SetLaneKeeps DEF Lanes
      <4>3. /\ UNCHANGED <<resolutions, status>>
            /\ \A j \in Jobs : lanes'[j] = IF j = job THEN "HumanOnly" ELSE lanes[j]
        BY <3>1, <4>1 DEF SetLane, recordVars, escrowVars, DemoInv, DemoTypeOK, RouterTypeOK
      <4>4. HumansDecide'
        BY <4>3 DEF DemoInv, WorldOK, HumansDecide
      <4>5. \A j \in Jobs :
              /\ lanes[j] = "HumanOnly" => lanes'[j] = "HumanOnly"
              /\ status[j] \in {"completed", "rejected", "ended"} => status'[j] = status[j]
              /\ status'[j] # "open" => escrow'[j] = "funded"
              /\ status'[j] = "submitted" => lanes'[j] = "HumanOnly"
        BY <3>1, <3>2, <4>3
      <4> QED  BY <1>2, <3>1, <4>2, <4>4, <4>5, MinedKeeps
    <3>4. CASE key \in {"submit", "escrowRefund"}
      <4>1. EscrowStep(job) /\ escrow[job] = "funded" /\ status[job] \in {"open", "submitted"}
        BY <1>2, <2>0, <3>4 DEF Effect, Succeeds, EscrowStep
      <4>2. RouterInv' /\ UNCHANGED <<recordVars, lanes>>
        BY <3>1, <3>2, <4>1, EscrowKeeps
      <4>3. PICK s \in {"submitted", "ended"} :
                /\ \A j \in Jobs : status'[j] = IF j = job THEN s ELSE status[j]
                /\ s = "submitted" => key = "submit"
        BY <1>2, <2>0, <3>1, <3>4
           DEF Effect, SubmitDeliverable, ClaimRefund, DemoInv, DemoTypeOK, RouterTypeOK
      <4>4. HumansDecide'
        BY <4>2 DEF DemoInv, WorldOK, HumansDecide, recordVars
      <4>5. \A j \in Jobs :
              /\ lanes[j] = "HumanOnly" => lanes'[j] = "HumanOnly"
              /\ status[j] \in {"completed", "rejected", "ended"} => status'[j] = status[j]
              /\ status'[j] # "open" => escrow'[j] = "funded"
              /\ status'[j] = "submitted" => lanes'[j] = "HumanOnly"
        BY <2>2, <3>1, <3>2, <4>1, <4>2, <4>3
      <4> QED  BY <1>2, <3>1, <4>2, <4>4, <4>5, MinedKeeps
    <3> QED  BY <2>6, <3>3, <3>4
  <2> QED  BY <2>3, <2>4, <2>5, <2>6 DEF Keys
<1> QED  BY <1>1, <1>2 DEF Mine, Mined

LEMMA DropKeeps ==
    ASSUME DemoInv, NEW r \in Runs, NEW key \in Keys, NEW n \in 1 .. MaxSends,
           Drop(<<r, key, n>>)
    PROVE  DemoInv'
  BY RevertedKeeps DEF Drop, Mined

-----------------------------------------------------------------------------

LEMMA SameAll == DemoInv /\ UNCHANGED demoVars => DemoInv'
<1> SUFFICES ASSUME DemoInv, UNCHANGED demoVars PROVE DemoInv'
  OBVIOUS
<1>1. /\ UNCHANGED <<runs, at, order, escrow, allowance, lapsed, receipts, faults>>
      /\ UNCHANGED routerVars
  BY DEF demoVars
<1>2. UNCHANGED <<runs, at, order, chain, receipts>>
  BY <1>1 DEF chain
<1>3. WorldOK'
  BY <1>2, SameWorld DEF DemoInv
<1>4. Onward
  BY <1>1 DEF Onward, Made, routerVars, escrowVars
<1>5. DemoTypeOK'
  BY <1>1, <1>3 DEF DemoInv, DemoTypeOK, WorldOK, RouterInv
<1> QED  BY <1>1, <1>3, <1>4, <1>5, WorldKeeps

LEMMA DemoStep == DemoInv /\ [Next]_demoVars => DemoInv'
<1> SUFFICES ASSUME DemoInv, [Next]_demoVars PROVE DemoInv'
  OBVIOUS
<1>1. ASSUME NEW r \in Runs, Step(r) PROVE DemoInv'
  BY <1>1, LookKeeps, PreparationKeeps, RecordKeeps, EscalationKeeps, PayKeeps, AttachKeeps,
     ReviewKeeps, VerifyKeeps, ArchiveKeeps DEF Step
<1>2. ASSUME NEW r \in Runs, Operator(r) PROVE DemoInv'
  BY <1>2, CreateRunKeeps, PurchaseKeeps, OrderKeeps, RetryKeeps, ArchiveByOperatorKeeps
     DEF Operator
<1>3. ASSUME NEW r \in Runs, CallFails(r) \/ Elapse(r) \/ ReviewMoves(r) \/ HumanVerdict(r)
      PROVE DemoInv'
  BY <1>3, CallFailsKeeps, ElapseKeeps, OrderKeeps, HumanKeeps
<1>4. ASSUME NEW t \in Tx, Mine(t) \/ Drop(t) PROVE DemoInv'
  <2>1. PICK r \in Runs, key \in Keys, n \in 1 .. MaxSends : t = <<r, key, n>>
    BY DEF Tx
  <2> QED  BY <1>4, <2>1, MineKeeps, DropKeeps
<1>5. ASSUME NEW j \in Jobs, JudgeActs(j) PROVE DemoInv'
  BY <1>5, JudgeKeeps
<1>6. CASE Crash
  BY <1>6, CrashKeeps
<1>7. CASE UNCHANGED demoVars
  BY <1>7, SameAll
<1> QED  BY <1>1, <1>2, <1>3, <1>4, <1>5, <1>6, <1>7 DEF Next

(***************************************************************************)
(* The inductive invariant: at every moment every row is backed by the     *)
(* chain, and every call in hand works with the row as it is.              *)
(***************************************************************************)
THEOREM DemoInvariance == Spec => []DemoInv
  BY InitDemoInv, DemoStep, PTL DEF Spec

(***************************************************************************)
(* Neither an overlapping sweep nor an operator's retry or archive writes  *)
(* a row that a step has read and not yet written.                         *)
(***************************************************************************)
THEOREM OneWriter == Spec => []NobodyElseWrites
<1>1. DemoInv => NobodyElseWrites
  BY DEF DemoInv, NobodyElseWrites, RunOK, CallOK
<1> QED  BY <1>1, DemoInvariance, PTL

(***************************************************************************)
(* For any number of runs, sends and faults: prepared means funded, the    *)
(* judge settles no job of the demo, and finalized means settled.          *)
(***************************************************************************)
THEOREM TheTruth == Spec => []RunsTellTheTruth
<1>1. ASSUME DemoInv PROVE PreparedMeansFunded
  <2>1. ASSUME NEW r \in Runs,
               runs[r].op \in {"submit_deliverable", "wait_for_escalation", "purchase_review"}
        PROVE  escrow[JobOf(r)] = "funded"
    BY <1>1, <2>1 DEF DemoInv, RunOK, Backed, NeedsFunds, JobOf
  <2> QED  BY <2>1 DEF PreparedMeansFunded
<1>2. ASSUME DemoInv PROVE FinalizedMeansSettled
  BY <1>2 DEF DemoInv, RunOK, Backed, FinalOK, FinalizedMeansSettled, JobOf
<1>3. DemoInv => RunsTellTheTruth
  BY <1>1, <1>2 DEF RunsTellTheTruth, DemoInv, WorldOK
<1> QED  BY <1>3, DemoInvariance, PTL

(***************************************************************************)
(* However jobs, funds, crashes and retries interleave: unless the hash of *)
(* a funding transaction was lost, no budget of an archived run is in the  *)
(* escrow or may still get there.                                          *)
(***************************************************************************)
THEOREM NothingLeftBehind == Spec => []ArchivedUnlessFundLost
<1>1. ASSUME DemoInv, NEW r \in Runs, runs[r].state = "archived_refunded", Held(r)
      PROVE  UnrecordedFund(r)
  <2>1. PICK row : row = runs[r]
    OBVIOUS
  <2>2. RowOK(row) /\ FundedOK(r, row) /\ ArchivedOK(r, row)
    BY <1>1, <2>1 DEF DemoInv, RunOK, Backed
  <2>3. \A j \in Jobs : status[j] # "open" => escrow[j] = "funded"
    BY <1>1 DEF DemoInv, WorldOK, WorldInv
  <2>4. PICK n \in 1 .. MaxSends : /\ receipts[<<r, "fund", n>>] \in {"pool", "success"}
                                   /\ row.txs["fund"] = 0
    <3>1. CASE \E m \in 1 .. MaxJobs : /\ escrow[<<r, m>>] = "funded"
                                       /\ status[<<r, m>>] \in {"open", "submitted"}
      <4>1. PICK m \in 1 .. MaxJobs : /\ escrow[<<r, m>>] = "funded"
                                      /\ status[<<r, m>>] \in {"open", "submitted"}
        BY <3>1
      <4>2. m = row.job /\ row.txs["fund"] = 0
        BY <1>1, <2>1, <2>2, <4>1 DEF FundedOK, ArchivedOK
      <4> QED  BY <2>2, <4>1, <4>2 DEF FundedOK
    <3>2. CASE \E m \in 1 .. MaxSends :
                  receipts[<<r, "fund", m>>] = "pool" /\ Succeeds(r, "fund")
      <4>1. escrow[<<r, row.job>>] = "priced"
        BY <2>1, <3>2 DEF Succeeds, JobOf
      <4>2. row.job # 0 => status[<<r, row.job>>] = "open"
        BY <2>2, <2>3, <4>1, JobIs
      <4>3. row.txs["fund"] = 0
        BY <1>1, <2>1, <2>2, <4>2 DEF ArchivedOK
      <4> QED  BY <3>2, <4>3
    <3> QED  BY <1>1, <3>1, <3>2 DEF Held
  <2> QED  BY <2>1, <2>4 DEF UnrecordedFund
<1>2. DemoInv => ArchivedUnlessFundLost
  BY <1>1 DEF ArchivedUnlessFundLost
<1> QED  BY <1>2, DemoInvariance, PTL
=============================================================================
