# Verification of the marketplace

TLA+ modules, TLC configurations and TLAPS proofs for this repository: a marketplace in
which an order's money is held by a contract until it is divided, and a paid service in
which a human reviewer decides a job's outcome. A module names the source it models in
its header, and `PROJECT.json` maps every definition to the lines it stands for.

To repeat a run, `tlc -config <run>.cfg <module>.tla` with the module `PROJECT.json` names
for it; to repeat the proofs, `tlapm <module>.tla` for the eight modules whose names end in
`Proofs`.

1. [Inventory](#1-inventory)
2. [The marketplace contracts](#2-the-marketplace-contracts)
3. [A paid review order](#3-a-paid-review-order)
4. [Buying a review](#4-buying-a-review)
5. [The Telegram workflow](#5-the-telegram-workflow)
6. [Router and judge](#6-router-and-judge)
7. [The demo runner](#7-the-demo-runner)
8. [The dashboard's index](#8-the-dashboards-index)
9. [Where code and texts differ](#9-where-code-and-texts-differ)
10. [What is proved, and what is only model-checked](#10-what-is-proved-and-what-is-only-model-checked)
11. [Not modelled, and what is left](#11-not-modelled-and-what-is-left)

## 1. Inventory

The final product is `packages/escrow-contracts/` with its web application `app/`. `core/`
and `contracts/` are an earlier checkpoint that is still built, tested and documented, and
carry most of the concurrent code.

| Component | State it keeps | Operations | Talks to | Part |
|---|---|---|---|---|
| `EscrowV1.sol` (one clone per order) | state, resolution, parties, amount, durations and deadlines, dispute record, evidence flag | initialize, depositFunds, fundWithAuthorization, cancelOffer, submitDelivery, releaseFunds, refundBuyer, timeoutRefund, finalize, raiseDispute, submitCounterEvidence, resolveDispute | token, panel, fee router | 2 |
| `EscrowFactory.sol` | isEscrow, the immutable wiring | createEscrow | clones | 2 |
| `FeeRouter.sol` | none (immutable rate and treasury) | distribute | token | 2 |
| `DisputePanel.sol` | factory, cases, commitments, reveals | setFactory, open, commit, reveal, execute | clone, factory, registry | 2 |
| `ArbiterRegistry.sol` | listed reviewers and their number | setArbiter | - | 2 |
| `ReputationRegistryV0.sol` | attested orders, score per account | attest | factory, clones | 2 |
| Review orders: `core/src/review/processor.ts`, `database.ts`, `circle.ts`; `core/src/reviewer-cli.ts` | order row, assignments, Circle requests and attempts, requests' journal, reviewers' table; a mutex in memory | processOrder: dispatch, pay the reviewer, settle, refund; claim, verdict, timeouts; add, enable, disable a reviewer | Circle, Arc RPC, Telegram | 3 |
| Purchases: `gateway.ts`, `app.ts`, `database.ts`, `review-server.ts` | reservation rows; the cached treasury balance | validate, reserve, admit, verify, settle, promote, release; reconcile | x402 Gateway, Arc RPC | 4 |
| Telegram workflow: `app.ts`, `telegram.ts`, `telegram-prompt-store.ts` | update ledger, verdict prompts | webhook; claim, decide, reply, commands | reviewers, the order's row | 5 |
| `contracts/src/EvaluationRouter.sol` | lane, resolution, evidence and provenance per job, configuration, owner | setLane, submitAIVerdict, escalate, humanResolve, setters, sweep | the external job contract | 6 |
| Judge worker: `index.ts`, `watcher.ts`, `validate.ts`, `submit.ts`, `evidence-publisher.ts` | cursor on disk | poll, judge, gate, publish, submit, stop | router, job contract, model, evidence store | 6 |
| Demo runner: `demo.ts`, `demo-repository.ts`, `demo-chain.ts` | runs with state, operation and transaction hashes; who is processing what | create, process, retry, archive, purchase | job contract, router, purchase route | 7 |
| Dashboard: `dashboard-snapshot.ts` | one row: feed, queue, indexed head, status | refresh, stop | Arc RPC | 8 |
| Web application, configuration, command line tools, deployment scripts | none that outlives a request | rendering, forms, one-off calls | everything above | 11 |

What is hard about it, and what has to be true of it:

- **Escrow.** Six functions, the panel and the council all end in `_settle`; transfers can
  fail half way; strangers can send tokens to a clone; deadlines meet at their
  boundaries; an addition to a `uint64` may overflow. A live clone holds its amount, a
  resolved one has paid exactly its amount once, its outcome is final, and no silence of any
  party locks the money.
- **Panel.** Commitments are public before they are opened and the registry of reviewers
  changes while a case runs. A case is decided by its opened seals, each counted once, and
  nobody commits with a vote on the table.
- **Reputation.** Anyone attests, at any time and in any order. Each order counts once.
- **Review orders.** A process that may crash at any `await` moves money through a remote
  service that may answer late, twice or never. The reviewer is paid at most once, the job
  is resolved or the payer refunded but never both, an order ends, and nobody with a part in
  the job decides it, although the table of reviewers is edited from another process.
- **Purchases.** Requests interleave at their `await`s, buyers hang up and retry, and a
  payment may have been taken although the answer was lost. What was charged becomes exactly
  one order and is never charged again; what was not never blocks its job; and the treasury
  can pay for what it admits.
- **Telegram.** Updates come repeated, reordered and to several handlers at a time. Each is
  dealt with, none by two at once, and the verdict recorded is what the reviewer meant.
- **Router and judge.** A job is settled once, on the lane it is in, although oracle, human,
  owner and expiry race for it; the judge's cursor passes no undecided job through
  crashes, retries and lost transactions.
- **Demo.** Every transaction may be lost with its hash or without. A run says only what is
  true on chain and does not wait for what will not come.
- **Dashboard.** One row is put together from reads at different blocks. Feed and queue
  agree, no job that waits for a human is missing, and the index heals after failures.

`PROJECT.json` lists the hazards of all of these at their lines, with the properties that
would catch each.

A property may be a conjunction of named parts, each with its own comment, where the parts
answer one question; TLC checks them together and the theorems treat them one by one.
Operators marked `fault:` are wrong versions of the definition below them. No
specification uses them; replacing the definition by its faulty version breaks the
property that watches over it, which `PROJECT.json` lists under `mutants`.

## 2. The marketplace contracts

The modules form one chain of `EXTENDS`, in the order of the calls; a module owns the
variables of one contract, and an action that a call runs through several contracts is
put together where all of them are in scope.

| Module | Code | Content |
|---|---|---|
| `Token` | the ERC-20 token, block time (external) | balances, frozen accounts, `now`, checked `uint64` deadlines |
| `FeeRouter` | `FeeRouter.sol`, payout part of `EscrowV1._settle` | `Fee`, `Distribute`, `PayoutOf`: pure arithmetic |
| `ArbiterRegistry` | `ArbiterRegistry.sol` | the listed reviewers |
| `DisputePanel` | `DisputePanel.sol` | cases, commitments, reveals |
| `EscrowV1` | `EscrowV1.sol` | one action per external function; `Execute` is the panel's `execute`, whose last step is the clone's `resolveDispute` |
| `EscrowFactory` | `EscrowFactory.sol` | `CreateEscrow` |
| `ReputationRegistry` | `ReputationRegistryV0.sol` | `Attest` |
| `Marketplace` | the deployment | `Init`, `Next`, fairness, all properties |
| `EscrowPromise` | - | the abstract escrow: offered, held, divided once or lapsed |
| `MCMarketplace` | - | instances, symmetry |
| `MarketplaceProofs` | - | theorems about an order's money, the supply, the disputes, the scores, the promise and the ways out, in this order |

How state and actions correspond to the code:

- A transaction is atomic: a revert anywhere in a call is an action that is not enabled.
  The checks of a call are conjuncts in the order of the code.
- `balance` is the token's ledger. `paidOut` and `donated` repeat what the chain's
  `Resolved` and `Transfer` logs say of a clone; no guard reads them.
- The token is more general than USDC: a pull may deliver less than asked for (`Skims`),
  which is what the balance check of `_finishFunding` is there for, and its issuer may
  freeze accounts (`Freezable`), which makes every transfer from or to them revert.
- A commitment is the triple of escrow, reviewer and vote that its hash binds, the salt
  being secret; it can be copied by another reviewer, and opened only by its own.
- Block time is a number; any number of transactions share a block.
- Left out: identity and service hashes, the content of evidence, events, the signature
  check of an authorization, ownership transfers (each owner is one actor). They decide
  nothing the properties tell apart.

### Runs

| Run | Bounds | What it shows |
|---|---|---|
| `lifecycle` | 1 order, 2 parties, 2 reviewers of whom one is listed at first, block times 1 to 7, amount 3, fee 50 %, short pulls, review windows of 1 and of 9, which overflows the model's `MaxUint64` | Every path of one order. `LedgersAgree` (custody, payment to the last unit, supply), `OutcomeIsFinal`, the refinement of `EscrowPromise`, and liveness: `NoSilenceLocks`, of which `DueCallsPass` says that no call that is due reverts. |
| `dispute` | 1 order, 3 reviewers, block times 1 to 4, a treasury that may be frozen | All commit, copy and reveal orders, with reviewers delisted and relisted at any point and a council that may act before the windows end: `TallyMatchesSeals`, `VerdictIsTheTally`, and `PhasesInOrder`: seals come before votes, and evidence before seals, except in the one instant that both windows include (see below). |
| `two_orders` | 2 orders between the same parties, one donated token, disputes without reviewers | Settlement and attestation in any order; clones keep to their own money, scores count each order once. |

Why the bounds are enough: a clone's storage is independent of the other clones, and
what clones share (balances, a party's score, the panel's mappings) is met by two orders;
odd amounts and a fee of one half make every rounding happen (3 splits into 1 and 2, of
which the fee is 1; 1 into 0 and 1, of which the fee is 0); every window is the shortest that
can be told from zero, so that every boundary is met with the clock before, on and after it;
the panel's quorum is 3 of 3. The theorems below drop the bounds. Deadlock is not checked: a
finished instance of the model stops.

`FairSpec` assumes that time passes, and that a call which stays possible is made in the end
when *anyone* may make it and somebody gains by it (`cancelOffer`, `timeoutRefund`,
`finalize`, `execute`). Nobody is assumed to deliver, release, refund, dispute, vote or use
the council. Liveness holds where no account is frozen: with a frozen payee the code, by
design, cannot settle, and only a resolution that does not pay that account can.

### The instant that two windows share

`submitCounterEvidence` is open up to and including `counterEvidenceDeadline`
(`EscrowV1.sol:240`), and `commit` from `commitStart` on (`DisputePanel.sol:116`), the same
instant. `docs/submission/demo-beat-sheet.md:57` has the evidence first and the votes
"then". Within the block of that instant a vote can be sealed before the evidence arrives;
`PhasesInOrder` excludes just this instant, and TLC finds it violated when it does not.

### Theorems

Assumptions are the named `ASSUME`s of the modules: finitely many accounts, in sets as the
deployment keeps them apart, positive durations, a fee of at most 100 %. They hold for every
number of orders, parties and reviewers, every amount and every fee.

- `TypeCorrect` by induction; the delicate part is that no balance falls below zero and the
  tallies stay numbers.
- `CustodyHolds` and `PaymentExact` from `MoneyInv == Custody /\ PaidInFull`. Neither is
  inductive alone: that a settlement pays exactly the amount needs that nothing was paid
  before, and that the clone then holds nothing needs that it held the amount. `PayoutFacts`
  carries the arithmetic (three parts add up to the amount for every resolution, fee within
  its rate), `ClonesApart` that a payee is never a clone.
- `OutcomeFinal`: `RESOLVED` and `EXPIRED` are closed under every action, and a case is not
  executed after its clone is.
- `TalliesExact` and `VerdictExact` from `DisputeInv`: tallies equal the
  numbers of opened seals; an opened seal was a seal (`ShownWereSealed`); a shown vote means
  the commit window is over (`ShownAfterCommits`), which with time only growing closes
  `commit` for good; an executed case has settled its clone with the outcome of its tallies
  (`ExecutedIsSettled`). The tally alone would not be inductive: a reveal after the execution
  would change what the executed outcome is compared with.
- `PhasesKeepOrder` from `DisputeInv` and `WindowsInv`. That no seal moves after a vote was
  shown is `ShownAfterCommits` again. That no evidence follows a seal needs two facts of the
  windows: the commit window begins in the last instant of the evidence window
  (`WindowsMeet`), and whoever committed did so from then on (`CommitsBegan`).
- `ContractsKeepPromise`: every transaction is one step of `EscrowPromise` or none. A clone
  moves through `LOCKED`, `SUBMITTED` and `DISPUTED` without the promise noticing; a
  settlement is a `Divide`, which needs `MoneyInv` again: the log shows the whole division
  because nothing was paid before (`SettleDivides`).
- `ScoresExact` from `ScoreInv`: `disputedAt` is set exactly where the panel opened a case,
  attested orders are `RESOLVED` and finitely many, and each score is the cardinality of its
  set of orders; an attestation adds one element to each of its sets.

- `LedgersAlwaysAgree` adds the supply: the balances of all accounts sum up to what the parties
  began with. The sum is a fold, which no induction theorem of the library reaches, so it is
  counted instead. `Units` is the set of pairs of an account and a number below its balance,
  and `Total` its cardinality; `SumIsTotal` shows that the fold yields it, by taking a
  smallest finite set of accounts on which it would not. A transfer moves pairs from one
  account to another (`TotalMoved`, `TotalPaid`), and no set of them grows or shrinks.
- `NoOrderIsStuck`: in every reachable state a `cancelOffer`, `timeoutRefund`, `finalize` or
  `execute` that is due meets every condition the contracts check (`Accepted`), so that it
  cannot revert. It rests on the custody of the clone, and on a disputed clone having a case
  that was opened and not executed (`DisputedIsOpened`, `DisputedHasCase`).
- `SilenceEnds`: in every stage a passed deadline is followed by the settlement, or by the next
  stage. `WF` speaks of `ENABLED`, which the proof system cannot expand; the hypothesis
  `CallsAreSent` is the same fairness with the condition of the call written out
  (`TimeoutDue`, `ExecuteDue`), and `DueCallsPass`, which TLC checks in `lifecycle`, says that
  the condition implies `ENABLED`. What is due stays due until the order moves (`StillDue`),
  since its deadlines do not change and time only grows.

That time reaches every deadline, the rest of `NoSilenceLocks`, is an induction over time and
stays with TLC.

## 3. A paid review order

The sponsor has paid for a human review of an escrowed job; the service finds a reviewer,
takes the verdict, pays the reviewer through Circle, has Circle call `humanResolve`, or
gives the sponsor the fee back. All its money moves through a remote service, and the process
may die at any `await`.

| Module | Code | Content |
|---|---|---|
| `ReviewRail` | Circle, the job on Arc, wall clock (external); `chain.ts`, the expiry windows of `processor.ts` and `config.ts`, the reviewers' table of `database.ts` | one transaction per idempotency key, the job's end, `Validation`, `Eligible` |
| `ReviewDatabase` | `core/src/review/database.ts` | the order's row, assignments, keys, attempts and journal; an operator per database transaction |
| `ReviewProcessor` | `processor.ts`, `circle.ts`, the claim and verdict handlers of `telegram.ts`, the resume route of `app.ts`, `reviewer-cli.ts` | `processOrder` step by step, everybody else, fairness, properties |
| `ReviewPromise` | - | the abstract review: paid once for a verdict, then resolved or refunded, never both |
| `MCReview` | - | instances |
| `ReviewProofs` | - | theorems |

How state and actions correspond to the code:

- Orders are independent of each other but for the treasury's balance, which is not modelled;
  the model is one order from `createOrder` on.
- `pc` is where `processOrder` stands. An action runs from one stopping point to the next,
  a stopping point being an `await` or the end of a database transaction: at an `await`
  reviewers, operator, Circle and time may act; between two transactions without an `await`
  nothing of the process runs (`Awaiting`), but a crash may fall there.
- The database survives a crash; `pc`, `held` (the key in the order object that `payReviewer`,
  `settle` or `refund` read), `toOffer` and `sent` do not: they are local to a call, and
  `Return` and `Crash` drop them. The set `processing` is `pc # Idle`.
- A key is a number, drawn in order. Circle's transaction for it goes from `pending` to
  `complete` or `failed` and stays there. A request may reach Circle at any time after it was
  journaled, also when the process that sent it is gone; a request sent twice under a key is
  one transaction. `complete` stands for `COMPLETE` with a hash; `STUCK` and every other
  state is `pending`.
- Time is the order's milestones: SLA, payout window, settlement window, expiry. The
  configuration keeps them in this order (`config.ts:242-253`). A job that had just enough time
  left when it was validated and a little less when its order was created is `tight`: the
  dispatch check refuses it.
- `registry` is the reviewers' table. An address is reduced to what the code compares it for:
  whether it belongs to a party of the job. `ReviewerTool` is the command line tool, a
  process of its own, which may add, disable, enable or re-address a reviewer between any two
  steps. The table is read when offers are made (`Eligible`) and once more when one is
  accepted (`StillEligible`); the claim copies the address into the order's row (`payee`),
  and the payout goes to that copy. Nothing ties a purchase to the table, so the order may
  find any of the tables in the constant `Rosters`.
- `dispatch` returns early in two ways, which are actions of their own: nobody is eligible
  (`NobodyToAsk`), or the job cannot be validated for the moment (`NotReviewable`).
- `CallFails`, `Crash` and edits of the reviewers' table are bounded together, by
  `MaxFaults`; a transaction that Circle fails is not a fault and happens freely.
- Left out: contents of evidence, events and messages; partial configuration (no Circle, no
  Telegram); how a claim or a verdict arrives, which is part 5.

| Run | Bounds | What it shows |
|---|---|---|
| `review` | 2 reviewers, 2 dispatches, 2 attempts, 3 keys per operation, a table with everybody enabled or everybody disabled, 1 fault, jobs reclaimed in status 4 or 5 | `MoneyGoesOneWay` (with the types: a key given up has failed, a refund and a resolution are never both on their way), `BooksMatchCircle`, `ClaimIsExclusive` (one holder, and no party to the job ever holds or is paid), the refinement of `ReviewPromise`, and `NobodyWaits`. |
| `reclaimed_job` | 1 reviewer, no fault, jobs reclaimed in status 5 | Finding, see below. |

Why the bounds are enough: with two attempts and three keys a key is rotated by the worker
and, after the cap, by the operator. Two dispatches are the first and the last. Two
reviewers compete for one claim. A fault can fall on every step of every path and leaves
nothing behind but the durable state, from which the sweep starts over.

`FairSpec` assumes that the worker's sweep comes round, that Circle acts on what it was sent
and ends what it accepted, and that time passes. Faults end at some point. It assumes
nothing of reviewers, operator, client and the tool. An order that reached the attempt cap
waits for the operator by design. `NobodyWaits` is therefore a statement about again and
again: an operator who resumes an exhausted operation sends the order on its way once more,
and it comes to its end, or to the cap, once more, with its verdict paid for up to the same
cap.

### Finding

`validateReviewWithRpc` calls `wrong_job_status` permanent for the statuses 3 and 4
(`chain.ts:189`) and looks at the status before the expiry. If the client takes the escrow
of an expired job back, the job has left status 2; the dashboard
(`dashboard-snapshot.ts:694-701`) lists 5 as `Expired`, while the demo runner
(`demo.ts:1395-1402`) waits for 4. With 4 the order is aborted as `core/README.md:43-45` promises:
the reviewer is paid, the sponsor refunded. With 5 every sweep throws a transient error and
the order stays in `payout_failed` for ever. It takes a service that did not look at the
order between the beginning of the payout window and the client's reclaim.

What a reclaim may leave the job in is a constant set (`Reclaimed`). In `review` both happen,
and `NobodyWaits` exempts exactly the job that is neither open nor permanently closed
(`JobInLimbo`); the safety properties exempt nothing.

### Theorems

They hold for every number of reviewers, keys, attempts, dispatches and faults, as long as
there are at least as many keys as the attempt cap (the code draws keys without bound).

- `Invariance`: none of the properties is inductive alone; `ReviewInv` is. `Ledgers` ties the
  database to Circle (Circle acts on journaled keys only, an attempt says no more than Circle
  has done, a key is given up after it failed). `Stages` says what the state of the row means
  for the money (before a verdict nothing but a refund was asked for; a decided order that is
  not being paid has been paid; an aborted one has no resolution under the key in use).
  `Standing` says what `processOrder` may rely on where it stands: the key it holds is still
  the one in use, because the operator can only change the key of an operation that is
  exhausted, and such an operation is not in hand.
- `MoneyOneWay`, `BooksExact`, `ClaimExclusive` follow from it. Edits of the table disturb
  nothing of it (`ToolStep`): whoever was admitted by an older table is looked up again at
  the claim, and from then on the row alone counts.
- `PromiseOfReview`: every step is one of `ReviewPromise` or none. A `Complete` at Circle is the
  payment, resolution or refund; that it is the first is `OnlyCurrent` (whatever can still
  complete has the key in use), that the other kind has not happened `RefundExcludes`, and
  that the reviewer was paid before `PaidFirst`.
- `KeysSuffice`: with fewer attempts than the cap allows there is a key left to rotate to,
  because every key up to the one in use was an attempt.

`NobodyWaits` is liveness and stays with TLC.

## 4. Buying a review

`POST /v1/review-orders` reserves the job, asks the treasury, has the x402 Gateway charge
the buyer's signed authorization and turns the reservation into an order. A buyer may hang
up, the Gateway's answer may be lost, the process may die; a reconciler goes over the rows
that were left behind.

| Module | Code | Content |
|---|---|---|
| `ReviewReservation` | the transactions on `review_reservations` in `database.ts`; the Gateway (external) | a row's phases, the uniqueness of request, job and authorization, what was asked of the Gateway and what it charged |
| `PaidPurchase` | the middlewares of the route in `app.ts`, `gateway.ts`, `review-server.ts` | the request stage by stage, the reconciler, boot, crash |
| `PurchasePromise` | - | an authorization is charged at most once, at most one purchase of a job or request is charged, only what was charged becomes an order, for good |
| `TreasuryAdmission` | `requireTreasuryReady`, `requiredTreasuryBalance`, the balance cache of `circle.ts` | liabilities of orders and of the reservations up to one's own, against a balance that may be old; its specification is `AdmissionSpec` |
| `MCPaidPurchase`, `MCTreasury` | - | instances |
| `PurchaseProofs` | - | theorems |

How state and actions correspond to the code:

- `pc[p]` is where request `p` stands; an action runs to the next `await`. A purchase is a
  token of the code (`reservationToken`); what it asks for (request, job, authorization)
  is chosen when it begins.
- `row[p]` is the state of its row: `pending` until the payment attempt is marked,
  `attempted`, `settled`, and `order` when it was promoted. `late` says that its deadline is
  past, whichever of `expires_at` and `settlement_recovery_at` counts.
- `calls` are the purchases for which a settle request may be on its way. The Gateway acts
  on it at any time afterwards, also after the process that sent it is gone, or never.
- `pass` is the reconciler's loop over the rows it listed. It and all requests are lost in a
  crash; the rows and the Gateway's books are not.
- The treasury is a model of its own: admission depends on the sum over all orders, and a
  purchase, seen from there, is a stage. A reservation has its millisecond and its random
  token, which orders those of one millisecond (`UpTo`). Two variables only record: `stale`,
  that a transfer was noticed as complete while a balance read before it was still in use;
  `overtaken`, that a reservation came in front of one that was already admitted.
- Left out: the renewal of a lapsed row inside `acquireReviewReservation` (the same
  transaction has just deleted every such row), stored intents that only a damaged database
  contains, quotes that change between purchase and recovery.

| Run | Bounds | What it shows |
|---|---|---|
| `purchase` | 2 purchases, 5 things to ask for, 1 crash | `PurchaseInv`, `NoSecondCharge`, `ChargesAreKept`, the refinement of `PurchasePromise`, and `NoReservationStays`, of which `PromotionsPass` says that a row recorded as paid is always in somebody's hands. |
| `treasury` | 3 reviews, a treasury of 4 units (two reviews), reservations that may share a millisecond and then have any order of tokens, 2 transfers | `AdmissionsFit`: solvent unless `stale` or `overtaken`. |

Why the bounds are enough: everything that two purchases can want of each other is among the
five asks: the same request with the same or another authorization, another request for the
same job, another job with the same authorization, a request without one. Rows are only
ever compared in pairs. A crash leaves nothing behind but the durable state, so that the
second crash begins where the first did. Three reviews against a treasury for two are one
too many.

`FairSpec` of `PaidPurchase` assumes that calls end, with an answer or an error; that the
reconciler's timer keeps firing and the process is restarted; and that deadlines come. It
assumes nothing of buyers, nor of what the Gateway answers: a row that was attempted may
remain so for good if the Gateway never tells, which is what the code intends, and
`NoReservationStays` says nothing of it.

### Theorems

They hold for every number of purchases, of things to ask for and of crashes, and those
about the treasury for every finite number of reviews, every prefund and every transfer.

- `Invariance`: `PurchaseInv` is inductive as it stands. `Exclusive` is the uniqueness that
  the transactions keep; `Marked` orders the effects (nothing is asked of the Gateway but
  for a row that is already marked, and a marked row is never deleted); `Unreserved` ties
  `pc` to the row. With the row alone the step that marks an attempt could not be seen to
  belong to the row it found.
- `ChargedOnce`, `NothingForgotten`, `PaidForItself` follow from it.
- `PromiseKept`: the route with its crashes and its reconciler implements
  `PurchasePromise`. It needs one fact more, `Signed`: a request without an authorization
  gets past verification nowhere, so that two charges are never compared by an
  authorization that is not there.

- `SettledIsNeverLeft`: a row that was recorded as paid is in the hands of its request
  (`PromoteDue`), or of the reconciler or the next start of the service (`RecoverDue`). What
  a step must give for it is `Carries`; that no order of another purchase is in the way of
  the promotion is `Exclusive` again.
- `SettledEndsAsOrder`: such a row becomes an order. As in part 2 the hypothesis
  `PromotionsRun` is the fairness of `FairSpec` with the conditions written out, and
  `PromotionsPass`, which TLC checks, says that they imply `ENABLED`.
- `TreasuryStaysSolvent`: what orders may still cost and what admitted reservations may come
  to cost fits the treasury, unless a balance outlived a recorded transfer (`stale`) or a
  reservation of the same millisecond came in front of an admitted one (`overtaken`). Both
  happen in the code, see part 9; the theorem has no other exception and assumes nothing of
  the instants. The inductive invariant is `AdmissionInv`, which TLC agrees with on the run
  `treasury`. Its heart is `Covered`: no balance in use exceeds `Backing`, which is the
  treasury plus the transfers that went out and were not recorded; and for each admitted
  reservation the liabilities together with every reservation up to it fit `Backing`. The
  property follows with the last admitted reservation (`LastAdmitted`), up to which all
  others are. A transfer lowers the treasury and leaves `Backing` as it is; recording it
  lowers `Backing` and the liabilities alike; a later reservation stands behind the admitted
  ones, which follows from `BornByNow` unless it shares a millisecond with one, and then it
  is what `overtaken` records.

That a reservation which was never attempted lapses, the other half of `NoReservationStays`,
needs time to reach its deadline and stays with TLC.

## 5. The Telegram workflow

| Module | Code | Content |
|---|---|---|
| `TelegramWorkflow` | the webhook of `app.ts`, `handleUpdate` and what it calls in `telegram.ts`, `telegram-prompt-store.ts`, the update ledger of `database.ts` | deliveries, leases, claim, choice, reply, commands, prompts |
| `MCTelegram` | - | instance |
| `TelegramProofs` | - | theorems |

- An update is what a user did: press a button of a message, reply to a prompt, send a
  command. Telegram delivers it to any idle handler until it is answered with a success, as
  often and in whatever order it likes.
- `ledger[u]` is the row of `telegram_updates`: unseen, processing under a holder's lease,
  processed. `LeaseEnds` is the five minutes after which another delivery may take over,
  also from a handler that is still running.
- `handler[h]` is where a delivery stands. It stops at every call of the bot API; in between
  it makes a chain of database transactions in which only a crash can fall.
- `prompts` are the rows of the prompt store, in force, superseded or consumed.
- The order's row is reduced to its state, reviewer and decision; `ReviewProcessor` has the
  rest. The model begins when the offers are out, when the claim is in, or after a first
  choice, so that two updates suffice for every pair of neighbouring steps.

| Run | Bounds | What it shows |
|---|---|---|
| `telegram` | 1 reviewer and 1 stranger, 2 updates, 2 handlers, 2 prompts, 1 fault, started from offer, claim or first choice | `WorkflowInv` (types, one prompt in force, no update forgotten), `VerdictWasMeant`, `OnlyHolderCloses`, `UpdatesAreHandled`. |

Why the bounds are enough: a race is between two deliveries, of one update or of two. The
stranger can only press the button: everything else is refused by the same check. The
prompts bound is reached when a choice is repeated, and from then on a prompt that cannot
go out fails as the API would.

Fairness: a handler that runs goes on, leases end, and an update that is delivered again and
again is in the end accepted (strong fairness: a delivery is refused while another handler
holds the lease). Faults end.

### Theorems

They hold for any number of users, reviewers, updates, deliveries, prompts and faults.

- `Invariance` and `VerdictMeant`: `WorkflowInv` and `VerdictWasMeant` are proved together, with
  four more facts, as `DeskInv`. `Established` says what a delivery may rely on at the stage
  where it stands although others ran during its last call: an order that was claimed stays
  claimed or goes further, a verdict that was recorded stays, a prompt that went out keeps its
  decision. `RepliesArePossible` ties a reply to a prompt of its sender's own chat;
  `ClosedWereTold` and `Unclaimed` carry the rest. A step of the process leaves `Onward` in
  force, from which every other delivery keeps what it established (`OthersStay`).
- `HolderCloses`: a row that turns to processed is that of the delivery whose token it holds
  (`CompleteAsHolder`). A delivery that outlived its lease fails to close it.

`UpdatesAreHandled` is liveness and stays with TLC.

## 6. Router and judge

| Module | Code | Content |
|---|---|---|
| `EvaluationRouter` | `contracts/src/EvaluationRouter.sol`; the job contract (external) | every function, with the job's life from submission to settlement, expiry and refund |
| `JudgeWorker` | `index.ts`, `watcher.ts`, `validate.ts`, `submit.ts`, `evidence-publisher.ts` | the poll over block ranges, the judgement of a job, evidence, transaction, cursor, stop and crash |
| `MCJudge` | - | instance |
| `RouterProofs`, `JudgeProofs` | - | theorems |

- A transaction of the router is an action; a revert is one that is not enabled.
- `pass` is where the poll stands: waiting, at a range, at a job, in a call, with the jobs of
  its range that are still to be looked at. `cursor` is the
  file, written after a range with every job in it dealt with. `origin` is the block of the
  first checkpoint.
- A judgement is a pair of job and number: judging again may come to another decision with
  other evidence. `published` is what the evidence store has; `pending` are transactions
  that were sent, which are mined later, in any order, or refused, also when the worker
  that sent them is gone or has given up waiting.
- The model's answer is free within what `validate.ts` lets pass.
- Left out: the age that readiness is derived from; one-shot and fixture runs, which are
  the same poll without the loop; the text of prompts and evidence.

| Run | Bounds | What it shows |
|---|---|---|
| `judge` | 2 jobs, one above the cap, one that suffers up to three of lane changes, expiry, refund and a human verdict (`MaxMoves`); 3 blocks, ranges of 1; 4 decisions of a job, 2 attempts to publish, 1 fault | `EvidenceInv` (types; evidence named on chain is published), `NothingPassedOver`, `HealthyMeansCaughtUp`, `JobsAreDecided`. |
| `dashboard` | see part 8 | also `RouterInv` and `VerdictsAreFinal`, with every function of the router and the configurations of part 8; one account holds every role |

Why the bounds are enough: with ranges of one block and three blocks a poll has several
ranges, with jobs in the same and in different ones; the two jobs differ in what the
gate does with them; a job that is judged again after a fault, a lost transaction and a
lane change has been judged four times; a fault can fall on every call, and the process dies
with nothing but its cursor.

`FairSpec` assumes that the worker runs and is started again, that a transaction in the pool
is included or refused, and that blocks are mined. `JobsAreDecided` is about jobs submitted
from the first checkpoint on; see part 9 for the others.

### Theorems

For every number of jobs, accounts, configurations and evidence: `Invariance`
(`RouterInv`, which is inductive: the record, the escrow, the lanes and the provenance keep
each other), its parts `RecordIsTrue`, `LanesAreHonoured` and `ProvenanceIsHuman`, and
`FinalForAll`, which needs that a settled job's status is never one a client can still
reclaim, hence `RecordMatchesEscrow`. The run gives one account every role, so that no call
is missing for want of a caller; that roles held by different accounts change nothing is
what the theorems add.

Of the judge, for every number of jobs, blocks, ranges, publishing attempts, judgements,
outside moves and faults:

- `JudgeInvariance`: the invariants of the run are not inductive; `JudgeInv` adds four facts.
  `LogInv`: nothing is logged in a block that is already there, and the cursor is at most one
  block ahead of the chain, so that a block that the poll has left behind stays as it was
  read. `PassInv`: the range in hand begins at the cursor, and every job logged in it is
  still to be looked at or decided. `DecisionInv`: from the moment the worker leaves the
  publishing loop its decision names a hash that the store has, or the human lane, for
  which there is none. `MinedInv`: a receipt is believed only for a job with a resolution.
- The argument (`Onward`): whatever client, human, owner or a transaction of a dead worker
  does, a resolution stays one and a job that left the queue never returns, so that what the
  worker once saw decided it need not look at again. Outside steps are proved once, against
  what they leave of each part, and the worker's own steps one by one.
- `EvidenceHeld`, `CursorIsSafe` follow. `HealthyIsCaughtUp` needs that the last range ends at
  the head of the poll (`RangeDone`), and that the cursor's promise covers the ranges before.
- `JudgeUsesRouter`: with all its faults and late transactions the worker makes only steps of
  `EvaluationRouter`, or none, so that every theorem about the router holds beside it.

`JobsAreDecided` is liveness and stays with TLC.

## 7. The demo runner

| Module | Code | Content |
|---|---|---|
| `DemoRun` | `demo.ts`, `demo-repository.ts`, `demo-chain.ts`; the review order (external, as parts 3 and 4 promise it) | create, process, retry, archive, purchase, and the chain rail under them |
| `MCDemo` | - | instance |
| `DemoProofs` | - | theorems |

- A run's row is its state, operation, job and transaction hashes. `at[r]` is what the
  call in hand has read of it, and who is processing (`processing` in memory).
- A transaction is sent, then mined, reverted or given up by the nodes (`Drop`), after which
  its hash has no receipt for ever. The answer to a send may be lost, so that the chain knows
  what the row does not. A job that was created without its hash being kept is found by the
  log.
- A sweep that finds no receipt leaves the row as it is and asks again, at each of the places
  where the code does: for a step of the preparation, for a refund, and for the resolution
  of a review, whose provenance is only read once the receipt was there (`VerifyProvenance`).
- The run composes with `EvaluationRouter`: the judge may act on a job at any time, the
  client's lane, escalation and refund are calls of the router and of the job contract.
- `claimRefund` leaves a job in status 4, which the runner waits for, or in another that the
  dashboard calls 5, "Expired"; the jobs of the second kind are `lapsed`. The job contract is
  not in the repository, and its users disagree, see part 9.
- `Exhausted(r)` is the review order that waits at the attempt cap, which a retry of the run
  resumes; another retry forgets the hash of a reverted transaction (`ClearTransaction`).
- Left out: the readiness probe of `createRun`, events, the public view. The hourly limit of
  starts is the number of runs.

| Run | Bounds | What it shows |
|---|---|---|
| `demo` | 1 run, 3 jobs it may create, 3 transactions of a kind, 2 faults | `RunsTellTheTruth` (types; prepared means funded; only humans decide; finalized means settled), `NobodyElseWrites`, `ArchivedUnlessFundLost`; `RunsMoveOn`, with the two waits named below. |
| `archived_demo` | 1 run, 1 job, 1 transaction of a kind, no fault | Finding: `ReclaimedRunsEnd` is violated, see below. |

Why the bounds are enough: a fault is a lost answer, a failed call, a dropped transaction or a
crash, and two are one of them and another in its recovery; a third job or transaction is
asked for only after two were lost. Runs share no row, and only `createRun` looks at other
runs.

`FairSpec`: sweeps go on, a transaction in the pool is mined unless it is dropped, the judge
acts, time passes. Nothing is assumed of operators and reviewers, so that a run may wait for
its purchase for ever, and a failed one for its retry.

`RunsMoveOn` says that a run leaves the states in which only sweeps act, unless it is in one
of two waits that the code never gives up, nor reports: for the receipt of a recorded
transaction that was dropped before its effect (`WaitsForDropped`), and for status 4 of a job
whose refund left it in another (`ReclaimedUnseen`). TLC finds no third.

### Finding

The test "keeps x402 and escrow refunds separate until the escrow is reclaimed"
(`core/src/review/demo.test.ts:548`) ends with the run `archived_refunded` (`:598`), because
its chain answers `claimRefund` with status 4 (`:171`). `demo.ts:1400` accepts only that. The
service's own reader of the same contract calls 5 "Expired" (`dashboard-snapshot.ts:700`).
With a job that ends so, the archived run waits for ever, although its money is back: the run
`archived_demo` shows it, with no fault at all.

### Theorems

For every number of runs, jobs, transactions of a kind and faults.

- `DemoInvariance`: `DemoInv` says of every run that its row is consistent (`RowOK`), that what
  it claims is so on chain (`Backed`), and that the call in hand works with the row as it is
  (`CallOK`); of the world that the jobs a run created are numbered without gaps and came of
  its own transactions (`WorldInv`). `Backed` ties each claim to something no later
  transaction takes back: a prepared run to the funding of its job, a funded job to a
  transaction of the run that went through, an archived run to the absence of any hash of a
  funding or to a job that ended, a finalized one to its order.
- The step that needs it most is a send whose answer is lost: the chain knows what the row
  does not, and every handler must come to a row that is backed all the same. That the log
  is searched from the first job on keeps a run to its first job (`row.job \in {0, 1}`),
  however many of its transactions created one.
- Steps of the chain and of the review service are `Onward`, and leave every row backed
  (`StaysBacked`); a step of one run leaves the rows of the others alone and has to say only
  why its own new row is backed.
- `OneWriter`, `TheTruth`, `NothingLeftBehind` follow. The last holds with the exemption it
  states, of a funding whose hash was lost (part 9): the proof finds no other.

`RunsMoveOn` is liveness and stays with TLC. That the demo refines `EvaluationRouter` is not
claimed: `Elapse` lets several jobs of a run expire at once, which the router's
specification does one at a time.

## 8. The dashboard's index

| Module | Code | Content |
|---|---|---|
| `DashboardSnapshot` | `dashboard-snapshot.ts` | refresh, its coalescing, failure, stop, restart, the status that is shown |
| `MCDashboard` | - | instance |
| `DashboardProofs` | - | theorems |

- `log` is the chain's log, a block with at most one event; a refresh sweeps it up to a head
  it has read, then reads jobs, lanes, resolutions and evidence at whatever the chain is by
  then. Each of these reads is an action of its own.
- `stored` is the row of `dashboard_chain_snapshots`; `refresh` the refreshes in flight, of
  which the code lets a second begin only after a restart.
- Left out: a worker without a router address, which only stores the initial row;
  multicalls of which single calls fail; receipts, texts and the order of rows.

| Run | Bounds | What it shows |
|---|---|---|
| `dashboard` | 1 pinned job, 3 blocks, a window of one block, configurations with the job within and above the cap, 1 failure or restart, 2 slots | `FeedInv`, `QueueIsTrue`, `IndexNeverGoesBack`, `IndexHeals`; of the router `RouterInv` and `VerdictsAreFinal`. |

Why the bounds are enough: jobs are indexed independently of each other, so that the rows of
one job show what can go wrong between the reads. The smallest window makes the event of an
escalation leave it while the job waits, which is what pinning is for.

Fairness: a refresh that has begun goes on, and a stopped worker is started again.

### Theorems

For every number of jobs, pinned jobs, blocks, failures and restarts, and every window.

- `DashboardInvariance`: `DashboardInv` has a part per source of data. `HistoryInv` says what
  an event of the log says of the router, then and ever after: a verdict stands, an
  escalation is followed by a human verdict or by nothing, the lane is that of the last
  `LaneSet`, and none follows an AI verdict. `FlightInv` says what a refresh holds at each of
  its stages: the status it has read is no older than its head (`StatusRead`), every job it
  has to look at is among its rows (`Covers`), and each row's provenance agrees with the events
  up to the head and never runs ahead of the router (`Origin`). `OneInFlight` is the
  coalescing, without which an older head could be written over a newer one. `StoredOK` is the
  row on disk.
- The queue is the hard part: it is built from rows, evidence and events that belong to
  different blocks. A job that was escalated within the swept blocks and still waits has been
  waiting all the while, because an escalation never returns once a human has answered it;
  so its status was `submitted` at every read, and its reason unchanged.
- That the latest event of a job exists needs the maximum of a finite set of numbers
  (`MaxOfSome`), which is taken from the well-founded order of the numbers.
- `FeedIsTrue`, `QueueIsTrueOfChain` follow; `IndexOnlyAdvances` is an action property from
  the same invariant. `DashboardShowsRouter` shows that the chain the dashboard reads is
  `EvaluationRouter`, and `ShownVerdictsAreFinal` is `FinalForAll` of the router, carried over.

`IndexHeals` is liveness and stays with TLC.

## 9. Where code and texts differ

Two differences are runs that TLC finds violated (`reclaimed_job` in part 3, `archived_demo`
in part 7). The others were met while translating. The models follow the code in each case;
where a property would contradict it, the exception is named in the property.

- *Evidence after votes.* In the instant that the evidence and commit windows share a vote may
  be sealed first, against `docs/submission/demo-beat-sheet.md:57`, see part 2.
- *Same millisecond.* Reservations made in the same millisecond are ordered by their random
  tokens (`database.ts:1540`), so that one that comes later may precede one that was already
  admitted, and neither counts the other; the specification has "the deterministic prefix
  of concurrent reservations" fit the treasury
  (`docs/specs/2026-07-28-paid-human-review-exchange.md:145`). `AdmissionsFit` excludes just
  that case (`overtaken`). Without the exception, TLC finds `Solvent` violated within a second,
  with no transfer at all (`MaxTransfers = 0`).
- *Stale balance.* The balance that admission reads is cached, and forgotten only by the call
  that made a transfer. A transfer that is seen as complete later, after a timeout or a
  restart, leaves the old balance in use (`app.ts:1115`), where `core/README.md:68` has
  admission reserve the worst case. `AdmissionsFit` excludes just that case (`stale`).
- *Newest prompt.* The prompt is sent before it is stored (`telegram.ts:412`). Of two choices
  handled at once the one stored last is in force, which need not be the one sent last, and
  the reviewer is told to reply to the latest message (`telegram.ts:294`; the test at
  `telegram.test.ts:245` makes the choices one after the other). `VerdictWasMeant` holds
  nevertheless: a reply counts for the choice of the prompt it answers.
- *First poll.* Without a cursor on disk the poll begins at the latest block
  (`watcher.ts:95`), also when the pass before saw a job there, failed and did not
  checkpoint. The comment at `index.ts:207` promises the retry. `NothingPassedOver` and
  `JobsAreDecided` begin with the first checkpoint.
- *One active run.* `createRun` refuses a second active run (`demo.test.ts:402`), a retry does
  not look (`demo.ts:547`): a failed run can be retried next to a newer one.
- *Paid archive.* "A paid human review cannot be archived manually" (`demo.ts:580`), but only
  orders are looked for (`demo.ts:571`): a purchase that is paid and not yet promoted is
  no order, and its run is archived.
- *Lost fund hash.* A run whose fund transaction was sent and its hash lost is archived as
  refunded as long as the job is open (`demo.ts:1375`), and the page says "The escrow was
  refunded" (`demo-ui.tsx:1005`) of money that the job may hold by then.
  `ArchivedUnlessFundLost` excludes just that case.
- *Refund status.* The runner waits for status 4 after `claimRefund` (`demo.ts:1402`), its
  tests set it (`demo.test.ts:173`), while the dashboard calls 5 "Expired"
  (`dashboard-snapshot.ts:700`). With 5 an archived run waits for ever, see part 7.
- *Dropped transaction.* A hash that was recorded and then dropped by the nodes has no receipt
  for ever (`demo-chain.ts:411`), and the sweep returns each time (`demo.ts:1426`): the run
  neither fails nor sends again, so that the retry of an operator is not offered.
  `RunsMoveOn` excludes just that case.

## 10. What is proved, and what is only model-checked

| Property | Run | Theorem |
|---|---|---|
| `TypeOK`, `Custody`, `PaidInFull` | `two_orders`, `lifecycle` | `TypeCorrect`, `CustodyHolds`, `PaymentExact` |
| `KeepsPromise` | `lifecycle` | `ContractsKeepPromise` |
| `OutcomeIsFinal` | `lifecycle` | `OutcomeFinal` |
| `TallyMatchesSeals`, `VerdictIsTheTally`, `PhasesInOrder` | `dispute` | `TalliesExact`, `VerdictExact`, `PhasesKeepOrder` |
| `ScoresMatchSettlements` | `two_orders` | `ScoresExact` |
| `MoneyGoesOneWay`, `BooksMatchCircle`, `ClaimIsExclusive` | `review` | `MoneyOneWay`, `BooksExact`, `ClaimExclusive` |
| `KeepsReviewPromise` | `review` | `PromiseOfReview` |
| `WorkflowInv`, `VerdictWasMeant`, `OnlyHolderCloses` | `telegram` | `Invariance`, `VerdictMeant`, `HolderCloses` |
| `PurchaseInv`, `NoSecondCharge`, `ChargesAreKept` | `purchase` | `Invariance`, `ChargedOnce`, `NothingForgotten` |
| `KeepsPurchasePromise` | `purchase` | `PromiseKept` |
| `RouterInv`, `VerdictsAreFinal` | `dashboard` | `Invariance`, `FinalForAll`, `ShownVerdictsAreFinal` |
| `EvidenceInv`, `NothingPassedOver`, `HealthyMeansCaughtUp` | `judge` | `EvidenceHeld`, `CursorIsSafe`, `HealthyIsCaughtUp` |
| `RunsTellTheTruth`, `NobodyElseWrites`, `ArchivedUnlessFundLost` | `demo` | `TheTruth`, `OneWriter`, `NothingLeftBehind` |
| `FeedInv`, `QueueIsTrue`, `IndexNeverGoesBack` | `dashboard` | `FeedIsTrue`, `QueueIsTrueOfChain`, `IndexOnlyAdvances` |
| the steps of the router within `JudgeWorker` and `DashboardSnapshot` | - | `JudgeUsesRouter`, `DashboardShowsRouter` |
| `LedgersAgree` | `lifecycle` | `LedgersAlwaysAgree` |
| `AdmissionsFit` | `treasury` | `TreasuryStaysSolvent` |
| `NoSilenceLocks` | `lifecycle` | that deadlines come is model-checked only; once they have, `NoOrderIsStuck`, `SilenceEnds` |
| `NoReservationStays` | `purchase` | that reservations lapse is model-checked only; for settled ones, `SettledIsNeverLeft`, `SettledEndsAsOrder` |
| `NobodyWaits`, `UpdatesAreHandled`, `JobsAreDecided`, `RunsMoveOn`, `IndexHeals` | `review`, `telegram`, `judge`, `demo`, `dashboard` | liveness, model-checked only |

Every safety property of a passing run is stated by a theorem. The theorems are about every
value of the constants that the `ASSUME`s of the modules allow; TLC evaluates these on every
run. What stays with TLC, and why:

- *Liveness.* It rests on fairness, hence on `ENABLED`, which the proof system does not reason
  about. `SilenceEnds` and `SettledEndsAsOrder` take fairness with the conditions written out.
  Their arguments need no counting: what is due stays due until one step takes it away.
  The other liveness properties count (attempts up to a cap, faults up to their end, steps of
  a preparation, blocks up to the head, time up to a deadline); such a count is an induction
  over data, and the induction theorems take an operator as a parameter, which the provers
  cannot instantiate.
- *That the conditions imply `ENABLED`* (`DueCallsPass`, `PromotionsPass`), for the same reason.

Sums over sets are proved without induction. A count that one step changes by one follows
from the cardinality of the set with an element more or less (`CountMoves` in
`PurchaseProofs`); that a fold is such a count follows from a smallest counterexample
(`SumIsTotal` in `MarketplaceProofs`).

The inductive invariants were checked by TLC on the instances of the runs, as invariants,
before they were proved.

Deadlock is not checked in any run: every one of these systems comes to rest when its bounded
supply of calls, blocks or faults is used up.

## 11. Not modelled, and what is left

- *Web application* (`app/`): rendering, forms and wallet calls over contracts and
  services; no state that outlives a request. Its in-memory caches are those of its
  framework.
- *Configuration, schemas and command line tools*: parsing and validation without state. The
  one tool that changes the state of a service, `reviewer-cli.ts`, is in part 3.
- *Deployment scripts*: the state they leave the contracts in is the `Init` of `Marketplace`
  and of `EvaluationRouter`.

Plan:

1. A demo with two runs, for the retry next to a newer run; it needs a symmetric and
   smaller chain rail. `DemoProofs` already covers any number of runs.
2. The parts 3 and 4 composed over one database, with the treasury as a shared variable.
3. An abstract specification of the demo (funded, judged by a human, settled or refunded) and
   of the index, with proofs that the modules implement them.
