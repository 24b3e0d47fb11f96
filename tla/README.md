# Bondsman in TLA+

Bondsman lets an autonomous agent act on an invoice only with a bond behind the action. An action
is initiated, bonded and executed; for a window of time anybody may prove a fault and take half of
the bond, and otherwise the bond returns. The contracts (`contracts/`, Rust/Odra on Casper) decide;
the backend (`backend/src/`, TypeScript) sells quotes for actions, creates actions with the agent's
key, projects the chain into SQLite, returns expired bonds and runs a watchdog that challenges.

This directory holds models of both layers, the TLC runs that check them on small instances, and
TLAPS proofs about the contracts for every instance. `PROJECT.json` maps every definition to the
lines it stands for.

## 1. Inventory

| Part | State | Operations | Talks to |
|---|---|---|---|
| MockCsprUSD (`mock_cspr_usd`) | balances, allowances, supply | mint, approve, transfer, transfer_from | called by vault and pool |
| BondVault v1/v2 | bonds by action, total locked, controller | deposit_and_lock, release, slash, set_controller | token; called by the controller |
| InvoicePool v1/v2 | invoices, first payer of each claim, duplicates, reserve | submit_invoice, payout, add_to_reserve | token; called by the controller |
| BondsmanController | actions, reputation, next id | initiate, post_bond, execute, challenge, resolve | vault, pool |
| BondsmanControllerV2 and two verifiers | also fault classes, faults, used evidence | also register_verifier, verify | vault, pool, verifiers |
| Deployment and wiring (`scripts/`, `contracts/cli`) | contract registry, deployment file | deploy, redeploy, install, set_controller, set_pool, register_verifier, mint | contracts |
| Demo and seed (`demo.ts`, `casper/actions.ts`, `scripts/seed.ts`) | nothing it relies on but the chain | chainActions, executeBondedInvoice, seed, demo | chain |
| Arm service (`api/arm.ts`) | in memory: a promise queue and one run | arm, submitPaidAction | chain, database |
| Paid quotes (`api/routes.ts`, `verify/`) | tables `paid_quotes`, `submit_authorization_nonces` | quote, submit | arm service |
| Listener and keeper (`listener/`) | tables `actions`, `event_cursors` | reconcileChain, resolveExpiredClean | chain, database |
| Watchdog (`watchdog/`) | tables `watchdog_catches`, `delivery_attestations` | scanOnce, transact | chain, database |
| Agent runner (`agent/`) | evidence files | runAgent | chain, with the arm service's key |
| Demo jobs, resolution (`api/`) | table `demo_jobs`; the work in memory | startArm, startChallenge, refresh, resolve | arm service, signer queue, chain |
| Wallet challenge (`api/wallet-challenge.ts`, `casper/`) | none | walletResolve, finality | chain, projection, signer queue |
| Idempotency (`api/idempotency.ts`) | in-memory maps | run | in front of arm |
| Ready pool (`api/ready-pool.ts`) | in-memory backoff | tick | arm service |
| Spend guard (`ops/`) | in-memory history, per process | assertSpendAllowed, recordSpend | before every transaction |
| Policy engine (`policy/`) | none | priceBond, quotes' minimum | quotes |
| Receipts and proofs (`receipts/`, `proofs/`) | tables `signed_receipts`, `proof_cache` | issueReceipt, proofFor | database |
| The Arena (`frontend/components/arena`) | React state, localStorage | challenge, poll, reload, fresh case | API, wallet |
| Evidence store and replay (`evidence/`) | a file for each action | writeActionEvidence, mergeActionTransactions, canonicalReplay | database, receipts |
| Assurance Studio (`assurance/`, `api/server.ts`) | rate windows, model health | analyze, limiters | a language model |
| Payments and integrator (`verify/x402.ts`, `integrator/`) | settlements, the client's state | settle, pay, submit, attest | facilitator, API |
| Funding (`ops/funding-monitor.ts`, `casper/funding.ts`) | balances of CSPR | check, fundToTarget | chain |
| Hosting (`scripts/railway-boot.mjs`, `api/startup.ts`, `db/database.ts`, `listener/event-stream.ts`) | container, volume, port, stream | boot, start, shut down, tick | all three processes |
| Slash scripts (`scripts/v2-*-slash.ts`) | nothing | one duplicate, one contradicted delivery | chain |
| MCP servers, other pages | nothing | reads, rendering | API |

API, listener and watchdog are sibling processes on one SQLite file (`scripts/railway-boot.mjs`); when
one exits all three start again.
SQLite statements are synchronous and atomic; everything else awaits.

**What is hard.** On chain a transaction is atomic over all the contracts it calls, so the hazards
are orders of calls by different parties, rounding, and two contracts' books drifting apart. Off
chain they are reads used after an await, two processes writing one row, transactions that time out
and land later, retries, steps of which the last ones fail, and restarts. `PROJECT.json` lists each
with its line and the properties aimed at it.

**What makes each part correct.** The vault pays out each bond once and holds what it owes. The
controller's view of each bond is the vault's. A slash has a proof; the reserve is the forfeits;
reputation is history; an executed bond ends. A quote has one reservation, one authorized run, and
one action; what it is consumed for was executed. The projection never runs ahead of the chain and
catches up with it; expired bonds are returned; a catch is a slash, and so is what a job, a receipt, a
proof, a script or the visitor's page calls one. A hash that is shown is that of an executed
transaction. A payment has one answered action; a key arms once; an hour stays within its budget; who
is turned away at a path has had his share of it. A suite that is served is wired and is one suite, the demo can be run
again after any stop, and the service finds its files, its funds and its events again.

## 2. Modules

| Module | Models | Notes |
|---|---|---|
| `Cep18` | the token, and the addresses and action ids all contracts share | |
| `BondVault` | the vault; `VaultSpec` lets anybody call it with anything | extends `Cep18` |
| `InvoicePool` | invoices, claims, payout, reserve | extends `Cep18` |
| `BondsmanController` | the version 1 suite: controller, vault, pool and token in one transaction each | composes `BondVault` and `InvoicePool` |
| `BondEscrow` | the abstract promise: a stake is held, then returned or forfeited, once | no contracts in it |
| `BondsmanControllerV2` | the deployed suite: verifiers, evidence | extends `BondsmanController` |
| `QuotedBonds` | the policy engine's price, the check of a quote's minimum, the database's reputation | composes `BondsmanController` |
| `ArmService` | `createDemoArmService` over a small view of the chain | timeouts, late inclusion, shortfalls |
| `PaidQuotes` | quote and submit handlers over the arm service | composes `ArmService`; restarts |
| `Projection` | `reconcileChain` in any process, the listener's tick, the keeper | |
| `Watchdog` | detection, `scanOnce`, `transact`, catches | composes `Projection` |
| `Receipts` | `issueReceipt` and `proofFor` | composes `Watchdog` |
| `Challenges` | demo jobs, the signer queue, resolve, wallet-resolve, restarts | composes `Watchdog` |
| `Arena` | the visitor's page and its localStorage | composes `Challenges` |
| `Evidence` | evidence files and the transactions column | composes `Challenges` |
| `Replay` | the canonical action's validation, receipt, proof and bundle | composes `Evidence` |
| `Operations` | idempotency keys, ready pool, spending budget, the commands' fallback | |
| `Payments` | the settlement before a quote, and the integrator's run | |
| `Assurance` | rate limiters, analyses, model health | |
| `Funding` | the monitor, the arm service's and the scripts' top-ups | |
| `Service` | boot, start-up, database columns, event stream and ticks | |
| `Wiring` | `deploy-v2`, `wire-v2` | calls that fail or arrive late |
| `DemoRuns` | `demo.ts` with `seed.ts` and `casper/actions.ts`, run any number of times | composes `Wiring` |
| `Redeploys` | `deploy.ts`, `redeploy.ts` and the CLI they run | version 1 |
| `SlashRuns` | `v2-duplicate-slash.ts`, `v2-delivery-slash.ts` | |
| `BondVaultProofs`, `BondsmanControllerProofs`, `BondsmanControllerV2Proofs`, `QuotedBondsProofs`, `PaidQuotesProofs`, `DemoRunsProofs` | theorems about the module of the name | `BondsmanControllerProofs`: also that version 1 implements the escrow |
| `WatchdogProofs` | theorems about the projection and what is built on it | `Watchdog`, `Receipts`, `Challenges`, `Evidence`, `Replay`, `Arena`, which share the invariant of the first |
| `ServicesProofs` | theorems about the services and scripts that share no state | `Operations`, `Service`, `Payments`, `Assurance`, `SlashRuns`, `Redeploys` |
| `MCQuotedBonds`, `MCControllerV2`, `MCPaidQuotes`, `MCReceipts`, `MCChallenges`, `MCArena`, `MCReplay`, `MCDemoRuns`, `MCServices` | instances for TLC; `MCServices` puts seven parts that share no state into one run | |

**Contracts.** One action is one entry point with every contract call it makes; a revert anywhere is
the absence of a step. `PostBond` contains the vault's `DepositAndLock` and the token's
`TransferFrom`; `ExecuteAction` the pool's `Payout`; `ResolveSlash` the vault's `Slash` and the
pool's `AddToReserve`. An id that is not in a mapping has status `"None"`. Amounts are unbounded
naturals (U256 in the code); the division by 10000 floors as U256's does. The action names are those
of the entry points, the state names those of the storage fields.

**Quotes and their price.** `QuotedBonds` has two computations of one price side by side, the
contract's over unsigned integers and the backend's over bigints, and the steps between a quote and
the bond posted for it: the price at the reputation the database has, the check at submission, which
asks the controller or falls back on the database, and the initiation, which for a duplicate is of the demo
invoice's amount whatever was quoted (`RunAmount`), or goes on with an unfinished action
(`ResumePending`). A run that throws releases the quote. `ReadReputation` and `SetReputation` are an
await apart, as in `reconcileChain`.

**Arm service and quotes.** One action is the code between two awaits, or an await and what follows
it. `run.pc` is the place in `armOnce`. `Sends` is a transaction that succeeds; `TimesOut` one whose
sender gives up while it stays in `inTransit`, from where `LateInclusion` may include it at any time
or never; `RunThrows` any other failure, at any place. `Shortfall` is the one retry of
`runFundedDemoAction`. An invoice id is the call it was allocated for, since `createInvoiceIdGenerator`
never repeats one. `LastProjected` and `KnownActions` are the cursor read from the database and the
chain; a read that fails in an unknown way ends the scan early (`ScanEndsAt`, fault `misreads`). A delivery attempt's random claim hash is its attempt number. In `PaidQuotes`, `CheckSubmit`
is the handler up to the await of the policy, and `AcceptSubmit` the rest up to the await of the
service: the nonce is spent, then the quote reserved, with no await between them. `Answer` consumes
or releases. `Crash` loses requests, queue and run, and keeps the tables and the chain.

**Projection, watchdog, receipts.** The chain appears as the status of each action and the log of
events. `TakeEvents` stores the events after the cursor it read at the beginning and moves the cursor;
then each action is read (`ReadAction`: the chain, and the row's reservation) and, awaits later,
written (`WriteRow`). A reconciliation that throws leaves the cursor where it is, past the events of
actions it has not read (`Pending`). The arm service reads an action as executed (`ArmSees`) and writes
its row awaits later (`ArmRecords`), whatever has happened since. The listener's tick runs
reconciliation, the keeper, and reconciliation again if the keeper resolved anything; the keeper reads
the row and the chain (`KeeperLooks`) before it corrects or resolves, breaks its sweep off when it is
out of funds (`KeeperBreaks`) and then rests (`cooling`). A scan of the watchdog takes its candidates, looks at each again after
the delay, challenges, reconciles, resolves, reconciles and records; a failure goes to the catch
block, which reconciles. Only the controller's events are kept: no other contract's event names an
action that it does not. `used_action_id` is left out because an attestation names its action, so only
that action ever uses it. A receipt (`BuildReceipt`) is made from the row before the await of the
signing key and kept after it (`IssueReceipt`); a proof is made and kept at once.

**Challenges.** The work of a job is a call in the signer queue, whose head runs: `ChallengeLands` and
`ResolveLands` are the transaction on chain, the next step of the head is its sender's (`ResolveEnds`,
`CallThrows`, ...). Reading a job refreshes it from the projection (`Refreshed`), which may end it
before its own work does. `Restart` ends all three processes: the queue, the work of jobs, scans and
reconciliations are lost, tables stay, and what was sent (`stray`) may still be included. The wallet's
deploy and its two requests, `wallet-resolve` and the operator's `resolve`, wait in the same queue.

**The Arena.** `page` is what is mounted, `store` is localStorage. The phases are those of
`ManualChallenge.tsx`; an effect runs with the change that causes it. `FetchFails` is a request that
is not answered in time; the service carries on with it. `Leave` and `Visit` are a reload.

**Evidence and replay.** A reconciliation notes the file's hashes when it takes the event and the
record of the catch when it reads the action, and writes the row later (`noted`); the API and the
watchdog merge hashes into the file before they reconcile (`merging`), which is a read of the file
(`MergeReads`) and a write of what was read with the hashes (`MergeWrites`). The arm service stores its
row (`RecordsRow`) and then writes the file without reading it (`PersistRun`); `overwritten` remembers
where there was one already. A validation of the canonical
action reads the row, waits for the signing key (`awaiting`), and reads the row again for the proof.

**Operations.** Times are ages, so that the clock has no bound: `history` and `landed` hold the ages of
recorded spends and of the transactions on chain, which differ where a command fails after its
transaction landed. `CommandFails` is either the end of the run or one more command on the public node.

**The other services.** `Payments` has the facilitator's ledger, the handler between settlement and
stored quote, the quote's use (reserved, its action bonded, and then consumed, released by a late
failure, or stuck after a restart), and the client's run, whose state survives an answer that is lost.
`Assurance` has the windows of both limiters, one for each visitor and path (`api/server.ts:87`) and one
for each visitor's analyses, and analyses that overlap. `Funding` has a check's place between reading a
balance and having seen the transfer executed, with two other programs sending at the same time.
`Service` has a container that may be replaced, the volume that is kept, three processes that alter the
database before they serve, the port, and the listener's stream, timer and queue of ticks; a tick moves
the cursor (`TickTakes`) before the reads that may fail it.

**Wiring and demo.** A script is a name and a position; `CallUnanswered` stops it and may leave a call
in `lateWires`. `set_controller` and `set_pool` revert when they are made again, which `wire-v2` takes
for success and `deploy-v2` does not. `DemoRuns` has the program as a `pc` with the local variables
that are live, the contracts as `Accepts` and `After` over the actions of the demo, and four kinds of
disturbance: a call whose sender does not learn the outcome (`CallLost`, then perhaps `LateCall`), a
command that is sent once more (`CallRepeated`), a scan that a failed read cuts short (`Scans`) and an
action of the agent runner (`RunAgent`). The program may be started again after any of them. In
`Redeploys` a contract is what it was made with and what it was wired to, and the registry and the
deployment file are the two things a later run looks at. In `Wiring` the two files' tokens are taken
for one: `deploy-v2` and `wire-v2` read `prior.contracts.mockCsprUsd` of the deployment file
(`deploy-v2.ts:27`, `wire-v2.ts:116` and `177`), the CLI builds and mints on the registry's
(`contracts/cli/src/scenarios/v2.rs:21` and `32`), and nothing compares them; that a suite is funded
therefore says that the calls were made. `SlashRuns` has the two scripts' programs
with the numbers they have fixed, over the entry points of version 2.

## 3. Runs

Distinct states and the question. Deadlock is not checked where the system may stop: contracts nobody
calls any more, an API with every request answered.

| Run | Instance | States | Shows |
|---|---|---|---|
| `suite` | version 1 with quotes: 2 actions, 2 invoices, one claim hash, 1 quote of either class, odd bonds | 501,740 | types; controller and vault agree; the vault is solvent and pays a settled bond to the unit; one payer per invoice, duplicates are the later payers; both prices agree; a quoted minimum holds but for a risen score, another amount or an older bond; refines `BondEscrow`; executed bonds end |
| `deployed` | version 2: both fault classes, an authentic and a forged attestation | 457,632 | every fault on record has its proof |
| `quotes` | 3 requests for 1 quote, 2 with one nonce, 1 restart, 1 shortfall | 910,959 | one holder, one run per authorization; every reservation ends unless a restart intervenes |
| `arm` | a paid and an operator's call, 2 timeouts, 1 action of the runner, 1 scan cut short | 5,579,977 | no action is returned twice; consumed quotes have executed, projected actions |
| `projection` | a contradicted delivery, arm service, listener and watchdog, another challenger, a receipt and a proof at any time, 1 failure | 173,228 | what is kept of an outcome is final; rows catch up for good unless disturbed; expired bonds return; candidates are tried again |
| `challenges` | 1 job, another challenger, listener and watchdog on one duplicate, 1 failure | 488,059 | catches are slashes; a challenged action is slashed unless something fails |
| `arena` | the demo key's challenge, a fresh case and the watchdog's demo, 2 visits, 1 failure | 400,049 | a pending card is answered |
| `wallet` | the visitor's wallet, an operator, 2 requests, 1 restart | 4,196,366 | what is shown as slashed is slashed, "you claimed" is the visitor's own challenge |
| `replay` | the canonical duplicate, 1 job, listener, watchdog and visitors | 2,968,490 | a hash shown is an executed transaction's; a resolved job leaves both hashes but for the arm service's late write; what was shown as ready is a slash with a receipt and a proof that say so |
| `services` | operations, hosting, funding, payments, assurance, slash scripts and redeployments, each by itself | 695,058 | a key arms once, an hour stays in its budget, the pool fills again; files are the latest, events are reconciled but for those a failed tick had taken; low accounts are funded; a transfer has one answered action; limiters are fair at each path; a reported slash is one; a deployment file names one suite |
| `demo` | deployment, wiring and any number of demo runs, 2 disturbances | 321,939 | a served suite is wired; one bond per invoice; the demo reaches its report |

**Why these bounds are enough.** Two actions are needed for a bond to be paid with another's tokens,
a claim to be paid twice, or a quote's price to be overtaken by the other action's end. A bond of 29
(and 11) tokens is odd, so halves round. `MaxTime = 0` in `suite` stops the clock only while no window
is open: each window is open at two times and over at the third. `deployed` has no more than the two
actions a duplicate needs; the second is also the delivery. Three requests with two nonces give every
pair: same quote, same authorization, and both. Two timeouts leave a transaction and its repetition in
transit, and `MaxActions` has room for both; one foreign action takes one predicted id. `projection`,
`challenges` and `replay` have one action: actions meet only in what a worker has taken, where each is
read and written by itself, and the invariants are proved for any number. One failure hits each read,
transaction and reconciliation in turn, with a late write of the arm service beside it; a second job
meets the guard of the first, and whoever comes between the job and the chain is the outside challenger
or the watchdog. In `services` a run takes two transactions and the budget pays for three, so that two runs
overrun it; two transfers and two requests have one presented again or one beside it, and two
losses pay for a restart and a late failure; two
redeployments with two stops have each take up what the other left. `replay` has no failure: its
question is the order of readers and writers; `challenges` has the failures of the same steps and
`wallet` their restart. In `demo` each pair of disturbances occurs, of one kind or of two, except two lost calls
(`MaxDeaths = 1`), which one run of the program and its successor do not need to meet on one id.
`EventWindow` (8) exceeds the number of events: `get_events` returns the last 49, and a longer burst
between two ticks, which is never projected, is outside these models. Tokens, time, ids, faults,
failures, jobs, requests, restarts and visits are the only bounds, each a constant.

**Where the documents and the code differ.** The run `two_actions` checks `OneBondedActionPerQuote`
(docs/INTEGRATION.md:9) and is violated: a call that fails late releases the quote, which then bonds a
second action.

What follows was met in counterexamples while the models were written. Some are exceptions that a
property names, the others are left to this list.

*On chain.*
- Two actions may be bonded for one invoice (`bondsman_controller.rs:221`); the second can never
  execute and its bond never leaves the vault (README.md:25 promises its return).
- A payout draws on the pool's whole balance and may spend what `reserve_balance` accounts for
  (`invoice_pool.rs:104`), which README.md:35 calls a protection reserve.

*Creating actions.*
- The agent runner may take the action id a run has predicted (`arm.ts:685`); the service then posts
  that action's bond, and the quote is consumed for it (docs/X402_STATUS.md:22). `ConsumedIsExecuted`
  says only that the action has been executed, and not whose it is.
- The retry after a funding shortfall draws a new claim hash for an invoice that is already on chain
  (`arm.ts:598`): the action bonds and can never execute.
- A resent `initiate_action` and its first copy may both land (`arm.ts:712`).
- The quoted minimum is compared with the bond at submission (`routes.ts:233`); a refund of another
  action before the initiation raises the score and the bond falls below it. A duplicate is quoted for
  the amount of the request (`routes.ts:616`) and initiated for the demo invoice's (`arm.ts:582`), and a
  run that goes on with an unfinished action (`arm.ts:548`) takes the bond of that one. `MinimumHolds`
  excepts the three.
- A read that fails in an unknown way ends the scan of the actions (`arm.ts:290`), so that the predicted
  id is one that is taken.
- The version 2 controller has no `get_reputation`, so the database never learns a score
  (`reconcile.ts:330`), and quotes are priced at an unknown agent's (`x402.ts:296`) where
  docs/POLICY_ENGINE.md:19 says the agent's reputation decides.
- The payment of a quote is settled before its body is looked at and the quote stored
  (`routes.ts:616`); a failure between them leaves a payment without a quote.

*Projection and watchdog.*
- One read fails after the cursor moved (`reconcile.ts:214`): the action is not read again until its
  next event, and a settled action may have none. `ProjectionCatchesUp` and `ExpiredIsResolved` name it
  (`Disturbed`), and `StreamIsReconciled` excepts the events of a tick that failed.
- A reconciler writes what it read awaits earlier (`reconcile.ts:307`), and so does the arm service
  (`arm.ts:842`, after the poll of `arm.ts:823`): a settled row becomes `Executed` again
  (docs/INVARIANTS.md:5), until its next event if there is one, or an unreserved one it had read before.
  `Disturbed` has this as well.
- After a challenge whose `resolve_action` fails once, no later scan selects the action, since
  detection wants `Executed` rows (`watchdog/main.ts:100`).
- A receipt asked for between the watchdog's reconciliation and its `recordCatch` is kept without the
  challenge's transaction (`receipts/service.ts:105`), and is never rebuilt.
- A row loses the hashes of a catch that its evidence file has: a reconciliation that noted the file
  before they were merged writes them away (`reconcile.ts:292`), and empties the reasoning likewise.
- The arm service writes its evidence file over one that a challenge has already left hashes in
  (`arm.ts:865` does not merge): the job is resolved and the file names neither transaction.
  `ResolvedLeavesHashes` excepts it (`overwritten`).
- A receipt may be signed before the hashes reach the row, where docs/CANONICAL_PROOF.md:60 has it
  carry them; the replay of the canonical action fails while a stale write has set its row back.

*Jobs and hosting.*
- The work of a job lives in the process: after a restart the job stays live for ever, and its action
  cannot be challenged through the API, where ManualChallenge.tsx:702 says "The job survives reloads
  and restarts."
- The debounce of the event stream starts again with each frame (`listener/main.ts:66`); under frames
  without a pause only the heartbeat reconciles.
- A seed that was half written is never written again (`railway-boot.mjs:33`).
- The mutation limiter's windows are keyed by address, method and path (`server.ts:87`), and some of the
  limited paths hold an id: over several paths a visitor has the limit at each. `RateHolds` is about one
  path.

*The page.*
- A job fetched as resolved with a row that is still stale is shown as "window closed clean"
  (`ManualChallenge.tsx:327`); the visitor's wallet challenge, pending when the page is reloaded, as
  expired once its action is challenged (`ManualChallenge.tsx:111`).
- Any failed fetch drops the pointer to the active job (`ArenaClient.tsx:29`); the card of the action
  itself keeps it.

*Deployment and demo.*
- `deploy-v2` cannot be run again once a `set_controller` has taken effect, since it panics on the
  revert: only `wire-v2` finishes such a suite. The version 1 scripts have no second one: a redeployment
  keeps a half-wired controller, whose wiring then reverts for good, as does any redeployment after
  `deploy-v2` has rewritten the deployment file.
- The slash scripts name their actions by fixed numbers (`v2-duplicate-slash.ts:190`), and the delivery
  script approves a bond that is too small once the agent has been slashed: they stop at a revert.
- A scan of the actions ends at the first failed read (`actions.ts:66`), so that an existing action is
  not found and a second one is initiated and bonded; `OneBondPerInvoice` allows one for each.
- `executeBondedInvoice` never looks whether the action at the predicted id is its own
  (`actions.ts:82`): a late `initiate_action` of a stopped run takes the id, another invoice's action
  is bonded, and where a later action of the clean invoice was paid the demo throws for ever
  (`Overtaken`).
- The programs approve the bond at the present rate (`demo.ts:139`, `actions.ts:101`,
  `runner.ts:117`), the controller takes the bond of the initiation: an action initiated before a
  refund can never be bonded by them (`Overpriced`, for the clean action, on which alone the report
  depends); `arm.ts:749` reads the action's own.
- `seed.ts` takes any action of the first two invoices for done, at whatever status: if it stops
  between initiation and execution of the duplicate, the duplicate is never bonded, and every later
  run ends in "demo terminal state verification failed". `DemoReports` therefore begins where the
  duplicate has been challenged.

**Fairness.** `ResolveFairness`: block time advances, and `resolve_action`, open to everybody, is
called when it can succeed. The listener's timer does so for the expired clean actions only; that a
*challenged* action is resolved rests on the entry point being open and on the challenger, who has half
of the bond to win: no timer of the repository retries it. `LoopFairness`: the event loop runs what is
ready; a run goes on or throws, a handler whose call has ended resumes. `ReceiptsFair`,
`ChallengesFair`: the listener's heartbeat and the watchdog's poll keep scheduling steps (`setInterval`
in both `main.ts`), and the head of the signer queue is answered, since `odra-cli` exits and a
transaction lives half an hour at most; no agent, operator, visitor or window has to move.
`OutageFair` is the same for a service that may restart, whose reconciliation at
start-up goes on. `ArenaFair`: the loops of an open page go on. In `services` fairness is the antecedent of each liveness property, since TLC takes
the parts one at a time: `OperationsFairness` (time passes, the pool's timer goes on, a command exits),
`FundingFairness` (the hourly timer goes on, a check has an answer, the chain executes what was sent)
and `ServiceFairness` (the platform starts the script again, processes go on, an old API lets go of the
port, the heartbeat goes on, events pause now and then as blocks do; the stream owes nothing). `DemoFair`: the operator runs a script again until it has succeeded, turning
to `wire-v2` as well (strongly fair, since each try disables it), a program goes on, block time passes.
Failures are finitely many in every liveness run.

## 4. Proofs

`tlapm` checks every obligation; the theorems hold for all values of the constants under the named
assumptions (`AccountsAssumption`, `ControllerAssumption` and their like: addresses are distinct
where the deployment makes them so, amounts are naturals, the challenger's share is at most 10000).

**Contracts.**
- `VaultTypeCorrect`, `VaultAlwaysSolvent`, `VaultSettlesWhole` (`BondVaultProofs`): with `VaultInv` =
  types and solvency. Solvency is inductive because each settlement lowers the total by exactly the
  amount it pays; the types carry the arithmetic. Lemmas bound the challenger's share and state what a
  transfer does to two balances. They are about `VaultSpec`, in which anybody calls the vault with
  anything; no run repeats that specification, since the proofs cover it.
- `SuiteTypeCorrect`, `VaultAlwaysMirrors`, `SuiteAlwaysSolvent`, `SuiteSettlesWhole`
  (`BondsmanControllerProofs`): with `SuiteInv` = `VaultInv`, the types of pool and controller,
  `UnusedIds` and `VaultMirrorsActions`. `VaultMirrorsActions` alone is not inductive:
  `InitiateAction` writes the entry of `nextActionId`, and only `UnusedIds` says that it had no locked
  bond. `SuiteNext` names one disjunct per entry point with its parameters, so that both suites cite
  the same lemma for a step that they share.
- `InvoicesPaidByOneAction`, `FlaggedAreLaterPayers`: with `PayersInv`, which relates the pool's books
  to the controller's: a claim's record is an executed action with that claim, an unpaid invoice has no
  payer, and a paid one exactly one.
- `SuiteIsEscrow`: initial states map to initial states and every step of the
  suite is a step of the escrow or a stutter. The stake is read off the controller, what is held off
  the vault and the reserve off the pool, so `VaultMirrorsActions` is what makes the three agree.
- `DeployedTypeCorrect`, `AccusedAreAtFault`, `DeployedVaultMirrors`, `DeployedPaysOnce`,
  `DeployedIsEscrow` (`BondsmanControllerV2Proofs`): with `V2Inv` = `SuiteInv`, `PayersInv` and the
  types and proofs of the faults. Version 2 initiates, posts and executes as version 1 does;
  `ChallengeAction` and `ResolveSlash` differ. A proof once given stays one: claims' records, terms and
  windows of executed actions never change, and evidence is never unused again.
- `QuotesKeepTheSuite`, `BackendPricesAlike`, `BondsReachTheirMinimum` (`QuotedBondsProofs`): every step
  of the quotes is a step of the suite, which brings its theorems over. The price is the same by case
  on the score's magnitude. For the minimum, `QuoteInv` says that a quote with a run under way was let
  through at some score whose price reached the minimum; unless the score has risen above it since, a
  run that initiates what was quoted has a bond no lower. The other runs, of a duplicate at another
  amount or with an older bond, are the property's exceptions, and the proof goes by them.

**Off chain.**
- `PaidTypeCorrect`, `OneHolderPerReservation`, `AuthorizationsRunOnce`, `CallsReturnTheirOwn`,
  `ConsumedHaveExecuted` (`PaidQuotesProofs`): with `PaidInv`, in four parts. `ArmInv`: the run under
  way, the transactions in transit and what a run has found on chain agree, and statuses on chain only
  go forward. `RequestsOK`: a nonce is spent by whoever passed the check. `QueueOK`: a request is in
  the queue, under way or answered, and once. `QuotesOK`: a reservation has the one holder, and a quote
  is consumed by the result of its holder. `ActionsReturnedOnce` needs all of it: a run looks for its
  invoice, and invoices are never drawn twice.
- `WatchdogTypeCorrect`, `RowsNeverAhead`, `CatchesAreSlashes` (`WatchdogProofs`): with `ProjectionInv`.
  That a row's rank is no higher than the chain's is not inductive, since a worker writes what it has read
  awaits ago; `RowsReached` and `HeldReached` say that a row, and what a worker holds, is a status its
  action *has been in* (`Reached`), which no later step of the chain undoes. `ArmReached` says
  the same of what the arm service has seen and will write. `CaughtIsSlash` counts the
  action a scan is about to record among the catches. `CatchesAreSlashes` is about the chain with jobs,
  visitors' challenges and restarts beside the watchdog.
- `OutcomesAreFinal`: what a receipt was made from was a terminal row, which by `RowsReached` is the
  chain's last word.
- `HashesExecuted`, `ResolvedLeaves`: with `EvidenceInv` = `ServiceInv` (types of the API),
  `FilesInv`, in which a hash in a file, in a row, in what a reconciliation has noted, in what the
  watchdog has looked at and in what is still to be merged, or has been read to be merged with, is each
  `Backed` by a status of its action, and `Settles`: of the job being settled the two hashes are still to
  be merged (`ToMerge`) or are in the file, unless that was overwritten (`Left`). Two merges at once lose nothing
  because both carry both hashes (`MergesBoth`), which holds where the only calls are jobs', as in the
  specification that the theorem is about; an operator's `resolve` merges one hash alone.
- `ReadyAreSlashes`: with `ReplayInv`: what is issued, or awaits its signature, names the outcome of the
  chain, and a validation that has seen a slash was right.
- `ShownAreSlashes`: with `ArenaInv` and `JobsInv`. A card that holds a deploy holds one of the action it
  shows, one that waits for an answer waits for a request about that action, and a slash it has seen was
  one (`CardHolds`); a deploy kept in the browser is its action's (`KeptHolds`). The jobs the page goes
  by are indices into a table that only grows.
- `ServedSuiteIsWired` (`DemoRunsProofs`): `ServedIsWired` says nothing of a script under way, so
  `ScriptIsWired` adds that every call before a script's position has taken effect, which a resumed
  `wire-v2` brings from its guard and a tolerated revert from the call it repeats.
- `OneBondEach`: with `DemoInv`, a count. `Taken(i)` are the actions of an invoice that are bonded, that
  a run or a late call may still bond, or that is the first of its invoice; with the late initiations
  they are no more than 1 + misreads + deaths. A lost initiation pays when it is lost for the action it
  may later put where a run expects its own, and a scan that is cut short before the run initiates a
  second action (`Spare`, `Chosen`). It holds for any number of disturbances, where the run has two.
- `KeysArmOnce` (`ServicesProofs`): with `KeyInv`. `KeysRunOnce` says that a key in the queue is in
  flight, has one run and no value; `KeyFine`, that once the failures and restarts forgive no more,
  either the run under way has executed its action or the value is kept and is no older than the first
  of the key's actions, so that it is forgotten no sooner.
- `HoursStayWithinBudget`: with `SpendInv`. Every transaction of the hour but the unrecorded ones was
  recorded *after* it landed (`Covered` counts both from their ends), so that the record is forgotten no
  sooner than the transaction; a command under way has found the budget not used up, and nobody records
  meanwhile, since runs queue up.
- `FilesAlwaysLatest`: with `FilesInv`. Once linked a directory stays linked while the container does,
  and a process serves only after the script has linked both.
- `PaymentsAnswerOnce`: with `PaymentsInv`. A transfer has at most one quote, settled before it, and the
  quote's status bounds the actions bonded with it (`AccountOK`): no more than there were runs that failed
  late while it is paid or without an action, and one more otherwise. A consumed quote is never replaced
  or released.
- `RateAlwaysHolds`: with `LimitersInv`, in which `Windows` splits the requests that passed into those
  of the window under way, as many as its count says up to the limit, those of the minute before it,
  fewer than the limit, and those that are too old to count.
- `RedeployedFileIsOneSuite`: with `RedeploysInv`. What the registry has was made from what it has
  before that, up to the position of the run (`JobIsAt`), and it is either the deployment file's suite
  or shares no contract with it; what is wired stays wired, since a second wiring reverts.
- `ReportsAreSlashes`: with `SlashInv`. Whatever a running script is going to report either holds on
  chain, for good, or the call that brings it about is still ahead (`ReportIsComing`).

**Left to TLC.** Liveness (`ExecutedIsSettled`, `ReservationEnds`, `ProjectionCatchesUp`,
`ExpiredIsResolved`, `CandidateIsTried`, `ChallengedIsSettled`, `PendingIsAnswered`, `DemoReports`,
`ReadyPoolFills`, `StreamIsReconciled`, `WatchedIsFunded`), which TLAPS does not reach. Every safety
property of a passing run is a theorem of the specification that the run checks, or of the part it is
about: the suite beside its quotes (`QuotesKeepTheSuite` brings the theorem over), and each of the parts
in `services`.

## 5. What is not modelled

Within the modelled parts: the deployer's use of the vault and pool before they are wired;
replacing a registered verifier; transfers to oneself; U256 and u64 overflow; events as such;
allowances, balances and funding in the arm service; the expiry of quotes and policy freshness (they
are refusals that may happen); reserve, invoice and transaction columns of the projection;
event-stream wake-ups of the projection (they only make ticks more frequent); writes of evidence
files that fail, except the arm service's, or meet on the temporary name that a process has for a file
(`store.ts:55`); the watchdog's reasoning text; the daily
budget, which has the hourly one's form; the wallet extension's own states, and the difference between
the browser's and the chain's clock; what receipts and proofs say besides the outcome; the evidence
files that seed and demo write; the economics and the wording of the replay; the text of analyses.

Left out altogether, with the reasons in `PROJECT.json`: the MCP servers read and render what the
modelled parts have stored and keep no state; configuration is static. The repository has more lines of presentation (`frontend/` beyond the Arena,
`design-system/`) than of everything else together, and these have no state that outlives a render, so
that the share of the code under the models stays well below half.

## 6. Plan

1. Contracts, escrow, quotes, arm service, projection, watchdog: done first, since the bonds matter
   most and the off-chain parts are judged by what they do to them. Then prices, challenges, the Arena,
   operations, receipts, wiring and the demo, and then evidence, replay, payments, hosting, funding,
   assurance, redeployments and the slash scripts: done.
2. Proofs: every safety property that a run checks, and the two refinements, are proved. What is left is
   to say more: the types of the compositions that no run states, and action properties of the off-chain
   parts (what a reconciliation, a restart or a retry may never undo) where the invariants already carry
   them.
