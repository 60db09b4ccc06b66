# A verification of ZettaPay

TLA+ models of the parts of this repository that decide who has paid, who is
granted or paid what for it, and who is told; the TLC configurations that check
them; and TLAPS proofs about them. Paths below are relative to the repository's root.

## 1. The system

The root README declares two packages to be the product: `packages/listener`, a
self-hosted process that watches Bitcoin and Base for payments and sends signed
webhooks, and `packages/cloud`, the same for many tenants over Supabase. They
come first here. It calls the older `packages/api` and the Solana `programs`
legacy; they are modelled where several activities work on one state or a failure
leaves work half done, since that is where a model tells more than a test.

| Component | State it keeps | Operations | What makes it correct |
|---|---|---|---|
| Child-index allocator (`listener/src/storage/{index,json,sqlite}.ts`, `cloud/src/storage.ts`) | `next_child_index` of a merchant | `nextChildIndex` | no index is handed out twice, none is lost without a call that died with it or an answer that was not read |
| Fixed-address watcher (`listener/src/fixed-address-watcher.ts`, `rpc-quorum.ts`) | `seen`, in memory; invoices and events in storage | poll: list, expire, scan the endpoints, decide, confirm or report an orphan | a confirmation has a real, deep transfer of that amount behind it, as far as the endpoints can be trusted; one transfer settles one invoice; every transfer is reported |
| Invoice creation and nonces (`invoice-core.ts`, `evm-amount-nonce.ts`) | the stored amounts | list the active nonces, take a free one, insert | invoices to be told apart by amount have different amounts |
| Webhook dispatcher (`webhook-dispatcher.ts`) | events, attempts, next retry | record, tick, deliver, mark, stop | every event is delivered or uses up a bounded number of spaced attempts |
| BTC listener (`listener.ts`) | socket, subscriptions, candidate transactions | `open`, `message`, `close`, reconcile, backfill | an announced payment is deep; a payment told about is announced |
| Base watcher (`base-watcher.ts`, as `cloud/src/webhook-fleet.ts` starts it) | invoices and balances | poll, confirm, emit | a payment is noticed and announced, and nothing else is |
| HTTP server (`http-server.ts`) | none of its own | `POST /invoice`, `GET /invoice/:id` (expires what it reads) | a read does not undo a confirmation |
| Rate limiter (`rate-limit.ts`) | request times per caller and in all | `check` | at most N requests in any window |
| Cloud dispatcher and fleet (`webhook-fleet.ts`, `fixed-fleet.ts`) | events, watchers per tenant | tick, `deliverOne` | each tenant's events reach that tenant |
| Cloud accounts, plans, billing (`accounts.ts`, `plans.ts`, `billing.ts`, `server.ts`) | merchants, plans, subscriptions | sign up, count and create, activate, renew, downgrade | a paid period is granted once; the cap holds |
| zettapay-core program (`programs/zettapay-core`) | merchants, invoices, proofs, cap, ring of headers | twelve instructions | an invoice is settled one way; proofs stay with who opened them; the ring is a chain |
| zettapay program (`programs/zettapay`) | handles, payments, receipts, fee | bind, record, settle, set the fee | a receipt adds up |
| Cap upgrade (`api/src/beta/cap_upgrade.ts`) | a row of the audit journal | tick: check, broadcast, record | the cap is raised once, and in the end |
| Payouts and refunds (`api/src/{pix,coinflow}/service.ts`, `services/refunds.ts`) | a row for each way out of a payment | settle, refund | money moves once each way |
| Bridge intents (`api/src/bridge/service.ts`) | intents and their burns | quote, record the burn, sync, redeem | the text of a burn's hash is bound to one intent |
| Subscription worker (`api/src/services/subscription_charger.ts`) | due dates, failures | tick, authorise, pause, resume, cancel | a period is paid for once, and none is skipped |
| Agent payments (`api/src/services/agent-to-agent.ts`, `middleware/idempotency.ts`) | payments, cached answers, used proofs | `POST /agents/pay` | a proof pays once, the daily cap holds |
| Webhook jobs (`api/src/services/webhook_worker.ts`) | a queue and the row of the event | run the curve, retry by hand | the row tells what became of the event |
| Incidents (`api/src/services/incident.ts`) | an audit journal and a cache in each process | open, update, resolve, read back | the kill switch survives a restart |
| Program monitor (`api/src/services/program_monitor.ts`) | raised alerts | tick, page, clear | one page for each onset, while the process lives |
| Shutdown (`api/src/lib/shutdown.ts`) | tracked tasks, hooks | signal, drain, close | not modelled on its own (section 5) |

How they interact: an HTTP request or a CLI command takes a child index or a nonce
and inserts an invoice; a watcher reads the active invoices, looks at the chain
through servers that it does not control, writes a status and then an event; the
dispatcher reads events and writes attempts. Billing reads the invoices of the platform
itself and writes the plan that `POST /invoice` counts against. All of it goes through
a storage adapter, with no transaction around two calls, and every `await` is a point
at which the other activities (and, for the JSON store and the API's database, other
processes) run. What is hard, then, is what happens between two awaits: state that
was read before and used after, a crash between a write and the next, an answer that
is lost, or read as an empty one, although what it answers was done, a resource that is given out again
while its former owner still has something in flight. `PROJECT.json` lists these
hazards, each at its line.

## 2. Modules

| Module | Models | State and actions |
|---|---|---|
| `ChildIndex` | the promise of `nextChildIndex` in `storage/index.ts` | a counter, and what became of each call: `Take`, `Waste` (an index that its call does not know it took), `Abandon` |
| `CasChildIndex` | `SupabaseStorageAdapter.nextChildIndex` | read, conditional update, retry; any HTTP call may fail before or after it took effect, and an answer whose body is lost reads as a missed update (`CasMisread`), as in `supabase-db.ts` |
| `JsonChildIndex` | `JsonFileStorage.nextChildIndex` | promise chain `indexQueue` per process, lock file shared by processes, read, rename, release; processes die |
| `RpcQuorum` | `rpc-quorum.ts` | pure operators on the observations, which are log entries `<<endpoint, k>>`: threshold, groups, the first of the largest groups, its shallowest depth |
| `FixedAddress` | `fixed-address-watcher.ts`, fixed-address creation in `invoice-core.ts`, the expiring read of `http-server.ts` | see below |
| `WebhookDispatcher` | `webhook-dispatcher.ts` over both event stores | `Tick`, `SkipDead`, `Post`, `Answered` (which computes the next retry), `MarkReads`/`MarkWrites`, `EndTick`, `Stop`, `Restart`, `Crash`, a failing write, an id recorded again |
| `BtcListener` | `listener.ts` | socket (`Open`, `Close`, `Receive`), reconciliation in three steps, several handlers at a time (`Lookup`, `GetInvoice`, `StoreCandidate`, `StoreConfirmed`, `EmitConfirmed`), REST calls, backfill, crash, a storage call that throws (`HandlerFails`, `ReconcileFails`, `UncaughtError`) |
| `BaseWatcher` | `base-watcher.ts` over one store of xpub and fixed-address invoices | `StartPoll`, then for each invoice `FindCovered`, `FindUnpaid` or `CheckFails`, `StoreBill`, `EmitBill`; payers, withdrawals, failing writes, deaths |
| `CloudDispatcher` | `CloudWebhookDispatcher` of `webhook-fleet.ts` | `Tick`, `FindEvent` (the second listing), `Retire`, `UrlRejected`, `Post` |
| `SlidingWindow`, `RateLimiter` | the promise of the limiter; `rate-limit.ts` | every hit ever let through; the rings, which `prune` empties from the front |
| `Billing` | `billing.ts` | the reconciler's round (`ListPending` .. `EndRound`), Stripe's handlers (`HookFind` .. `HookDowngrade`), the watchers that confirm or expire bills at any time (`ConfirmBill`, `ExpireBill`), events repeated and reordered |
| `PlanGate` | `withinPlan` and `POST /invoice` of `cloud/src/server.ts` | `Authenticate`, `ReadPlan`, `CountWithin`, `CreateBill`; changes of plan, the end of a month |
| `SignUp` | `accounts.ts` | one action for each insert of a sign-up and each query of `setWebhook`, any of which may fail, and a lookup whose body is lost (`MisreadEmail`) |
| `ZettapayCore` | `programs/zettapay-core/src/lib.rs` | one action for each instruction |
| `HeaderWindow`, `BtcHeaderChain` | the promise of the header account in `state.rs`; the ring in `lib.rs` | `InitBtcHeaderChain`, `UpdateBtcHeader` |
| `FeeSettlement` | `programs/zettapay/src/lib.rs` | one action for each instruction, the fee in basis points |
| `CapUpgrade` | `cap_upgrade.ts`, its cron and its broadcaster | `StartTick`, `Land`, `TickApplied`, `TickFails`, transactions that land after their tick, restarts |
| `PayoutRails` | Pix, Coinflow, refunds | `SettleToRail`, `Refund`, `MoveMoney`, `Confirm`, `LoseReply`, `AuditFails`, `ApiRestarts`; a payout that its provider has only taken on completes its row too |
| `BridgeIntents` | `bridge/service.ts` | a burn may have several texts of its hash, which the code compares letter for letter: `QuoteBridgeIntent`, `RecordSourceTransaction`, `SyncReads` and how a sync ends, `CompleteBridgeIntent` |
| `SubscriptionCharger` | the worker over `db/subscriptions.ts`, the routes beside it | `StartTick`, `BeginTransfer`, `LandCharge`, `Charge`, `ChargeFails`, `LoseAnswer`; `Authorize`, `Pause`, `Resume`, `Cancel` |
| `AgentPay` | `POST /agents/pay` | `AnswerFromCache`, `RejectProof`, `RejectOverCap`, `BeginPayment`, `LandPayment`, `AnswerPayment`, `TransferTimesOut`, `PayRestarts` |
| `WebhookJobs` | the API's webhook worker and the manual retries | `StartJob`, `RetryByHand`, the merchant's answer, `Deliver`, `TryAgain`, `DeadLetter`, `HandOutAgain`, `DieRunning` (a second stall fails the job for good) |
| `IncidentBoard` | `incident.ts` in several processes | `Open`, `PostUpdate`, `Resolve`, `Read`, `RestartBoard` |
| `ProgramMonitor` | `program_monitor.ts` | `StartMonitorTick`, `AnswerPage`, `Close`, `RestartMonitor`; conditions begin and end |

Refinement mappings: `CasChildIndex` and `JsonChildIndex` to `ChildIndex`, `RateLimiter` to
`SlidingWindow`, `BtcHeaderChain` to `HeaderWindow`. `FixedAddress` extends `RpcQuorum`, and
`CapUpgrade` extends `ZettapayCore`, whose cap its transactions set.

`MC*` modules hold the sets and functions that the `.cfg` files give to constants.
`MCChildIndex`, `MCSolanaPrograms`, `MCCloudServices` and `MCApiServices` each hold several
components that share no state: the initial state chooses the `part` (or `store`)
that is explored, and the variables of the others stay. `MCFixedParts` and `MCBtcParts` explore
one component in several instances, its `parts`, in one run. `*Proofs` modules hold theorems.
Operators commented as mutants are bugs one could have written in the
definition they stand before: no specification uses them, they serve to see that each
property notices such a bug.

**Conventions.** An action is what the code does from one `await` to the next. A
storage call is atomic unless its adapter reads and writes in two steps (the
JSON store's updates). A transaction of a Solana program is atomic. Sets of identifiers are
model values, an amount is its nonce, a transaction is a name. Variables marked *history* are
never read by an action that models code.

**FixedAddress in detail.** The poll is the sequence `idle -> listed -> scan ->
handle -> (record -> handle)* -> idle`: `PendingForChain` takes the snapshot of
active invoices, `ExpireStale` writes `expired` to the overdue ones of it (each
write a best effort), `Scan` asks the endpoints and keeps what a quorum agrees
on and is not in `seen`, and each decided transfer is then an orphan
(`HandleOrphan`), too shallow (`HandleShallow`) or a confirmation
(`HandleConfirmed`, and one await later `RecordConfirmed`). Matching uses the
snapshot, as in the code, and not the storage. `POST /invoice` is
`CollectActiveNonces` and then `StoreInvoice` or `RefuseInvoice`; `GET
/invoice/:id` is `GetReads` and then `GetExpires`, which in the JSON store
writes back the `tx_hash` that it read. With `UniqueEventIds` (SQLite) recording an
existing id throws and ends the poll; without it (JSON) the event is overwritten.
Blocks and transfers are external: an honest endpoint returns the logs of the
trailing window up to a block it may lag at, once each; an endpoint in `FaultyRpcs` lists any
logs, each up to `MaxListed` times, with any value and depth. An observation is one entry of
one answer, as in `scanToken`, which does not ask whom it came from.

## 3. Runs

Passing runs. Each finishes on two cores within five minutes.

| Run | Instance | What it shows |
|---|---|---|
| `child_index` | cloud: 4 calls, 3 attempts; JSON: 3 calls, 2 processes that may die | both allocators implement `ChildIndex`, although calls fail, answers or their bodies are lost and processes die with the lock; a call of the cloud gives up only after three indices were taken; every call of the JSON store settles |
| `fixed_address_quorum` | JSON store, 3 endpoints, quorum 3, in three parts: 1 faulty endpoint that may list a log twice, 1 invoice, 1 transfer, 1 crash; 3 invoices on 2 nonces, 1 crash; 2 invoices, 2 transfers on 2 nonces | an invoice is confirmed, and announced, only for a transfer of its amount that is `minConfirmations` deep, where the faulty endpoints cannot fill a quorum; nonces of requests that do not overlap differ, as the ring wraps and the pool runs out; one transfer settles one invoice within a run of the process |
| `fixed_address_liveness` | 1 invoice, one mishap of {crash, storage error}, in two parts: JSON store, 2 transfers; SQLite store, 1 transfer | every transfer that gets deep enough is reported; every confirmation is announced unless a fault came between; a transfer gets one terminal decision |
| `dispatch` | 2 events, one recorded twice, curve of 2 delays, 1 crash, 1 graceful restart, 1 failing write | at most `MAX_ATTEMPTS` requests per recording plus one per fault; a delivered event was accepted; attempts are spaced by the curve; every event settles |
| `btc_listener` | 1 invoice, 2 handlers, in two parts: 2 transactions and one mishap of {deadline, lost socket, crash, throwing storage call}; 1 transaction and none | what is announced is deep enough; a stored confirmation is announced unless the process died or the call that records it threw; a payment that the server told about is announced, in whatever order messages, blocks and reconciliation are handled |
| `solana_programs` | 2 merchants, 2 invoices each, 2 signers, 2 roots; 2 timer ticks and 1 manual, 1 failure, 1 restart; 7 heights of headers on 2 branches in a ring of 3; 4 amounts and 4 rates | proofs on two rails and a sweep settle an invoice one way; a proof stays with its submitter and root; the ring implements the window; receipts add up; the cap is raised once when nothing fails, and in the end in any case |
| `cloud_services` | 2 crypto subscriptions and a card subscription of one merchant, 1 failing round; 2 requests, 2 months, changing plans; 3 hits in a window for 2 callers; 3 sign-ups and 2 `setWebhook`, with lookups that fail or are not read; 3 Base invoices, 2 on a shared address, 1 withdrawal, 1 death | nobody has a plan for longer than was paid for and a failed round explains; a payment confirmed while its row is open is granted; the cap is exceeded only by requests that overlap; the limiter implements the window; a key opens a whole account; an address of its own confirms an invoice only for its payment, and is announced once; a payment on its address is noticed |
| `api_services` | see the head of `MCApiServices`: two or three actors and one or two faults for each part | what each service still guarantees, with every exception part of the property: money moves once each way; the text of a burn's hash is bound once; a period is charged once but for lost answers and overlap; the daily cap holds but for transfers that timed out and landed; a row of a webhook event is true, and pending only while something is to come of it, but for a job that stalled twice; the kill switch survives a restart; a lasting condition is paged once but for ticks beside each other and restarts |

Runs that find a property *violated*: what the code's own documents promise and the
code does not do. Each is described under `findings` in `PROJECT.json`.

| Run | Promise | What happens |
|---|---|---|
| `btc_reconnect_is_deaf` | the listener walks pending invoices to `confirmed` | a new socket gets no subscriptions until the set of addresses changes |
| `cloud_never_delivers` | `deliverOne` delivers the event | it looks for the event among those due at 1970, where it never is |
| `base_confirms_unpaid` | invoices on one address are told apart by their amount | the Base watcher confirms each invoice whose address holds enough, also by the payment of another |
| `quorum_counts_entries` | a confirmation needs two endpoints that agree | the quorum counts log entries, so one faulty endpoint that lists a log twice confirms an invoice nobody paid |

More counterexamples, of the same kind or a consequence of the ones above, are found by hand:
take the named configuration, put the property in the place of its invariants and
properties, and change the constants as told (`tlc -config X.cfg <module>`).

| Start from | Property | Change | What TLC shows |
|---|---|---|---|
| `fixed_address_liveness.cfg` with module `MCFixedAddress` and `SPECIFICATION Spec` | `PaymentSettlesItsInvoice` | `TwoInvoices`, `OneTransfers`, `BlockWindow` 1, no faults | a nonce is free again when its invoice expires; a payment mined in time and handled later settles the next invoice that got the nonce |
| | `RedetectionKeepsId` (property) | `OneTransfers`, `BlockWindow` 1, `MaxErrors` 0 | after a restart `seen` is empty and the invoice is settled, so the same transfer becomes a `payment.orphan` with another id |
| | `OrphanNeverActivates` | `OneTransfers`, `MaxErrors` 0 | a transfer reported as orphan settles an invoice created after a restart |
| | `UniqueActiveAmounts` | `TwoInvoices`, `NonceMax` 2, `BlockWindow` 1, no faults | two overlapping POSTs list the same nonces and take the same one |
| | `OneDecisionPerTransfer` | `UniqueEventIds` TRUE, `NonceMax` 2, `BlockWindow` 2, no faults | in SQLite the event of a second payment is refused (its id exists), and a later poll reports the transfer as an orphan although it is the `tx_hash` of the invoice |
| | `NoPaymentVanishes` | `NonceMax` 2, `BlockWindow` 2, no faults | a second payment handled with the same snapshot overwrites the event of the first, which no event mentions then |
| | `EveryTransferReported` (property) | `SPECIFICATION FairSpec`, `UniqueEventIds` TRUE, `MaxErrors` 0 | after a restart SQLite refuses the event of an orphan it has, which ends each poll before the transfers behind it, as long as the orphan is in the window (here: for good) |
| | `PullAgreesWithWebhook` | `OneTransfers`, `NonceMax` 2, `BlockWindow` 1, no faults | a GET that read `pending` stores `expired` over `confirmed` |
| `dispatch.cfg` | `EveryEventIsSent` (property) | `ShortCurve`, `InitialDelays` {0, 1}, `BatchSize` 1, `Sorted` TRUE, `MaxLate` 3, `Reemitted` {}, no faults | events out of attempts stay due and fill the batch |
| `btc_reconnect_is_deaf.cfg` | `AnnouncedOnce` | `SPECIFICATION Spec`, `TwoHandlers`, `Required2`, `MaxCloses` 0 | two handlers both find the invoice pending and announce it under two ids |
| | `BackfillAnnounces` (property) | `MaxCloses` 0 | the backfill runs before any address is known, so it drops what it finds |
| | `CandidateIsConfirmed` (property) | `Required2`, `MaxCloses` 0, `MayExpire` {i1} | a payment short of its depth at `expires_at` is not followed any more |
| | `NotifiedIsAnnounced` (property) | `TwoTxs`, `Required2`, `MaxCloses` 0 | a second, never mined transaction replaces the candidate |
| `cloud_services.cfg` | `CryptoStands` | `PlanOf <- MCSamePlanOf` | the end of a card subscription ends a period of the same plan that was paid in crypto |
| | `NoPeriodTwice` | none | a round that fails after extending the plan extends it again |
| | `ConfirmedLateIsGranted` (property) | none | a bill confirmed after its row was closed grants nothing |
| | `CapHolds` | none | two requests count before either creates |
| | `TakenHasKey` | none | a sign-up that failed keeps the email of a merchant nobody can open |
| | `OneWebhook` | none | two `setWebhook` that find none insert two |
| `solana_programs.cfg` | `NeverRaisedTwice` | none | a tick that fails after its transaction was sent is followed by another |
| | `RegisteredDecodes` | none | an account whose chain set is shorter than the longest is read with the wrong length, and never decodes |
| `api_services.cfg` | `OneWayOut` | none | a payment is paid out and refunded |
| | `CompletedIsPaidOut` | none | a row is completed for a payout that its provider only has as pending |
| | `BurnFundsOneIntent` | none | one burn is bound to two intents, by two spellings of its hash |
| | `DoneForGood` (property) | none | a sync that answers late reopens an intent that is done |
| | `OneChargePerPeriod`, `CanceledIsNotCharged` (property) | none | two workers charge a period from two copies; a copy outlives a cancellation |
| | `LandedHoldsCap` | none | a transfer that timed out no longer counts, and lands |
| | `OnePaymentPerKey` | none | two requests with one key at the same time both pay |
| | `AcceptedIsNotDead`, `NotPendingForGood` | none | a lost reply makes an accepted event dead; a manual retry that dies, or a job that stalls twice, leaves it pending, where no retry is allowed |
| | `SwitchReachesAll` | none | a process that has read the journal does not hear of the switch |
| | `SurvivesAnyJournal` | `JournalLimit` 1 | an incident opened before the newest is forgotten |
| | `OnePagePerOnset` | none | a tick clears, from an old snapshot, what another has raised; a restart forgets what was raised |

"No faults" is `MaxCrashes`, `MaxErrors` (and `MaxStops`) 0.

**Bounds, and why they are enough.** In `FixedAddress`, two invoices and two transfers let a nonce be
given out again, a transfer meet a second invoice and an invoice a second
transfer, which are all the ways in which the code relates them; three invoices on a ring
of two nonces (`NonceMax` 2) make it wrap and run out, with two of them active together. Three
endpoints are the default, one of them a liar and two that lag differently; with the default threshold
of two a liar that lists a log twice fills the quorum, which is what `quorum_counts_entries` shows, so
that the passing run has a threshold of three and a liar limited to two listings. The theorem's
condition, `FaultyAreFew`, is the same in general: without a limit on what an endpoint lists no
threshold helps. `MaxHeight` 2 with
`minConfirmations` 2 has a transfer too shallow, just deep enough
and out of the window; 3 lets two transfers be deep enough in the same poll. One crash and one error suffice
because a second one finds a process in a state that the first could leave. Four calls
and three attempts let a call lose every race. Two handlers are what it takes
for one to act on what the other changed; a third only repeats the pattern. One
fault per behaviour is what the guards `Mishap` of `MCBtcParts` and `MCFixedParts` allow. Seven heights of headers turn the ring of three slots twice. The
limiter's steps 1 and 3 put a hit on, just inside and just outside the edge of a window of 3. The fee's
amounts 0, 1, 333 and 10000 and its rates 0, 1, 100 and 101 are the boundaries of its
rounding and of its cap. In the services of the cloud and of the API two actors
race for one row, a third (in `AgentPay` a fourth, in `WebhookJobs` the double of a job)
is there where the code tells actors of different kinds apart, and faults are counted so that one
can meet the recovery from another. Every bound is a constant, marked `bound:` where it is
declared if it has no counterpart in the code. Where a component is
proved about (below), its bounds do not matter to the proved property.

**Fairness, and why the code justifies it.** The loops reschedule themselves in a
`finally` or after a `catch`, so their steps are weakly fair. Promises of local
calls settle. The network is not assumed to answer: what is assumed is that an
endpoint asked forever answers in full again and again (strong fairness of
`FullScan` in `FixedAddress`, of `RestAnswers` in `BtcListener` and of `FindCovered` in
`BaseWatcher`; in `CloudDispatcher` of `Post`, that a URL is not rejected whenever it is
checked). The reconciler of `Billing` has weak fairness for its own steps only; confirmations,
Stripe and the card holder have none. The cron of `CapUpgrade` keeps firing, its calls end, and a
transaction the program may take lands or its tick fails, finitely often.
Blocks keep coming up to the bound, time passes, a stopped process is started
again. Crashes, errors, lost sockets and requests have no fairness. In a module with
parts, fairness is that of the part that is explored. `EveryEventSettles` is
checked with a batch that holds every event, and `NotifiedIsAnnounced` (as `PaidOnceIsAnnounced`) with
one payment per invoice and no deadline, since without these they fail (the table above).

Deadlock is checked where the system never stops; `child_index`, `solana_programs`,
`cloud_services`, `base_confirms_unpaid` and `api_services` have calls that are all made, windows
that are full and processes that exit.

## 4. Proofs

TLAPS proves the following for every value of the constants (any number of calls,
processes, invoices, transfers, endpoints, nonces, requests, crashes and errors), from the
assumptions on constants named in the modules (`...Assumption`) and nothing else.

| Module | Theorem | Along which argument |
|---|---|---|
| `ChildIndexProofs` | `ChildIndexSafe`: `UniqueIndices` and `NoUnaccountedGap` of the promise itself, wasted indices included | the indices consumed are exactly those below the counter, so the next one is new |
| `AllocatorProofs` | `CasTypeCorrect`; `CasIsLockFree`: a call gives up only after `MaxAttempts` indices were taken | the counter is at least as far as any call's reading plus the rounds it lost, to others or to an answer it could not read |
| | `CasImplements`, `CasUnique` | each update that applies is a `Take` of the value read, by its condition, or a `Waste` if the call reads it as missed; the rest stutter or `Abandon` |
| | `JsonTypeCorrect`, `JsonOneWriter` | a call past `locking` is the head of its process's queue and holds the lock, and its process lives; so it is the only one |
| | `JsonImplements` | the lock holder's reading is still what the file holds, so replacing the file is a `Take` |
| | `JsonNoGap` | by `JsonImplements` and `ChildIndexSafe` |
| `FixedAddressProofs` | `AgreementIsHonest`, of `RpcQuorum` | where the faulty endpoints have fewer entries than the threshold between them, a group as large as the threshold has an entry of another; the depth agreed on is the least of the group |
| | `FixedAddressTypeCorrect` | with: while an event is being recorded there is a decision to record |
| | `FixedAddressConfirmedIsPaid`, where `FaultyAreFew` | `Inv`, below |
| | `FixedAddressNoncesDiffer` | `NonceInv`, below |
| | `FixedAddressOneInvoice`, `FixedAddressOneDecision` (JSON store) | `OnceInv`, below |
| `WebhookDispatcherProofs` | `RequestsBounded`, `BackoffRespected`, `DeliveredAccepted` | `Inv`, below |
| `BtcListenerProofs` | `AnnouncedDeep`, `ConfirmedAnnounced` | `Inv`, below |
| `SolanaProofs` | `CoreOneRail`, `CoreDense`, `CoreProofStaysBound` | `CoreInv`: types, `SettledByOneRail` and `IndexesAreDense`, inductive together |
| | `CapAppliedOnce` | `CronInv`: as long as nothing disturbs the cron, one tick of the interval is under way at most, there is no row yet, and only its own transaction can have landed |
| | `RingImplementsWindow`, `RingIsAChain` | the ring read backwards from its head is the window; `SlotAfterWraps` is the arithmetic of the wrap-around, and the head is the latest hash |
| | `FeeReceiptsAddUp` | `SplitAddsUp`: division by the basis points, at any rate below them |
| `CloudProofs` | `GateHoldsCap` | `GateInv`: a month's invoices and the requests about to create one in it stay within the highest cap compared with and the number of requests less one |
| | `NoMoreThanPaidFor` | `BillingInv`, below |
| | `AccountIsWhole` | `AccountInv`: the rows of a sign-up are the first of those it asked for, in the order of the inserts (`RowsInOrder`), so that the key, the last, comes with all; and of two merchants with one email neither found the other (`FoundNobody`), since they overlapped or an answer was not read |
| | `OwnAddressWasPaid` | `BaseInv`: nothing is on an address that only one invoice has before that one is paid (`EmptyUntilPaid`); what is listed is not confirmed, and what is about to be announced has not been |
| | `NothingIsEverSent` | why `EveryEventIsSent` is violated: whatever the events, curve and batch, `deliverOne` never holds an event (`NothingInHand`), as none was due at the epoch |
| | `LimiterImplements` | `LimiterInv`: the rings hold every hit of the last window, numbered without repetition, and the ceilings hold, so that counting a pruned ring is counting the window; `WaitIsEnough`: rounding up never tells a caller to come back too soon |
| `ApiProofs` | `PayoutOnce` | `PayoutInv`: money moves only for a request that was made, once, and is then awaited, taken on or unsure; a completed row is not awaited any more |
| | `BridgeBound` | `BridgeInv`: no text of a hash has two intents, and what a sync has read of an intent was not terminal |
| | `AgentPaysOnce` | `AgentPayInv`: a payment with a row has used its proof, and an answer "created" is in the cache before it is given |
| | `JobsTellTheTruth` | `JobsInv`: as long as no reply was lost and no job was handed out again (`Certain`), one dispatch at most is under way or waiting, and what it has heard is what the merchant did; a pending row without a dispatch to come has one of three reasons, of which a second stall is one (`StallsFacts`) |
| | `AgentsKeepToCap` | `SpendInv`: the payments that count never exceed the cap, and of what has left the wallet only the failed ones do not count |
| | `ChargesAccountedFor` | `ChargerInv`, below |
| | `SwitchOutlivesProcess` | `BoardInv`, below |
| | `MonitorPagesOnce` | `MonitorInv`, below |

`ConfirmedIsPaid` is not inductive: the poll acts on decisions it made earlier and a GET
writes back a hash it read earlier. `Inv` adds that each decision in hand is true
of the chain (`BatchIsTrue`, by `AgreementIsHonest`), that the invoice whose event is being
recorded is settled by it, that the hashes held by GETs settle their
invoices, and that nothing is known of an invoice that is not stored (`Fresh`),
so that its amount may still be chosen. What a step may change is stated once
(`Changes`, proved action by action), and the parts of `Inv` follow from it.

`SequentialNoncesDiffer` needs that what a POST found stored is still stored and
is active only if the POST found it active (`Known`): an invoice never becomes active
again. `OneInvoicePerTransfer` and `OneDecisionPerTransfer` need `seen` to
hold every transfer that settled an invoice, or that a pending GET may write back,
except the one whose event is being recorded, and `batch` to hold none of these.

The dispatcher acts on two copies of an event, what the listing said of it and what
`markWebhookDelivered` read of it, while the watchers may write the event afresh. The `Inv` of
`WebhookDispatcherProofs` orders the copies: the record never has more attempts than the copy about to
be written, nor that copy more than the listing (`ListingInv`, `OutcomeInv`), so a write never takes an
attempt back. `BudgetInv` then pays for each request with an attempt on record, an earlier
recording, the request in hand or a fault, and `DelayInv` says that the delay after the attempt
on record has passed or is still stored, or is in the hands of the call that will store it, which computed it before
(`Answered`) and may store it late; that the curve does not decrease is
needed, since the delay is taken from the listing's copy.

A handler of the Bitcoin watcher decides on what a message or a REST answer said a while ago.
The `Inv` of `BtcListenerProofs` says that everything in a socket or in the hands of a handler is in
`Truth` (a block once told is still the block of that transaction, and `TruthLasts` while the chain
grows), that no height the listener knows is above the chain's, hence that a depth it computes is
never more than the real one (`DepthIsReal`); that an invoice confirmed and not announced is in the hands of a
handler, unless the call that records its event threw or the process died; and that nothing is in hand when the
backfill takes its handler, so that it drops no announcement.

`UniqueIndices`, `NoUnaccountedGap` and `OneWriter` of the allocators, and
`IndexesAreDense` and `WindowIsAChain` of the program, are proved and not checked by a run of their own. The Solana theorems about the
core and the cron let every instruction be called by anyone at any time, beside the cron.

`PlanIsPaidFor` compares the end of a plan with all that was ever paid, while the reconciler and
Stripe's handlers carry ends that they computed awaits ago. `BillingInv` says of each such end in
hand that it is paid for already. The plan itself is within the last charge and the confirmed invoices that
were granted (`Credits`: rows that are settled, the one whose round has activated the plan and is to settle it, and the
failed rounds); the end about to be granted is within one more, which the confirmed, still pending row in hand
pays for (`JobShape`); that of a handler is within the charge its event tells of, since no event tells of
more than the card was charged for (`MailShape`, `HookShape`). Granting twice is possible only when a round
fails between the two writes, and that round is a mishap: it pays for the second.

`ChargesAreExplained` bounds a counter that several workers add to, each from a copy of a listing. The
invariant counts what is on its way with what has landed (`Incurred`) and says of which periods a
first charge may still begin: those that are not past, of which no copy is in hand, and those
after a copy in hand, whose worker may turn the date back, have been charged only as often as is
excused (`ChargesBounded`). `PastIsCharged` says that neither the date of a row nor that of any copy has
moved past a period that is not paid for.

The journal of incidents is read back in another order than it was written. `BoardInv` says that
what operators were told of an incident is what its openings, then updates, then resolutions amount to
(`ApplyUpdates` is the last of the updates, which is the one last appended), and that a
process that is not behind holds the same in its cache; `split` is set exactly when a process writes from
a cache that lacks another's entry.

A tick of the monitor compares a snapshot with flags that other ticks set. Each further page for a
condition needs a tick that may page for it, and that its flag is down by then. `MonitorInv` counts the first
(`MayPage`: the ticks that found it and have not passed it, and one to come while it lasts) and the second
(`MayClear`: the ticks that did not find it and will clear the flag, and one if it is down now); the lesser
of the two is what may still be paged for, and together with the pages sent it is
within the onsets, the ticks that ran beside others and the flags that restarts forgot. Neither count alone would do: a condition that lasts
always has a tick to come.

The sums and counts in these proofs are of sets of any size. A sum by the fold of the community
modules has no theorem in the library, so `ApiProofs` proves what it needs: that `AmountsOf` of a set with one more
element is larger by its amount, and that it is additive and monotone. The induction over finite sets
behind it does not use the library's rule, which takes an operator, but takes a smallest counterexample: a
subset of least cardinality (`MinimalSet`), by the well-foundedness of the naturals. For the same reason
the order of inserts, the replay of a journal and the last charge are stated by positions (`Missing` of
`SignUp`, `Of` and `Listed` of `IncidentBoard`) and by a quantifier (`PaidUntil` of `Billing`)
rather than by a fold.

Model-checked only: liveness, for which TLAPS has no reasoning about fairness and ENABLED that the
proofs could use here (`EveryCallSettles`, `EveryTransferReported`, `EveryEventSettles`,
`PaidOnceIsAnnounced`, `CapIsRaised`, `ConfirmedIsGranted`, `PaidIsAnnounced`). `ConfirmedIsAnnounced` of
`FixedAddress` is one of these, that of `BtcListener` a proved invariant. Every invariant and
every action property that a passing run checks is proved. No module proved about declares a recursive operator.

## 5. What is not modelled, and why

- Signatures, key derivation, address formats, payment URIs, JSON and HTTP
  parsing, Merkle and receipt proofs: data, not control; out of a model checker's reach. Whether
  a proof verifies is a choice, for any root: the work of a header is measured by the bits that it carries itself
  (`lib.rs:544-564`), so that the program alone cannot tell which roots were mined.
- Prices: one base price stands for all, as amounts of different prices and tokens
  do not meet. The rounding that keeps them apart is not modelled.
- Chain reorganisations: the code reacts to none; `minConfirmations` is its answer, and the ring of
  headers has no way back.
- Downtime longer than the block window: the window of the liveness run covers the
  chain, so it says nothing of transfers that leave it.
- SQLite's `nextChildIndex`: one synchronous transaction.
- Shutdown of the API: `shutdown.ts` drains tasks that were tracked, and nothing calls `track`. The workers close
  the database, whose hook they register first, under jobs that still run (`worker.ts:44`); what that does to a
  job is a write of its outcome that fails, `FinalizeFails` of `WebhookJobs`.
- The composition of the cloud's Base and fixed-address watchers on one store: `BaseWatcher` has the
  shared addresses and `FixedAddress` the rest; together they exceed what TLC explores.
- Process start, CLI and migration between stores; URL guard; webhook receiver; the
  fixed-address fleet's list of watchers: sequential, or a classification of strings.
- `packages/api`: `app.ts`, `server.ts`, `services/payments.ts`, `db/payments.ts` and `db/merchants.ts` do
  not parse at this commit (two versions of a statement run into each other, as at
  `app.ts:160-168`), so that there is no code to be faithful to; of `db/payments.ts` the
  statements that others rely on are read where they are whole. The other services (KYC,
  ambassadors, treasury, agent directory, reports) read and write one row per request.
- The custodial service, the SDKs, the shop plugins, the MCP server, the site and the
  scripts: clients and pages without shared state.

## 6. What could come next

1. Refinements for the components proved by invariants only: an abstract specification of a
   granted period for `Billing`, and of an announced payment for `BaseWatcher`.
2. An abstract specification of payments (an invoice goes from pending to confirmed or
   expired, with one settling transfer) that `FixedAddress` and `BtcListener` implement
   where the JSON and SQLite stores allow it.
3. The window left by a long downtime, in `FixedAddress`; the rounding of `evm-amount-nonce.ts`.
4. The API's payment service, once it parses.
