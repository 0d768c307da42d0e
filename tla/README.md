# A TLA+ verification of dex-arbitrage

dex-arbitrage is a Rust program that follows the pools of several decentralised
exchanges on an EVM chain (Base, Polygon), looks for cyclic trades that end with more
than they start with, and submits them as transactions to an executor contract.  This
directory holds TLA+ models of the parts whose correctness depends on the order of
things: what happens between two awaits, which answer arrives late, what a restart
forgets, what is left when one step of several fails.  TLC checks each model on a small
instance, and TLAPS proves the most important invariants for every instance.

Paths below are relative to the repository: `src/engine.rs` is the Rust file,
`revised_dex_arb_design.md` the design document.

## 1. The system

### 1.1 Components

| component | source | state it keeps | operations |
|---|---|---|---|
| engine loop | `src/engine.rs` 39-391, 1396-1445, 1745-2155 | `poll_from_block`, `snapshot_id`, the spec table, the current snapshot | bootstrap; a round of poll, tip, reorg handling, refresh, publish, process |
| trade submission | `src/engine.rs` 393-1083 | (in the managers below) | depeg guard, risk check, nonce, sign and submit, wait for the receipt, book the result |
| risk limits | `src/risk/limits.rs` | `open_tx_count`, `daily_pnl_usd_e8` by day | `pre_trade_check`, `mark_submitted`, `mark_failed_submission`, `mark_finalized` |
| depeg guard | `src/risk/depeg_guard.rs` | none | `stable_routes_allowed` |
| nonce manager | `src/execution/nonce_manager.rs` | `next`, `states`, `pending_txs` under three locks | `sync`, `reserve`, `mark_*`; and `reconcile`, `cancel`, replacement helpers nothing calls |
| submitter | `src/execution/submitter.rs` | none | try the channels in order; poll for the receipt |
| reorg detector | `src/reorg/mod.rs` | `chain`, `block_by_hash`, `block_by_number` under three locks | `update_chain`, `rollback_to_block` |
| graph store | `src/graph/snapshot.rs` | current snapshot, ring of 8 | `new`, `publish`, `rollback_to_block`, `rollback_to_snapshot` |
| graph model | `src/graph/model.rs`, `distance_cache.rs` | adjacency lists, pair index, distances | rebuilt whole from the pools |
| event stream | `src/discovery/event_stream.rs` | WebSocket queue, `recent_wss_logs`, `last_wss_reconciled_block`, `last_wss_reconcile_at` | `poll_once` (HTTP, WebSocket with reconciliation, pending logs), refresh batches |
| pool refresh | `src/discovery/mod.rs` 598-638, 1010-1116 | the pools of the snapshot | `refresh_pools`, `apply_pool_patch` |
| bootstrap and caches | `src/discovery/mod.rs` 84-596, 1236-1475, `src/cache/mod.rs` | files under `state/` | bootstrap, checkpoints, replay after a restart, atomic writes |
| factory scanner | `src/discovery/factory_scanner.rs` | per-DEX scan cursors, the discovery cache | scan of factories, resumable |
| pool fetcher, admission | `src/discovery/pool_fetcher.rs`, `admission.rs` | none | read a pool's state in batches; admit or refuse it |
| RPC client | `src/rpc/mod.rs`, `rpc/scheduler.rs` | endpoint circuits, compute-unit limiter | `request` with failover |
| detector | `src/detector/` | none | candidate cycles through changed edges |
| router, exact quoter | `src/router/` | quote cache, V3 revert cache, direction blocklist | amounts, splits, quotes by snapshot id |
| validator | `src/execution/validator.rs` | failure cache | simulate, estimate gas, price a plan |
| capital, valuation, gas | `src/execution/capital_selector.rs`, `valuation.rs`, `gas_tracker.rs` | a gas quote | choose the capital source, net profit |
| executor contract | `contracts/ArbitrageExecutor.sol` | owner, operators, allowed tokens and targets | execute a route atomically or revert |

### 1.2 How they interact

One process is one asynchronous task, `run_chain`.  It owns the managers and calls them
directly; concurrency is between that task and what it awaits: the RPC endpoints (of
which any may answer, lag or fail), the WebSocket task that appends logs to a shared
queue, the nodes that hold submitted transactions, and the chain.  Within the process,
candidates are routed one after the other, or several at once where `simulate_only` is set
(`candidate_processing_concurrency`); submissions are sequential.  State survives a restart
only in the cache files; nonces, counters and booked results do not.

A round of the loop: the event stream returns the logs of new blocks as a refresh batch;
the cursor moves to the answered head; the head's header goes through the reorg detector,
and a reported rewrite restores an older snapshot, moves the cursor back and discards the
batch; otherwise the batch is applied to the pools and, if an edge changed, a new snapshot
is published, and the detector, the router and the validator run on it, and the accepted
plans go through the submission path one after the other.

### 1.3 Hard behaviours

- Between `mark_submitted` and the receipt six paths leave the submission, and each must
  settle two managers (`src/engine.rs` 918-1030).
- A channel that answered with an error may have taken the transaction; a transaction
  whose receipt was given up may still be executed; a restart knows neither.
- Nodes name heads out of order, and the head, the logs and the label of a snapshot come
  from three requests that may be answered by three nodes.
- A report of a rewrite discards a batch whose blocks the cursor has already passed.
- The detector edits three containers on five paths while its helpers lock them again.
- Ids of snapshots are used again after a rollback, and caches are keyed by them.
- Logs may arrive twice, late or not at all, and the pool states they produce must not
  depend on that.
- One batch mixes logs that carry a state, logs that carry a difference and logs that only
  ask for a read; the reads happen later, one request after the other.
- A scan of blocks is cut into chunks and requests that fail half-way, are halved, retried,
  or replaced by another way to scan, over endpoints that are passed over for a while.
- A start goes on from files an earlier start left when it died, with answers of nodes that
  may be behind the one that was asked then.
- The searches prune at many places by different orders; what is pruned must not be what
  they look for, and no test enumerates the markets on which it might be.
- The failure cache bars later plans by keys of three kinds with times of their own; balance
  and prices are old by the time a plan is submitted.

`PROJECT.json` lists the hazards at their lines, with the properties that cover them or
the reason why none does yet.

## 2. The modules

| module | models | relation to the code |
|---|---|---|
| `NonceLedger` | the data of the nonce manager | one operator per method, from the ledger before a call to the ledger after it; the map of hashes and fees is its set of keys |
| `TradeLifecycle` | submission path, risk limits, nonce manager, submitter, the nodes and the account's chain | everything between two awaits of `process_routed_candidate` is one action: `Trade` up to the first request, `SubmitOk` / `ChannelFails` per channel, `SubmitFails`, `ReceiptSeen`, `ReceiptUnknown`; `Start` and `Crash` are the process; `NodeAccepts`, `Mine`, `Evict`, `NextDay` are outside it |
| `TradeBook` | what submission promises | abstract specification; `TradeLifecycle` implements it |
| `ReorgDetector` | `src/reorg/mod.rs` | one action per outcome of `update_chain`; a constant says whether its locks are reentrant (as built they are not) |
| `GraphStore` | `src/graph/snapshot.rs` | operators `Publish`, `RollbackToSnapshotOf` over the current snapshot and the ring |
| `ChainFollower` | `run_chain` with HTTP polling, composed of the two above and an external chain | a step per request: `Poll`, `TipKnown`, `RefreshPublishes`, ...; `Grow` and `Reorganise` happen between any two |
| `WssFollower` | the same loop with `EVENT_INGEST_MODE=wss` | extends `ChainFollower` and replaces its poll by `poll_wss_hybrid` with the subscription, its queue, the recent keys and the reconciliation |
| `PoolPatches` | refresh batches, `refresh_pools`, the requests of a read, publication: what becomes of the pools | a step per request; the chain grows between any two; a pool's state is the logs it reflects |
| `LogRequests` | the chunked scans for logs, `RpcClient::request` with its circuits, the budget of compute units | a step per request sent, answered, failed or timed out |
| `FactoryScan` | `scan_all` and the discovery cache | one action per kind of factory and per request; the process dies and starts between any two |
| `PoolBootstrap` | `bootstrap`, the pool state cache, batches of reads, the replay | a step per batch, checkpoint and request; the process dies and starts between any two |
| `CandidateSearch` | `find_candidates` | one step per pair and anchor, then one per selection |
| `PlanSearch` | `search_best_plan_with_stats_mode` and the split optimisers | one step per round of quotes |
| `RoutePipeline` | `process_refresh` up to submission, validator, failure cache, choice of capital | a step per request; time passes and the owner withdraws between any two |
| `FlashLoan` | `src/execution/flash_loan.rs` | the fee of a loan, for the two modules above |
| `TradeLifecycleProofs`, `PoolPatchesProofs`, `FactoryScanProofs`, `LogRequestsProofs`, `PoolBootstrapProofs`, `CandidateSearchProofs` | theorems about the modules they are named for | |
| `RoutingProofs` | theorems about `RoutePipeline` and `PlanSearch` | |
| `ChainFollowerProofs` | theorems about `ReorgDetector`, `ChainFollower` and `WssFollower`, each of which the next one builds on | |
| `MC...` | the constants of the instances TLC checks | |

The operators named `...OffByOne`, `...KeepsSlot`, `...Silent` and the like, under a
comment that begins with "Slip", are plausible mistakes in the definition that follows
them.  Nothing uses them; `PROJECT.json` lists which property notices which mistake.

### 2.1 Submitting a trade: `TradeLifecycle`

`pc` says where the engine's task is.  `ledger`, `openTxCount` and `dailyPnl` are the
fields of the managers and vanish in a crash; `broadcast`, `mempool`, `chainNonce` and
`mined` belong to the network and do not.  The model keeps what is hard to reason about:

- a channel that fails may still have delivered the transaction (`ChannelFails`,
  `Crash`), and nodes may resend it later (`NodeAccepts`);
- `ReceiptUnknown` covers the timeout and a failed receipt request and is possible even
  for an executed transaction, because the node that is asked may lag;
- `Start` reads the pending count of one node, which may leave out any queued
  transactions it has not seen (`PendingCount`);
- a result is booked on the day of the receipt, the limit is checked on the day of the
  submission.

Plans are data: amounts, the capital source, the net profit, the gas and the verdict of
the depeg guard.  A signed transaction is its nonce, the run of the process that signed
it and its plan.  Nonces, days and runs are bounded (`MaxNonce`, `MaxDay`, `MaxRuns`).

Properties.  `LedgerConsistent`: the two maps of the nonce manager and its counter agree
with each other and with the transaction in hand.  `SignedOnce`: one run never signs two
transactions with one nonce.  `OpenCountExact`: no path leaks a slot or returns one
twice.  `DailyLossBounded`: a day's loss exceeds the limit by at most one transaction's
gas.  `IncludedIsMined`, `PnlIsObservedOutcomes`: what is called included was executed,
and the booked profit is the sum of those outcomes.  `NonceOnlyAdvances`: the states of a
nonce are passed in one direction.  `SlotReturned`: a slot is always given back.
`ImplementsBook`: every step is one of `TradeBook`, in which a trade is opened within the
loss limit under a nonce above all used ones and ends with exactly one verdict.

### 2.2 Following the chain: `ReorgDetector`, `GraphStore`, `ChainFollower`

A block is a header with hash, number and parent.  The detector's three containers are
`chain`, `byHash` and `byNumber`; `event` is the answer of the last call.  `Install(k, b)`
is what all handlers do: pop everything above the first `k` entries, append, prune.

In `ChainFollower` the canonical chain is one of `Forks`, up to `height`, and both move
between any two requests.  A node may answer with any block at most `MaxLag` behind the
head.  A snapshot is its id, its label (the block that was the latest when it was built,
or none) and a ghost `seen`, the blocks whose logs its pools reflect.  `cursor` is
`poll_from_block`; `batch` is what the last poll returned; `taken` is a ghost for scanned
blocks that changed no edge, for which the code publishes nothing.

Properties of the detector.  `IndexesAgree`: the indexes name exactly the history.
`NoSilentRewrite`: no block leaves it unreported but by pruning.  Proved, and not in the
run: `ChainOrdered` (it is bounded and ascending) and `OnlyOlderResolved` (a common
ancestor is only ever found for a block below the tip; the usual reorganisation, a longer
foreign chain, is not resolved).

Properties of the loop.  `NoHeightSkipped`: every height up to the cursor is in the
current snapshot or in the work in progress, through every discarded batch, rollback and
restart of the scan.  `StoreConsistent`: the current snapshot stays in the bounded ring.
`CatchesUp`: the scan reaches the head and stays there, unless an error ended the loop.

### 2.3 The WebSocket mode: `WssFollower`

Each block carries one watched log, so that a block stands for its log; `BodyOf` gives
what `log_key` sees of it besides the number, and two blocks of different forks may carry
the same transaction.  The subscription connects late, sends one log at a time, sends the
logs of replaced blocks again (the code does not read their `removed` mark), ends, and is
started again with an empty queue by the next poll.  `reconcile` is the point where a
poll waits for the logs of the reconciliation after it has emptied the queue.

`ReconciledIsDelivered`: up to the reconciled block, every log of the chain has reached a
batch, unless a poll had taken it whose reconciliation failed; this holds for rewrites
that replace no more than the confirmation blocks.  `TrunkDeliveredOnce`: the log of a
block that is never replaced reaches the batches at most once between two rollbacks of
the cursor, while `recent_wss_logs` forgets no key a later reconciliation asks for
(`RemembersUnreconciled`).  `ReconcileCatchesUp`: reconciliations reach the confirmed head.

### 2.4 The content of the pools: `PoolPatches`

A pool's state is abstracted to the logs it reflects: it consists of parts, one for each
request that reads it, and a part counts how often each log of the chain is contained.  A
part read from a node as of block `h` contains the pool's logs up to `h` once.  A log that
carries the whole state (`Sync`, Uniswap V3's `Swap`) replaces all parts by the logs up to
itself; a log of the Balancer vault is a difference and adds one to its own count; every
other log makes the pool be read again.  Of the logs of a pool in a batch, `upsert_trigger`
keeps the first that asks for a read, else the first.  `Counted` are the Curve pools, whose
coins are requested until a request fails.  The pools of the model are those with tokens
that may be traded; only they have edges.

The code has four weaknesses by which a scanned log may be missing in its pool: it was not
the first patch of its batch; the pool was read from a node behind the cursor; the read was
refused; the request failed, which ends the engine.  The ghost `excused` collects the logs
of the first three.  `OnlyExcusedMissing`: no other log is ever missing between two rounds,
whatever arrives during the reads.  `LastLogHeals`: the weaknesses do not add up where logs
or reads carry the whole state; once the last log of a pool is not excused the pool is
exact, the logs left out before included.  `AddedOnce`: a difference is never added twice,
except that one from before the start may already be in the state bootstrap has read.

`TouchedIsCurrent` and `TransactionalUpdate` are promises of the design document that the
code does not keep (3.3).

### 2.5 Requests for logs: `LogRequests`

A scan (`mode` says which of the three ways) asks for the blocks from `start` to `To` in
chunks.  A chunk is a set of requests, one per group of addresses or per block, of which at
most `Concurrency` run; the record of a request in `flight` says which endpoint it is at,
which attempt this is and what it waits for.  `circuits` are by method and endpoint, as
`endpoint_status` is, and time is left out: an open circuit may close at any step.  A
request waits for its compute units before each attempt; `Refill` gives them back.  The
ghost `streak` counts the failures of an endpoint in a row.

`WholeRange`: a scan that returns has every block and address exactly once, however often
chunks were halved, requests dropped half-way, or receipts given up for topics.
`FailsAfterAll`: a request is given up only when each endpoint has failed it or had failed
so many in a row that its circuit was open.  `ScanEnds`: every scan returns.

### 2.6 The factories: `FactoryScan`

A pool is its position in its factory's list, and `born` has the block it was created in,
which a scan by logs goes by.  `file` and `cache` are the discovery cache on disk and in
memory.  `Found` is what is in the cache and what this scan has found, which `Finish` merges
and saves, unless saving fails or is off.  A node that answers is up to `MaxLag` blocks
behind; positions it does not know are failed elements of a multicall, which the code skips,
and go to the ghost `excused`.

`NothingPassedOver`: what the file's cursor has passed is in the file, through scans that
fall back to single requests, restart, are halved, or die.  `KeptInFile`: no step takes a
pool or its priority out of the file.

### 2.7 Starting with old state: `PoolBootstrap`

A pool's state is the block of the last log it reflects; `label` is the block the code
writes beside it.  A start goes through the kinds of pool in the order of the code, reads
what the cache lacks, writes checkpoints, and replays the logs since the anchor, with
patches where logs carry the state and reads where they do not.  Reads that fail or find a
pool empty leave a tombstone (`skipped`).

`LabelIsTrue`: a pool not marked stale reflects every log up to its label, in the file and
after the start.  Excused are logs a node behind did not have, and those a replay passed
over for an older patch, the rule of `upsert_trigger` again.  `CachedStays`: no checkpoint
loses a pool that later starts would not look for again.

### 2.8 Finding cycles: `CandidateSearch`

An input is a market (pools with a weight, a capacity and a verdict of health), the pools
that changed, the anchors, the tokens kept out, and the limits of `SearchTuning`.  The
confidence of a pool decides between pools of one weight and capacity.  Weights are small
integers in the place of Q32 logarithms, so that sums are exact.  A step joins the beams of
one changed pair and one anchor; then `finalize_candidates` selects by rank with its
variants, dedup and second pass.  `EdgeBefore` and `CandidateBefore` are the code's orders.

`SelectedAreCycles`: what is handed over is a cycle of distinct tokens from an anchor,
through a changed pair, over usable edges, below the cutoff and large enough, and is handed
over once with the pools it has.  `NothingMissed` compares with a definition of all cycles
that does not search: where no limit on paths cuts off (`Wide`), a cycle is selected, or the
selection is full, or as many of its token path as are kept are no worse.

### 2.9 Finding amounts: `PlanSearch`

A market is one candidate with the pools of its pairs.  All pools pay by the constant product
of `amm/uniswap_v2.rs` with integer division, the fee of the pool left out (`Paid`), for
what matters to the search is that marginal rates fall.  V3 and LB pools have the same curve:
the guards of the search look at a pool's kind, never at its curve.  The node quotes V3 and
LB pools a little lower than the local mathematics (`drift`).  `seen` is the `evaluated` map.
The stages are those of the code: the closed form, the ladder, narrowing, seeds and their
refinement, the wide search, the early probe and the verification.  The arithmetic on amounts
is that of the code, rounded to integers; the numbers of rounds, points and slices are
constants, smaller in the instance than in the code.

`WithinCapacity`: no pool is given more than it can take, and a hop has no more splits than
it may.  `TriedIsKept`: the answer is at least as good as every amount of the closed form
and, once the ladder has been climbed and its first seed refined, as every amount of the
ladder: what a closed form that is not trusted had found comes back as a seed.  There is one
exception, which the property names.  When nothing on the ladder earns anything, the search
ends without a plan before there are seeds (`router/mod.rs` 252-254), and what the closed
form had found is gone; an empty answer therefore says only that no amount of the ladder
earns anything.  `PlanTypeOK` contains that the hops of a plan are a chain whose end is its
profit.

### 2.10 From candidates to a trade: `RoutePipeline`

`phase` is where `process_refresh` stands.  `Routed` answers for candidates in any order, as
searches do that run at once under `simulate_only`; otherwise the order is that of the
candidates, which is one of them.  `Rank` sorts; `TakeRoute` takes the next plan as long as
neither `TopK` attempts nor `ScanLimit` plans are used up; `Verified`, `Choose`, `Price` and
the three outcomes of a simulation are the requests of the verification and of
`Validator::prepare`.  What a plan costs is its loan, its gas, and on Base the data fee the
oracle asks for its calldata (`DataFees`).  An attempt of less than a millisecond is not
counted by the code, so counting is a choice.  `failures` has the keys of the failure cache
with the time they run out; the ghost `log` has the failures themselves.  `TradeEnds` stands
for all of 2.1.

`NotTriedAgain` and `RefusedForCause` compare the keys with the log in both directions:
what a failure bars is not priced or simulated before it runs out, and nothing else is
refused.  `TradeIsSound`: whatever balance was cached and whenever prices were read, a plan
that is submitted keeps to the limits of its loan, pays for its gas and its data fee, and
demands a profit of the contract; that the trade then earns it rests on the contract, which
reverts otherwise.  `RefreshEnds`: each refresh returns to the loop.

## 3. The runs

| run | what it shows | instance |
|---|---|---|
| `trade` | the properties of 2.1, and that `TradeLifecycle` implements `TradeBook` | 2 nonces, 2 channels, 2 runs of the process, 2 days, a limit of 1 open transaction, six plans of which four must be rejected, each by another check |
| `reorg` | the properties of the detector | 12 headers in four branches, a history of 4, reentrant locks |
| `follower` | the properties of the loop | three forks of three blocks, a ring and a history of 2, lag and drift of 1, locks as built |
| `follower_hangs` | the finding of 3.3 | as `follower` |
| `wss` | the properties of 2.3 | three blocks of which the last is replaced by one with the same transaction, one confirmation block, two recent keys |
| `pools` | the properties of 2.4 that hold | a pool of each kind: V2, V3, Balancer, and Curve with three coins; three logs, up to two in a block, three blocks after the start, lag 1 |
| `requests` | the properties of 2.5 | two endpoints, two groups of addresses, scans of three blocks in each of the three ways and with a call before or after, chunks of 3 and 2, one retry, a budget of 2, circuits that open at 2 failures |
| `scan` | the properties of 2.6 | V2 pairs together with configured LB pairs, each other kind of factory alone; two pools each, three blocks, multicalls of 1, ranges of 2, two retries, lag 1 |
| `bootstrap` | the properties of 2.7 | two pools in four pairs of kinds, some with priority, patches or pools that run empty; three blocks, two logs, lag 1 |
| `search` | the properties of 2.8 | four pools between three tokens, two anchors, every rate out of three, several changes, and limits that bite or do not |
| `plan` | the properties of 2.9 | cycles of two hops with one or two V2, V3 or LB pools each, with a loan or own funds, both modes, amounts to 24 |
| `routes` | the properties of 2.10 | two candidates that share pools and pairs, three plans, two refreshes, three prices of gas and two data fees, `TopK` 1, `ScanLimit` 2, a clock to 3 |

The type invariants of `trade`, `reorg`, `follower`, `pools` and `plan` are checked; those
of the other modules document the variables (the proofs of `FactoryScanProofs` and, for
`RoutePipeline`, of `RoutingProofs` contain theirs).

### 3.1 Why these bounds are enough

Two nonces give a transaction and its successor, so that one can be unknown while the
next is open; two runs give a restart with a transaction of the first still queued; two
channels give a delivery by the first and an answer by the second; two days separate the
check of the limit from the booking.  The limits of the instance (`MinProfit`,
`MaxPosition`, `MaxFlashLoan`, `DailyLossLimit`) each decide a plan of the instance.

Four branches of the detector's instance contain a fork of one block at the tip, one that
outgrows the trunk and one at the root; a history of 4 is shorter than the longest chain,
so it is pruned.  Three blocks with a replaced tip and a fork below it are the smallest
chain on which the cursor passes a rewritten block, goes back and passes it again twice;
a ring of 2 is full after one publication.  The `wss` run starts at the first block with
a history and a ring of 1: the detector and the ring are the subject of `follower`, and
the properties of 2.3 do not read the ring.  Two recent keys hold every key
the instance records, as the default of 100,000 holds those of the blocks between two
reconciliations: no key is evicted that is still asked for, so that every step satisfies
`RemembersUnreconciled`.  `TrunkDeliveredOnce` needs that; with room for one
key TLC shows a log delivered again after its key has left.

Three logs let one arrive before a batch, one in it and one during its reads, or two
compete in one batch after one that was already applied; two of them can share a block.
The Curve pool's third coin is the first that a failed request can cut off unnoticed.  A
V3 pool's read is one multicall; its fallback of two requests is as torn as Curve's.

Three blocks are a chunk and a rest for each way to scan; a chunk can be halved once.  A
threshold of two failures lets one request open a circuit that another finds open, and a
budget of one request makes them wait for each other.  Two pools of a factory, of which the
second has priority by its configured pair, let a scan stop between them and let a node
know one of them; two DEXes let one be saved while the other fails.  A start, a death in
the middle and a second start over what was written fit into three blocks; two logs let a
replay choose the older.  Pools of two kinds meet in every place the order of the reads
distinguishes.

Four pools between three tokens have cycles of two and of three hops, parallel pools on one
pair, and both directions of each; rates of -1, 0 and 1 put cycles below, on and above the
cutoff.  The pools of `plan` are chosen so that the best amount lies inside, at both ends
of, and outside of the range of the closed form, capacities cut slices, and local and remote
quotes disagree on the best plan; about a thousand states, since a step is a whole round of
quotes.  Two refreshes are one that records a failure and one that is barred by it; the
transfer class lives longer than the others so that keys of one plan outlive another's.

Only `reorg` checks for deadlock: the other systems may really stop, because
`run_chain` ends on an error, a start or a search ends when it is done, and the bounds on
runs, nonces, blocks and refreshes are used up.

### 3.2 Fairness

`TradeLifecycle` assumes weak fairness of the submission and of the wait: requests of
the HTTP client end by a timeout, and `wait_for_receipt` ends by its own.  Nothing is
assumed of nodes, of the chain or of the process; a crash ends the wait as well.

`ChainFollower` assumes weak fairness of the loop's next step: a failed poll is retried
after a pause, without end.  Growth and rewrites are bounded by the instance and not fair.

`WssFollower` assumes in addition strong fairness of starting a reconciliation, since
the audit interval elapses again and again, and of its success, since not every request
fails.  Nothing is assumed of the subscription, which may never send anything.

`LogRequests` assumes weak fairness of the scan's own steps, of the progress of its
requests (each is answered or times out), and of the refilling of the budget, which is by
the clock.  No endpoint has to answer and no circuit has to close.

`RoutePipeline` assumes weak fairness of the engine's task: each request it waits for ends
by its timeout, with whatever outcome.

### 3.3 What the code does not keep

`follower_hangs` is the one disagreement that a run shows: `handle_parent_mismatch` waits
for mutexes that its caller `update_chain` holds, so that the first block of another branch
above the tip stops the engine's task for good; `PROJECT.json` quotes the comment that says
otherwise.

The modules also state, as definitions that no run checks, promises of the documents that
the code does not keep.  Added to the `INVARIANTS` (the second to the `PROPERTIES`) of the
module's configuration, each gives a counterexample of at most a dozen steps.

| definition | promise | what the code does |
|---|---|---|
| `TradeLifecycle!UnconfirmedWithinLimit` | `revised_dex_arb_design.md` limits unconfirmed transactions | a receipt timeout returns the slot while the transaction is still queued: submissions in progress are limited |
| `ChainFollower!RestoredIsCanonical` | a rollback restores the ancestor's snapshot | for a replaced tip the newest snapshot at or below its own number is restored, which is that of the replaced block |
| `WssFollower!ReconciledIsReflected` | discarded blocks are applied again after a rollback | `last_wss_reconciled_block` is not set back; what a reconciliation had brought into the discarded batch never reaches the pools |
| `PoolPatches!TouchedIsCurrent` | a changed reserve is reflected | of several patches for a pool in one batch the oldest is applied |
| `PoolPatches!TransactionalUpdate` | a pool is updated as a whole | a failed request for a coin is taken for the end of a Curve pool's list |
| `PlanSearch!BestIsKept` | the search does not take the profit for a curve with one peak | what only the fast ranges quoted is forgotten when the search falls back (`src/router/mod.rs` 602-611), with the closed form's own points where the ladder then finds nothing (252-254), and the refinement follows one peak |

Further differences between text and code, visible in the definitions: the design document
deducts the whole flash fee always, the code only for tokens with `flash_loan_enabled` and
without `allow_self_funded` (`PlanSearch!FlashFee`); the greedy split may hand out less
than the hop says it takes, and the contract scales the splits up; amounts that are
verified by the node are splits scaled without regard to capacity; a search of LB pools only
ignores capacity; a seed's refinement may answer an amount below the minimum.

## 4. The proofs

All theorems hold for every value of the constants under the named assumptions.

`TradeLifecycleProofs` proves type correctness, `LedgerConsistent`, `SignedOnce`,
`OpenCountExact`, `DailyLossBounded`, `IncludedIsMined`, `NonceOnlyAdvances` and the
refinement of `TradeBook`.  The inductive invariant adds to those `TxInHand` (there is a
transaction exactly while one is submitted or waited for, it belongs to this run, and its
nonce is below the next), `LossInHand` (while a transaction is in hand the day's booked
loss is within the limit, and nothing is booked for a later day),
`NetworkSeesBroadcast` (queued and executed transactions were sent) and `InHandUnique`
(the transaction in hand is the only one of this run with its nonce).  They are needed
because `SignedOnce` speaks of the network while the step that could break it, `Trade`,
only looks at the ledger.

`PnlIsObservedOutcomes` equates two sums over finite sets, the days' accounts and the
outcomes of the executed transactions that the ledger calls included.  The lemmas on sums
(`SumOf`: what adding, removing and changing one element does) come first; the invariant
`PnlInv` then adds only `MinedOnce`, that the chain executes a nonce once: without it one
receipt that is booked could put several outcomes among the observed ones.

`ChainFollowerProofs` proves of the detector type correctness, `IndexesAgree`,
`ChainOrdered`, `NoSilentRewrite` and `OnlyOlderResolved`, with reentrant locks or without.  The
invariant is their conjunction; the work is in `Install`, which every handler uses: a
lemma states that it keeps the indexes equal to the history from a prefix that was.

Of the loop it proves type correctness, `NoHeightSkipped` and `StoreConsistent`.
`NoHeightSkipped` is not inductive: whether a rollback restarts the scan low enough
depends on every snapshot the ring may offer and on how far the chain has grown since.
The invariant adds `RingReaches` (each labelled snapshot in the ring has seen every
height up to its label minus `Backfill`), `BatchPending` (no batch
outlives its round), `HeadNear` (the head is within `MaxDrift` of the cursor while work is in
progress), `TipBelowHead` and `TipReached` (the detector's tip is not above the head, and
the scanned heights reach the tip minus `Backfill`), and the detector's own invariant.

Of the WebSocket mode it proves `ReconciledIsDelivered`.  The invariant `WssInv` adds
`FirstPoll` (before the first poll the cursor stands where bootstrap has been, on blocks no
rewrite replaces), the like for `reconciled` (`MadeUp`), and `RecentTaken`: a log whose key
is remembered has been in a batch, was lost with one, or waits in this reconciliation.  The
last is why a reconciliation may leave out what is remembered.

`DeliveredOnce` proves `TrunkDeliveredOnce` for the behaviours whose steps satisfy
`RemembersUnreconciled`.  The invariant `TrunkInv` follows a block of the trunk on its way.
The stream sends it once (`SentOnce`), since no rewrite reaches it: a block that two chains
share has the same blocks below it (`SharedBelow`), so that the stream never goes back below
the trunk (`TrunkIsCommon`).  What a poll has taken from the queue lies above the cursor and
is therefore new (`DrainedIsNew`).  What has been delivered is at or below the cursor or has
left the queue, and its key is remembered or its block is reconciled (`NotAgain`): so neither
way presents it again.  A cursor that goes back empties `since`, and with it the claim.

`PoolPatchesProofs` proves type correctness, `OnlyExcusedMissing`, `AddedOnce` and
`LastLogHeals`.  The invariant of the first two adds
`LogsOrdered` (logs are ordered by block, so that a log that was scanned earlier lies
before every log of the batch, and a state taken from the batch contains it) and
`WorkMissesNothing` (during a refresh every pool that needs no more reading, and the parts
that have arrived of the one being read, miss nothing but excused logs).  `AddedOnce` has an
invariant of its own, `AddsInv`: a log above the cursor is in no pool with differences more
than the one time bootstrap may have read it, neither in the published pools nor in those of
the refresh, and such pools are never read again.  `LastLogHeals` needs `WorkHealed`, the
same statement about the pools of a refresh with the logs of its batch.

`FactoryScanProofs` proves `NothingPassedOver` and `KeptInFile` for any list of DEXes.  The
invariant `ScanInv` adds that the entries in memory pass over nothing either
(`EntriesComplete`), that a scan has left nothing out from where it started to where it has
come (`ScanComplete`), and that memory has all the file has (`FileInMemory`).  They are
needed because a multicall that fails restarts at `scan.start` and not at the beginning, and
because the file is overwritten with what is in memory.

`RoutingProofs` proves of the pipeline `NotTriedAgain`, `RefusedForCause` and `TradeIsSound`
for any plans, times and limits.  The invariant `PipelineInv` has two parts.  `CacheInv`: the
keys in the cache are those of the failures in the log, each with the latest time one of them
runs out; it needs that a failure is recorded only for a plan that no other failure bars, so
that no key's time is shortened.  `LoanInv`: what has been checked of the loan in hand at
each phase.

Of the search for amounts, `RoutingProofs` proves `PlanTypeOK`, `WithinCapacity` and
`TriedIsKept` for every market of constant-product pools, with any numbers of rounds, points,
slices and seeds.  The lemmas come in four groups.

- Sums and orders: `Total` by its partial sums (`Sums`); `InOrder` lists a finite set that is
  strictly ordered, each element once (`Enumerates`), from which follow `Sorted` and the order
  of pools by price, whose comparison by cross products is transitive because reserves are
  positive (`RatiosAreOrdered`).
- Hops: a hop `FitsHop` when each of its splits is within its pool's capacity, there are at
  most `MaxParallel`, and they add up to no more than what enters.  Each way of
  `optimize_pair` yields such a hop: the single pool, the closed form, and the slices, whose
  invariant is `Allocates`.
- Plans: hops put one after the other are a chain (`HopsFrom`), and an answer `Earns` what its
  end exceeds its beginning and its fees by.
- Amounts: the closed form's points, the ladder, the rounds of narrowing and the seeds lie
  within the range the search may trade in (`Between`), and `better_plan` keeps the first of
  the best (`IsBest`).

`PlanInv` is inductive.  `QuotedInv`: what was quoted has the profit the local mathematics
gives it.  `BracketInv`: the bracket is one of tradable amounts; that its ends do not cross
rests on the ladder being sorted.  `StageInv`: which stage is reached in which mode.
`SearchInv` and `AnswerInv`: the best so far beats what had to be tried by then.  They are
needed because `TriedIsKept` speaks of the end of a search while the best amount is set aside
on the way: between the ladder and its first seed nothing is known to be the best, and only
because the first seed is the greatest of all that was quoted does refining it recover every
amount quoted before.  `SearchInv` also has that the best of the fast stage earns something:
an answer of that stage is never the empty one, so that the exception of `TriedIsKept` is
left to the ladder, and there an empty answer means that every rung was quoted and earned
nothing.

`LogRequestsProofs` proves `WholeRange` and `FailsAfterAll` for every range, chunk size,
number of retries and list of endpoints.  `ScanInv` says what the logs are between two
answers (each block below `start` once, nothing above it: `BelowStart`), that the requests
that run and the logs of the chunk so far belong to this chunk and to different parts of it
(`OfThisChunk`), and bounds the counters of halvings and retries.  `RequestInv` is about one
request: circuits count the failures in a row (`CircuitsCount`), and a request has been at
every endpoint before the one it is at (`PassedAreThrough`); that the list of endpoints
names every URL of the settings is a lemma.

`PoolBootstrapProofs` proves `LabelIsTrue` and `CachedStays`.  `LabelInv` has a part for
each stage of a start: what the file says is true (`FileTrue`); from the load up to the
replay no pool is stale and every labelled one reflects its logs up to the larger of its label
and the anchor (`BeforeReplay`); and while the replay reads, every pool that is not waiting to
be read again reflects its logs up to the larger of its label and the block the replay ends
at (`DuringReplay`).  `KeptInv` says that a pool that must not leave the file is among this
start's pools, has a tombstone, or waits to be read while nothing is saved, and which kinds of
pool each stage has dealt with (`ReadsInOrder`).  Both rest on `ShapeInvariant`, the
types: a state is never ahead of the chain.

`CandidateSearchProofs` proves `SelectedAreCycles` for every market, tuning, price, number
of hops and cutoff.  The state invariant `DetectorInv` is short: what is searched has
changed, what is kept are finitely many candidates within the budget, and nothing that the
first pass has left shares its pools with what it has selected.  The work is in the search
itself.  `BestEdges`, `BestPaths` and `BestCandidates` say of the code's three sorts that
the k best of a finite set are of that set and that fewer than k precede each of them; they
rest on the orders being strict (`EdgesAreOrdered` and so on), which for candidates needs
that every route has an integer capacity, sum and potential (`RoutesAreRanked`).
`TopPathsAre` is the invariant of the rounds of `find_top_paths`: each path is a chain of
admissible edges from the start that meets no token twice.  `JoinIsCycle` puts a prefix, an
edge of the changed pair and a suffix together: the cycle is simple because the two paths
share no token but the anchor.

The converse is `NothingMissed`, for every input.  `Wide` says that no limit of
`find_top_paths` cuts anything off: each token has at most `branches` outgoing edges that are
admissible, and at most as many simple paths as are kept.  Then a round keeps every simple
path of its length (`Complete`, by induction over the rounds: `NextIsComplete`; by `PathsFit`
no more paths compete than are kept), so that `TopPathsHave` every walk to the target.  A
cycle splits at each of its edges into such a walk before it and one after it (`BeforeIs`,
`AfterIs`, `PartsAreApart`), and is therefore among the candidates of every pair it passes
(`CandidatesHave`).  A candidate is `Covered` when it is kept or, with dedup, as many as are
kept of its token path are no worse; `InsertedCovers`: merging further candidates gives up a
covered one only for as many others.  The inductive `CoverInv` adds to `DetectorInv` that
every cycle is covered or has a pair and an anchor still before it (`PassedInv`), unless the
budget is used up, and that the second pass leaves out nothing that is kept (`FillInv`); a
budget that is used up and all selected is a full selection (`BudgetFills`).  That cycles
with one key are one cycle (`SameCycle`) is needed for the second pass, which compares pools.

Induction over data is done by hand in these proofs: `InductiveSet` derives it from the
well-foundedness of the natural numbers for the set of those that have a property,
`LoopExists` shows with it that a recursive function has values (tlapm knows only the
CHOOSE it stands for), and the sums, loops and sorts above are all built on the two.

### 4.1 Assumptions

- `BlocksAssumption`: a hash names one header, and a header is one above its parent.
- `ForksAssumption`, `HistoryAssumption`, `RingAssumption`: the shape of the constants.
- `LinkedAssumption`: each block of a chain names the one before it as its parent.
- `BackfillAssumption`: nodes lag and the chain grows, while the engine works on what it
  scanned, by at most `Backfill` blocks (16 or 32 in the configurations).  Without it a
  rollback could restart the scan above a height it has not seen.
- `TradeAssumption`, `NoTxAssumption`, `MaxNonceAssumption`: the shape of the constants;
  `MaxGas` bounds the gas of every plan.
- `PoolsAssumption`: the shape of the constants; the pools whose coins are counted have
  two or more and are never patched, and pools with differences have one part and no other
  logs.
- `WssAssumption`: a rewrite replaces at most the confirmation blocks, and these are no more
  than `Backfill`, so that what bootstrap has read is not replaced before the first poll.
- `ScanAssumption`: the shape of the constants.  `BootstrapAssumption`: in addition, the
  chain has a block.  `SearchAssumption`: in addition, a market has finitely many pools.
- `RequestsAssumption`: in addition, no request costs more than the budget can hold.
- `LoanAssumption`: a premium is a number of `Parts`, of which there are some.
- `PipelineAssumption`: in addition, amounts and gross profits of plans are not zero, and
  `ScanLimit` is at least `TopK`, as the code's constructors make them.
- `PlanAssumption`: a path has a hop; the pools of a hop are finitely many, told apart by
  their ids, have reserves, and contain the candidate's own; amounts below one cannot be
  traded; `EdgeLimit` is at least `MaxParallel`.

Built into the models: a node that answers a request for logs has reached the block it
named as the latest; a scan sees one fork; the clock does not run backwards over a day.

### 4.2 Only model-checked

Liveness (`SlotReturned`, `CatchesUp`, `ReconcileCatchesUp`, `ScanEnds`, `RefreshEnds`)
stays with TLC, as fairness is out of reach of the provers.  Every safety property of a
passing run is a theorem; one has a condition that is not about the constants alone.
`TrunkDeliveredOnce` is proved of the behaviours in which `recent_wss_logs` forgets no key
too early (`RemembersUnreconciled`).  The code does not see to that: it forgets the oldest
keys when it is full, and a log forgotten before its block is reconciled is delivered again,
as TLC shows with room for one key.  The instance of the run has room for all its keys.

## 5. What is not modelled

- The pending-logs mode, the WebSocket mode without reconciliation, and the race in which
  the subscription ends between the two reads of `ws_started` in one poll.
- `WssFollower` with the pools of `PoolPatches`: the composition is out of TLC's reach; so
  are the quote cache, the revert cache and the blocklist, which need the reserves of two
  snapshots with one id.
- Within `PoolPatches`: rewrites of the chain, the order in which the WebSocket mode
  delivers logs, saturating arithmetic of differences, the liquidity that `Initialize`
  takes over from the old state, derived token prices.
- In `RoutePipeline` a search is one step with any answer, a raw unit is worth one unit of
  USD, and what the contract answers to a simulation is any of the classes of failure; the
  contract's hops, callbacks and allowances are within one transaction and not modelled.
- In `PlanSearch` and `CandidateSearch` the curves of the pools and the floating-point
  mathematics of rates: a constant product and integer weights stand for them.
- The RPC scheduler (`rpc/scheduler.rs`), which nothing constructs; other uncalled parts:
  `NonceManager::reconcile`, `cancel` and the replacement helpers, `graph/updater.rs`,
  `process_candidate`.
- The transaction builder, configuration, monitoring, formatting and logging.

## 6. Plan

1. Done: the modules of section 2 with their runs, and the proofs of section 4.
2. The contract's route as a module of its own: callbacks nested in swaps, allowances, and
   the profit check, refining "a route either leaves at least what there was and the profit,
   or nothing happened".

One run is kept for each module of section 2 that is checked on its own, and one for the
finding; bounds as above.
