# pranklin in TLA+

A verification project for pranklin, the perpetual-futures engine in `src/`:
TLA+ modules translated from the Rust source, TLC configurations that check them
on small instances, and TLAPS proofs for every size of instance.

## 1. The system

A node is one process. Clients submit signed transactions over JSON-RPC; they go
to an in-memory pool. An external sequencer (rollkit, behind the gRPC client of
`src/sequencer/grpc`) polls the node for transactions (`GetTxs`), and sends them
back as blocks, height by height (`ExecuteTxs`). Executing a block runs each
transaction through authentication, the nonce check and the engine (accounts,
orders, positions, liquidation), and ends with one `commit()` that writes the
block to RocksDB. The order book lives in memory only; its orders are also in the
state.

### Components

| Component | State it keeps | Operations | What makes it correct |
|---|---|---|---|
| RocksDB storage, `state/src/rocksdb_storage.rs` | versioned values, latest-version index, `CurrentVersion`, snapshot marks on disk; pending writes in memory | get, set, delete, commit, snapshot, prune, reopen, restore | a read at a version always gives the same answer; a commit is all or nothing; index and scan agree; pruning removes history only |
| State manager, `state/src/lib.rs` | block version, position index | begin_block, commit, typed getters and setters, restore | a block starts from the committed state |
| Mempool, `mempool/src` | hash → transaction, sender → nonce → hash | add, remove, prune_sender_nonces, clear, ready_txs | the two maps agree; limits hold; nonces in order |
| Block executor, `exec/src/server.rs`, `tx_executor.rs` | locks around engine, auth, pool | GetTxs, ExecuteTxs, InitChain, SetFinal | a payload takes effect once, in nonce order (up to commits cut between a nonce and its effects); what is executable is executed |
| Order book, `engine/src/orderbook.rs` | per side and price a FIFO of ids and a total | add, remove, match, would_match | price-time priority; never crossed; totals exact |
| Order and position services, `engine/src/services`, `position.rs` | order records, active list, positions (in the state) | place, cancel, close, process_fill | book and state describe the same orders; longs equal shorts |
| Risk, `engine/src/risk.rs` | – | order and liquidation checks | reduce-only reduces, margin is sufficient, both engines decide alike |
| Liquidation, insurance, ADL, `engine/src/liquidation.rs` | risk index, insurance fund | update and rebuild index, liquidate one or a batch, ADL | only what is below maintenance is closed; no payout without a source |
| Position index, `state/src/lib.rs` | one copy in memory, one stored | set, delete, list, rebuild | every open position is found |
| Funding, `engine/src/funding.rs` | rate, time, cumulative index | update, payment | bounded by the highest rate; payments of longs and shorts cancel |
| Account and agent services, auth | balances, bridge operators, agents | deposit, withdraw, transfer, bridge, set and remove agent | every balance is explained; only its owner or an operator takes from an account |
| Declared accesses, `tx/src/lib.rs`, `state/src/access.rs` | – | declare_accesses | what does not conflict commutes (shown for account transactions) |
| Read-only executor, `exec/src/readonly_executor.rs` | synced height | start, stop, sync in batches, retry | never ahead of what it replayed; catches up |
| Snapshot exporter, `state/src/snapshot_exporter.rs` | last export | export beside block execution | what is published is complete and holds its block (but for local files being overwritten) |
| Event store, `engine/src/event_store.rs` | write buffer, keys, count | append, flush, query | no event lost unnoticed; block, transaction and address queries find the events the in-memory store finds, within the limits of section 3 |
| RPC | – | submit, set and remove agent, queries | writes only what a signature allows |

`PROJECT.json` lists all of them with their status, also the ones that are left out
(macros, load test, process start-up).

### How they interact, and what is hard

* **Calls under locks.** `ExecuteTxs` takes engine, auth and pool locks and keeps
  them to its end; `Submit` and `GetTxs` only run between blocks. Inside a block
  everything is sequential, so the interleavings that matter are between
  *handlers*, not between instructions.
* **A pull that does not take.** `GetTxs` leaves what it returns in the pool. Two
  batches can carry one transaction, and only the nonce check tells.
* **At-least-once blocks.** A block whose answer was lost comes again, after it
  was committed.
* **A commit of many puts.** `commit()` is a series of separate RocksDB writes; a
  crash or an I/O error can fall between any two.
* **Two copies of the orders.** The book is memory, the active list is state; a
  crash loses one and keeps the other.
* **No rollback.** A payload that fails after changing the state leaves what it
  changed, and does not use up its nonce.
* **Caches beside the state.** The risk index, the position index, the insurance fund
  and the agents live in memory; they are stale, or gone after a restart, while the
  state they describe goes on.
* **Tasks beside the blocks.** Snapshot exports and the follower's sync loops run beside
  everything else, can fail halfway, and can overlap with themselves.

The hazards these give rise to are listed one by one, with their lines and the
properties aimed at them, in `PROJECT.json`.

## 2. Modules

| Module | Models | Lines of code it follows |
|---|---|---|
| `Storage` | RocksDbStorage driven by StateManager and the block loop | `rocksdb_storage.rs`, `state/src/lib.rs`, `exec/src/server.rs` |
| `VersionedStore` | what the engine expects of it: one map, atomic commits | abstract |
| `StorageProofs` | theorems about `Storage` | |
| `Mempool` | the pool | `mempool/src/*` |
| `BlockExec` | extends `Mempool` with submission, batches, execution, commit, crash | `exec/src/server.rs`, `tx_executor.rs`, RPC submit |
| `BlockExecProofs` | theorems about `Mempool` and `BlockExec` | |
| `OrderBook` | one market: book, records, active list, positions, rebuild | `orderbook.rs`, `order_service.rs`, `position_service.rs`, `engine/src/lib.rs` |
| `MCOrderBook` | constants and symmetry for its runs | |
| `OrderBookProofs` | theorems about `OrderBook` | |
| `Margin` | the arithmetic of positions, margin, risk, liquidation and ADL, as operators | `position.rs`, `risk.rs`, `liquidation.rs`, `types/src/state.rs` |
| `Clearing` | extends `Margin` with balances, positions, position index, risk index, insurance fund, batch liquidation, ADL, commit and crash | `liquidation.rs`, `order_service.rs`, `state/src/lib.rs` |
| `ClearingProofs` | theorems about `Margin` and `Clearing` | |
| `Funding` | the funding record of a market and what positions owe | `funding.rs` |
| `Accounts` | transactions on balances, bridge operators and agents; declared accesses; start of the daemon | `account_service.rs`, `auth/src`, `tx_executor.rs`, `tx/src/lib.rs`, `rpc/src/handlers.rs`, `app/src/server.rs` |
| `Follower` | the read-only node | `readonly_executor.rs` |
| `FollowerProofs` | theorems about `Follower` | |
| `SnapshotExport` | exports beside blocks | `snapshot_exporter.rs`, `exec/src/server.rs` |
| `SnapshotExportProofs` | theorems about `SnapshotExport` | |
| `EventStore` | the event log, persistent and in memory | `event_store.rs`, `event_store_key.rs` |
| `EngineProofs` | theorems about `Accounts`, `Funding` and `EventStore` | |
| `Sums` | lemmas about sums over finite sets, for the proofs | |

Every definition that stands for code has its file, lines and symbol in the "map"
of `PROJECT.json`. Operators marked *Slip* are deliberately wrong variants of the
definition that follows them (a dropped guard, a missing reset, a swapped order).
They are part of no specification: each is used to confirm that the property it is
paired with in `PROJECT.json` fails when the code has that slip.

### Storage

State: `values[k][v]` is `JmtValue{key, version}`, `latest[k]` is `LatestVersion`,
`diskVersion` is `CurrentVersion`, `snapshots` the `Snapshot(v)` marks; `pending`,
`curVersion` and `version` are the in-memory fields of RocksDbStorage and
StateManager; `pc`, `batch` and `todo` are where `commit()` stands. `acked` is the
last height whose answer reached the sequencer, which always asks for the next
one. `torn` and `pruned` only remember that a commit was cut short or that pruning
deleted something.

Actions: `Set`, `Delete`, `BeginBlock`, then `commit()` put by put (`CommitStart`,
`PutValue`, `PutLatest`, `PutVersion`, `CreateSnapshot`, `Prune`), `Reply`; and the
faults `LoseReply`, `IoError` (a put fails and `?` returns early, with the pending
writes already gone), `Crash` (anywhere), `Restart` (between blocks) and
`RestoreFromSnapshot`. The order of the puts of one loop is that of a hash map and
is left open. The Merkle nodes written by the same commit are never read for a
value and are left out.

### Mempool and BlockExec

A transaction is its sender, nonce and body. `AddTx`, `RemoveTx`,
`PruneSenderNonces` and `Clear` are the operations of the pool. `AddTx` shows that a
second transaction with the same nonce takes over the nonce entry while the first
stays in the pool, unlisted. `ReadyTxs` is the set of answers `ready_txs` can give:
senders in any (hash map) order, nonces ascending, cut at `BlockLimit`. The code
cuts twice, by count and by bytes; with transactions of one size both are a prefix.

`BlockExec` adds the accounts' nonces, a `log` of the effects executed, the
committed copy `saved`, and the sequencer's `queue` of batches. `ExecuteTx` is one
turn of the executor's loop: the nonce check, then success, an error without
effects, or an error after some effects (what the engine's handlers really do: a
fill-or-kill order that fails has traded, a transfer that overflows has debited).
Signatures are taken as valid here and are the subject of `Accounts`. `Submit` and `GetTxs` require that no block
is running: that is the locks. A crash loses pool and block and keeps the queue.

A commit is the series of puts that `Storage` has one by one. Here it is either whole
(`Commit`, answered or not) or cut: `CutCommit` chooses which accounts' nonces were put and
which effects of the block were not, or not wholly. What was put can be read by the block
when it is sent again, since it is executed at the same height; so `saved`, `nonce` and `log`
become what is readable, with the effects that are missing kept as not whole.
`CommitFails` is an error that `ExecuteTxs` returns, after which the transactions already
removed from the pool stay removed; `CommitCrashes` also loses the pool. `torn` collects the
accounts that a cut took apart: a nonce without the effects it stands for, or effects without
their nonce. For those the code does not keep its promise, and `EffectsOnceInOrder` leaves
them out; every other account, and every cut that falls elsewhere, is covered.
`MaxLog` bounds how many effects are logged when a payload may still fail.

In `OrderBook`, `Clearing` and `Accounts` a commit is one atomic step.

### OrderBook

One market with limit orders at prices 1 .. MaxPrice and 0 for market orders.
`orders`, `active`, `nextId` and `pos` are state (`saved` is their committed copy);
`queue` and `total` are the book. `Place` stands for `place_order` up to the loop,
`MatchMaker` for one maker looked at, `FinishOrder` for what follows the loop;
`taker # Idle` keeps every other handler out. `CancelOrder`, `ClosePosition`,
`Commit`, `Crash` and the rebuild (`RebuildStart`, `RebuildOrder`, `RebuildDone`)
complete it. `boot` tells a rebuilt book from one that was never rebuilt.

Positions are signed sizes. `Settle` includes what the storage layer does with
`delete_position`: it removes the block's own write only, so a position that an
earlier block committed and that is now closed reads as it was committed. The
flag `resurrected` remembers that this happened; the two balance properties are
stated up to it, because it is a deviation of the storage layer (see below) and
would hide everything else. Margins, entry prices and fees are left out: an order
that fails the margin check does nothing, so the model lets any order through or
not. Prices and sizes are in ticks and lots.

### Margin and Clearing

`Margin` has one operator per calculation, with the divisions of the code, which all
round down and in the code's order: a reduction by a fill first rounds the reduced share
to basis points, a liquidation does not. A position of size 0 and no position are one
value, as the code treats them alike.

`Clearing` is the state around them. `ledger` is what the state holds (balances,
positions, stored position index), `saved` its committed copy; `index`, `risk` and `fund`
are the memory of StateManager and LiquidationEngine. `PlaceOrder` makes and fills
positions through the margin, leverage and reduce-only checks; the book is reduced to a
set of resting orders of which the best is hit, and what is left of a taker that traded
is cancelled: the order of matching is the subject of `OrderBook`. `Liquidate` is
`liquidate_with_incentive`; `BatchStart` and `BatchStep` are `process_liquidation_batch`,
which copies the entries of the risk index first and then tries them one by one, with
whatever has become of the positions; `AdlStart`, `AdlStep` and `AdlDone` are
`auto_deleverage`. `RebuildPositionIndex` may happen at any time after a start, or not at
all: the comment in the code says it is called on startup, and only tests call it.
The risk index counts, per trader, the entries below maintenance; the others are never
asked for. `unseen` remembers the traders whose position no write or rebuild of this
process has put into the index. Amounts are small, so the overflow errors of checked
arithmetic are not reached.

### Funding

`funding` is the record of one market; the two prices in it are never read and are left
out. An update adds the clamped premium, scaled by the time since the last update, to the
index. The caller's times may repeat or go back. `past` is kept for the properties. Signed
division rounds towards 0 (`TowardsZero`), which TLA+'s does not.

### Accounts

`node` is what transactions read and write, `saved` what is committed; the agents are lost
with the process. `Execute` is `TransactionExecutor::execute`: signature, nonce, payload,
and the nonce only after success. Each service is an operator that returns the state it
leaves and whether it succeeded, so that the failing transfer keeps its debit.
`RpcSetAgent` and `RpcRemoveAgent` write the registry directly, with the signature check
and no nonce, between blocks (the lock on auth). `Start` adds the configured bridge
operators to those of earlier starts. `DeclareAccesses` is what a transaction says it will
touch; the program does not schedule by it yet, and `AccountTxsCommute` is what a
scheduler would rely on. It has the branches of the account transactions and of `ModifyOrder`,
which always fails. `PlaceOrder`, `CancelOrder` and `ClosePosition` are in neither `Payloads`
nor `DeclareAccesses`: what they declare does not suffice (see the deviations), and nothing
here says it does. `minted`, `stranded` and `actor` are kept for the properties.

### Follower

Blocks carry one transaction each: executed by the leader, refused by it for a nonce or
signature that the follower does not check, or failing. Each element of `Tasks` is one call
of `SyncService::start`; a stop only clears the flag, so that a second loop may run beside
the first. `ReplayBatch` is one batch under the engine's lock; what a failed batch did stays
done, and the height is written only at the end of a sync, with the leader's height as it
was asked at first. Nothing is persisted.

### SnapshotExport

Each height has at most one export that works; a second one fails at the temporary
directory of the first. The exporter that the task works on is a clone, so
`should_export` sees the height of the last export as 0 for ever and every block from
the interval on is exported, a block that is sent again a second time, over the files of
the first export. `local`, chosen at the start, tells a local directory from the cloud: an
object in the cloud appears whole, a local file is emptied (`Truncate`) and then filled
(`Written`). An export that fails or crashes in between leaves part of a file, which counts
as none. `overwriting` collects the heights that latest.json named when an export began to
copy over them, until it is complete. Removing the temporary directory is a step of its own
(`Cleanup`) that can fail as well. The archive holds every block committed when the
checkpoint is made, which may be later than the height it is named after.

### EventStore

A transaction's events are numbered and appended; from `BufferLimit` on `append` flushes.
`flush` drains the buffer and then writes one batch, which may fail. Keys are compared as
the bytes of their encoding, in which heights are little-endian. A transaction that is
executed again appends again: its `Event` keys are overwritten within a block, and its
`TxIndex` keys also across blocks. `mem` is the in-memory implementation, given the same
appends; it is the reference for the queries. What a query sorts is listed by `Sorted`:
an order is a set of pairs, and each element stands behind as many as come earlier.

## 3. Runs

TLC explores each instance completely.

| Run | Instance | Checks |
|---|---|---|
| `StorageFaults` | 2 keys, 2 values, 3 blocks, pruning with interval 3 and window 1, 2 faults of crash, I/O error, lost answer, restore | `TypeOK`, `FastPathSound`, `IndexInv`, `HistoryStable`, `UntornBlockStarts`, `PruneSparesWindow` |
| `StorageRefines` | 2 keys, 2 values, 3 blocks, a restart, no deletes, no pruning | `ImplementsVersionedStore` |
| `ExecSafety` | 1 sender, 2 nonces, 2 bodies, pool of 3, 2 batches, every outcome, 2 faults of crash, cut commit, lost answer | `TypeOK`, `IndexSound`, `WithinLimits`, `EffectsOnceInOrder`, `CommittedGrows` |
| `ExecLive` | 2 senders, 2 nonces, pool of 2, 2 batches, 1 fault, fairness | `NextNonceExecuted` |
| `BookCore` | 2 traders, prices 0-2, sizes 1-2, 3 orders of six kinds | `TypeOK`, `BookMirrorsState`, `LevelTotals`, `Uncrossed`, `OpenInterestBalanced` |
| `BookRecovery` | 2 traders, prices 0-1, sizes 1-2, 3 orders, a crash | `TimePriority`, `BookMirrorsState`, `PositionsExplained` |
| `ClearingRun` | 2 traders, a liquidator, sizes 4 and 10, mark prices 0, 17, 20, 22 with tick 2, 3 orders, 2 liquidations, 2 risk entries, an ADL, a commit, a crash | `TypeOK`, `FundAccounted`, `RiskEnginesAgree`, `PositionsListed`, `AdlWithinRequest`, `OnlyUnderwater`, `PayoutBounded` |
| `FundingRun` | 3 mark prices, oracle 0 or 20, 3 times, 4 updates, a crash | `IndexWithinRate`, `PaymentsBalance` |
| `FollowerSync` | 2 loops, batches of 2, 3 blocks of every kind, 3 starts and stops, 2 faults, fairness | `SyncedMeansReplayed`, `UndisturbedReplaysOnce`, `CatchesUp` |
| `ExportRun` | cloud and local directory, interval 2, 4 blocks, 2 faults | `LatestComplete`, `ArchiveCoversHeight` |
| `EventStoreRun` | heights 1, 255, 256, 2 transactions, 4 events, buffer of 3, 1 fault | `EventsAccounted`, `QueriesAgree` |
| `AccountsRun` | 2 users, one of them agent and operator, 2 assets, balances to 2, 2 nonces, 2 starts | `SupplyExplained`, `AccountTxsCommute`, `OnlyOwnerActs` |

What they show:

* **Storage.** As long as no commit was cut short and nothing pruned, the O(1) index
  and the backward scan answer alike at every settled version
  (`FastPathSound`), a read at a settled version never changes again, even with half
  of the next commit on disk (`HistoryStable`), and a block, also one that is
  executed a second time, starts from the committed state (`UntornBlockStarts`).
  Pruning leaves alone whatever a version inside the window answers
  (`PruneSparesWindow`). Without torn commits and deletes the whole sequence of
  puts is one atomic commit to the engine (`ImplementsVersionedStore`).
* **Pool and execution.** Nonce entries never dangle, through replacement and the
  removal of a replaced transaction, and the pool keeps its size and the number of *listed*
  transactions of a sender (`IndexSound`, `WithinLimits`). Overlapping batches, blocks that
  are sent again, partial failures, crashes and cut commits do not make a payload take its
  whole effect twice, out of order or with a gap, for an account of which no cut commit
  separated the nonce from the effects; the remains of partial failures come before the
  effect that uses their nonce (`EffectsOnceInOrder`). For an account that was taken apart
  this is false, see the deviations. What is on disk only grows (`CommittedGrows`).
* **Order book.** FIFO order, level totals, agreement of book, records and active
  list, an uncrossed book and balanced positions survive partial fills, skipped
  own orders, cancellation, every time in force, and, in `BookRecovery`, a crash at
  any step followed by a rebuild.

* **Clearing.** However stale or duplicated the risk index, a liquidation looks at the
  position again and hits only one whose exact equity is below the maintenance share of
  its value at the tick-rounded price (`OnlyUnderwater`); the ratio test of one engine and the
  amount test of the other differ by at most one unit of rounding
  (`RiskEnginesAgree`). The fund is what was paid in less what was paid out and never
  negative, and the separate roundings of fee, reward and contribution never bring in more
  than the fee or the equity of the *whole* position (`FundAccounted`, `PayoutBounded`): a
  partial liquidation pays out that equity as well, so the bound is not one by what was
  closed. ADL counts every candidate, the last one too, and stops at what was
  asked for (`AdlWithinRequest`). Every position that this process wrote, or took back with
  the stored index, is found by the scans (`PositionsListed`); one that it did not may be
  missed, see below.
* **Funding.** Late, repeated, backward and lost updates never move the index faster than
  the highest rate over the time that passed (`IndexWithinRate`); a rate above that of one
  interval is possible, after a long pause. Payments of matched positions balance to one
  unit, and so does settling in parts (`PaymentsBalance`).
* **Accounts.** Balances add up to deposits less withdrawals less what overflowing transfers
  stranded (`SupplyExplained`). Account transactions that declare no conflict can be
  reordered (`AccountTxsCommute`). Nobody but the owner changes an account's agents, through
  either path, and nobody but the owner or an operator of some start takes money from it
  (`OnlyOwnerActs`).
* **Follower.** The reported height is a promise kept, and blocks are replayed in order,
  whatever failed or overlapped; payloads run twice only after a sync ended halfway or two
  ran side by side; and a follower that is left running catches up.
* **Export.** `latest.json` never names a snapshot without a whole archive and metadata,
  except in a local directory where a second export of the very height it names is copying
  over the files or stopped in the middle of that (`LatestComplete`); and a whole archive
  holds at least the block it is named after (`ArchiveCoversHeight`).
* **Events.** Every appended event is counted on disk, buffered or was lost with a failed
  write or a crash; counter and indexes lead to exactly what is stored (`EventsAccounted`).
  Once all is flushed, the two stores agree on this much (`QueriesAgree`): of each block of a
  range, the persistent one returns the last version of exactly the events the other returns,
  in the order of their keys and not of the appends; a transaction that ran in one block has
  the same events in the same order, and one that ran in several still has each event
  number once; and, when blocks came in order and nothing was repeated, an address has
  equally many events of each block in both answers, newest block first, and all the events
  of the blocks that the limit leaves whole. Which events come from a block that the limit
  cuts, and in what order those of one block come, differs between the stores.

### Known deviations of the code

Met while modelling. The models do what the code does, and the properties above are stated
around these; no run asserts the comment.

| The repository says | What the code does | Where it is modelled |
|---|---|---|
| "The actual deletion happens in `commit()`" (`rocksdb_storage.rs:193-194`) | `delete()` drops the pending write; a value that an earlier block committed stays and is read again | `Storage!Delete`, `OrderBook!Settle`, `Clearing!DeletePosition` |
| "Load current version from disk (for crash recovery)" (`rocksdb_storage.rs:122`, also `state/src/lib.rs:40`) | after a crash inside `commit()` the block is executed again on top of part of its own puts, since `begin_block` reads at the new version | `Storage!Crash`; `UntornBlockStarts` excludes it |
| "Nonce replay protection" (`README.md:232`), "Transaction nonce to prevent replay attacks" (`tx/src/lib.rs:94`) | nonce and balances are separate puts of `commit()`: when it is cut after the effects and before the nonce, the block that is sent again applies the payload again; cut the other way round, the payload is lost | `BlockExec!CutCommit`; `EffectsOnceInOrder` excludes the accounts in `torn` |
| "Maximum transactions per sender" (`mempool/src/config.rs:6`), "{current}/{max} transactions" (`mempool/src/error.rs:36`) | nonce entries are counted: a replaced transaction stays in the pool and is not counted, so a sender can hold more, up to `max_size` | `Mempool!AddTx`; `WithinLimits` counts listed transactions |
| "it's better to over-declare than under-declare accesses" (`state/src/access.rs:56-57`) | `PlaceOrder` does not declare the next order id nor the makers' orders and positions, `CancelOrder` not the active list ("We don't know the market_id without reading the order first", `tx/src/lib.rs:679`), `ClosePosition` not what its order touches: a place and a cancel of a maker's order declare no conflict and do not commute | not modelled; `AccountTxsCommute` is about the other transactions |
| "removes old state data to save disk space while keeping snapshots for point-in-time recovery" (`rocksdb_storage.rs:307-308`) | the newest value of a key not written for `prune_before` blocks is deleted too | `Storage!Prunable` |
| "FOK must be completely filled or fail" (`order_service.rs:112`) | fills are settled before the order fails | `OrderBook!FinishOrder` |
| "Rebuild orderbook from state (for recovery)" (`engine/src/lib.rs:241`, `state/src/lib.rs:355`) | nothing but tests calls the rebuild: a restarted executor matches against an empty book | `OrderBook`, `boot = "cold"` |
| "Rebuild position index from state (called on startup)" (`state/src/lib.rs:232`) | nothing but tests calls it; the first position set after a restart overwrites the stored index, and earlier positions are no longer found | `Clearing!SetPosition`, `unseen` |

### Bounds, and why they are enough

Each bound is a named constant. Three blocks give a value a past, a present and a
torn future, and with interval 3 and window 1 the pruning pass of block 3 removes
version 1, keeps version 0 (a snapshot version) and spares version 2. Two faults let a
second crash hit the recovery from the first. Two keys let a commit stop between
them. Two bodies make replacements happen, and with a pool of three and two nonces
per sender both limits of the pool bite. Two batches overlap; a replay of the first comes while the
second waits. Three orders are a maker left behind, a maker filled and a taker, and
sizes 1 and 2 give partial fills on both sides. One crash with a rebuild reaches
every phase of recovery; what a second crash would add is a crash during the rebuild,
which starts from the same empty book.

In `ClearingRun` an order of size 10 at 20 needs 30 of a balance of 40, so that the margin
check refuses some orders and lets others through. At 22 a short is below maintenance; at
17 a long is by the raw price, which puts it into the risk index, and is not by the price
rounded to the tick, 18, at which it is liquidated; 0 is the error path. A reward, a
shortfall and an empty fund occur. Three orders open two
positions and then reduce, close or flip one. Two entries make a duplicate in a batch of
two. In `FundingRun` four updates let the clock go back and forth once more, and 17 against 20 is
beyond the clamp while 21 is not; the longest gap is two intervals. Three blocks with batches of two are two batches, and
two loops with three starts and stops overlap. Heights 255 and 256 are in the opposite order
as little-endian bytes. Balances to 2 with amounts of 1 reach the overflow of a transfer.
In `ExportRun` four blocks with interval 2 give three exports at once, and re-sent blocks a second one.

In `ExecSafety` `MaxLog` is 1: a payload may fail as long as the log is empty, and the two
faults let a commit be cut and the block that is sent again be cut again. In `ExecLive` a pool of
two holds both senders or both nonces of one. `MaxQueue` bounds how many batches the
sequencer holds. Deadlock checking is off where a bound runs out and nothing else is left to happen: order
ids in the runs of `OrderBook`, orders and liquidations, funding updates, blocks of the leader and of
the exports, events, starts. In the runs of `Storage` and `BlockExec` TLC also
shows that the system can always move.
The traders of `BookCore` and `BookRecovery` are a symmetry set: the module compares
them for equality only, and no liveness is checked there.

### Fairness

`LiveSpec` assumes weak fairness of `GetTxs`, `ExecuteTxs`, `ExecuteTx` and
`CommitAnswered`. The first two are the sequencer's polling loop, which asks for
transactions and sends its oldest block again until it is answered; the third is
the executor's `for` loop, which nothing can interrupt but a crash; the last says
that an executed block is eventually acknowledged. Nothing is assumed of clients,
and none of the faults is fair. `ExecLive` has payloads that succeed and a block limit
that holds the pool: a payload that fails for ever stays in the pool for ever, and
one behind enough such payloads is never proposed. The code has no mechanism
against that, and the property does not claim one.

`Follower` assumes weak fairness of each sync loop: the runtime polls every loop that was
started, and the leader answers or its error is one of the bounded faults. Nothing is
assumed of starts and stops: `CatchesUp` speaks of behaviours in which the follower is
finally left running, and of chains without a failing payload, at which a follower stops
for good.

## 4. Proofs

Every theorem holds for all values of the constants that satisfy the named
assumptions of the modules: sets of keys, values and amounts of any size, any limits,
prices, rates, number of blocks and of faults. What the assumptions ask for beyond types:

| Assumption | Asks for | Because |
|---|---|---|
| `ConstantsAssumption` | a snapshot interval above 0 | the code divides by it |
| `MempoolAssumption`, `AccountAssumption`, `BookAssumption`, `ClearingAssumption` | finitely many senders, users, traders, liquidators | counts and sums are of finite sets |
| `MarketAssumption` | a least order size of at least 1 | with 0 an order of size 0 leaves a position of size 0; every market of the repository has one |
| `MarketAssumption` | a maintenance margin that is at most `Infinite`, the stand-in for `u32::MAX` | it is a `u32` |
| `MarketAssumption` | a fee split of at most the whole | `set_fee_split` refuses others |
| `BookAssumption` | sizes above 0 | the least order size, again |
| `ClearingAssumption`, `FollowerAssumption` | batches of at least 1 | a batch of 0 does nothing |
| `EventAssumption` | that no two heights have the same eight bytes | a height is a `u64` |
| `SentinelAssumption` and the like | that the value for "none" is no order, value or transaction | it stands for an `Option` |

**Storage** (`StorageProofs`).
`TypeCorrect`, then `IndexInvariant`, whose inductive invariant is
`TypeOK /\ IndexInv`. `FastPathSound` alone is not inductive: it says nothing of
the version that is being written. `IndexInv` adds how the three heights relate
(`HeightsAgree`), which puts of the running commit are done in each phase
(`BatchProgress`), and that the index names a stored version above which there is at
most the one value the commit has yet to index (`IndexExact`). It is guarded by
`~torn /\ ~pruned`, the two things after which the index really is wrong. From it
follow `FastPathCorrect` (the maximum that the scan looks for is the version the index
names), `HistoryImmutable` (a step writes only at versions that are not settled,
and every version settled before the step is settled after it) and
`BlocksStartCommitted`. `PruneKeepsWindow` needs only the types: what a pruning pass
deletes is older than the window, so it is never the newest version at or below one
that the window holds.

`RegularStepsMap` relates `Storage` to `VersionedStore` with the map that the engine sees as
the refinement mapping, and with every fault allowed: each `Regular` step is a step of the
abstract store or leaves it alone. A crash is regular wherever it falls, also between two
puts of a commit: the new process reads the durable state. The steps that are not regular
are those in which the code does not behave like the abstract store. After a torn commit
the block that is executed again sees parts of it; a failed put leaves parts of the block
readable without a restart; a restored snapshot moves the durable state only; a block that
is committed again, after a lost answer, overwrites the committed version put by put; a
deleted value that an earlier block committed comes back; and pruning takes newest values.
The invariant `ShapeInv` adds to `IndexInv` which of `pending` and `batch` is in use in
each phase and that what is put is what the batch holds (`CommitShape`); then every put but
the one of `CurrentVersion` leaves the abstract store alone, and that one is its commit.
`StorageRefines` follows where every step is regular (`Undisturbed`): no deletes, no pruning,
and of the faults only restarts. There the sequencer is never behind the disk when a block
begins (`NeverBehind`). TLC has checked `Regular`'s steps on the instance of `StorageFaults`
with restarts added.

**Mempool** (`BlockExecProofs`). `PoolWellFormed` is the inductive invariant `PoolInv`:
types, `IndexSound`, the limits, and that the pool is finite, without which its
cardinality says nothing, and that the counted nonce entries are within the limit
(`CountsWithin`), from which it follows that the listed transactions are (`ListedWithin`). Removing a transaction whose nonce entry was taken over
deletes an entry that names another one: harmless for soundness, since the entry
goes, and the proof shows that. `PoolIndexSound` and `PoolWithinLimits` follow.

**BlockExec** (`BlockExecProofs`). `ExecInvariant` adds to the pool's invariant
`EffectsOnceInOrder` itself, which is inductive once it speaks of the block in
progress and of the committed copy together; `AheadOfSaved`, that the block extends what is
committed, which a commit needs for `CommittedGrows`; and `BatchInHand`. The heart is
the lemma `LogKeepsOrder`: an effect may be appended exactly when its nonce is the
account's. A cut commit is `CutCommitKeeps`: for an account that it leaves in one piece, either
its nonce and all its new effects are readable or none of them count as whole, and both
logs are in order (`CutLeaves`, `CutKeepsOrder`); what was saved before stays a prefix. `ExecTypeCorrect`, `ExecOnceInOrder` and `ExecCommittedGrows` follow.

**Sums** (`Sums`). Totals of levels, positions, balances and elapsed times are sums over
finite sets, which the community modules define by a fold. `SumOver` is that fold, and what
it computes is shown by a least counterexample: were some law false, it would be false
of a smallest subset, and adding one element to a smaller one gives the contradiction.
`SumRemove`, `SumChange` and the others say how a sum moves when one summand does, and are
all that the proofs below use.

**Order book** (`OrderBookProofs`). None of the properties is inductive alone: a rebuild
takes the order of its queues from the active list, the active list comes back from disk
with the records, and a total may only be reduced because the order was in the queue. `Inv` therefore says,
of the state and of its committed copy alike, that the active list ascends and holds
exactly the live orders, all below the next id (`Consistent`); that what rests is live and
in its place (`BookSound`); what is missing in each phase since the last start
(`BookComplete`); that the order being placed is the newest and has no record yet
(`TakerNew`); and that each total is the sum of its queue (`Totals`). `TypeCorrect`,
`InTimeOrder`, `BookMirrors` and `DepthIsExact` follow.
`LongsAreShorts` carries the same balance for the committed positions, since a crash puts them back.
`NeverCrossed` is about behaviours in which no request is served on a book
that was not rebuilt: orders accepted by such a book may cross live ones it does not
hold, and a later rebuild would put both in. The invariant behind it speaks of
live orders, resting or not, on disk as well, and of the taker: as long as it has something left, it has
filled every maker it looked at but its owner's own (`TakerCleared`).
`RecordsExplainPositions` leaves out fill-or-kill orders, whose fills are settled before
they fail and are not recorded; `BookRecovery`, which checks the property, has none either.

**Clearing** (`ClearingProofs`). First the arithmetic: lemmas on every operator of
`Margin`, among them that a partial liquidation leaves something and that the parts of a
settlement, each rounded down, do not exceed the whole. `Inv` then says
that ledger and committed ledger are well formed with no position of size 0 but none at all, that
every position not `unseen` is in the index and a loaded index equals the stored one
(`BooksOK`), that the fund is accounted for, and that a running ADL is within its
request. `TypeCorrect`, `FundIsAccounted`, `ScanFindsPositions` and `AdlStopsInTime` follow at once;
`EnginesDecideAlike` needs that `a * 10000 \div v < m` and `a < v * m \div 10000` differ by
the rounding only. `LiquidatesOnlyUnderwater` and `PayoutIsBounded` are about steps: the lemma
`ResultMeansSettled` shows that a result is reported only by a step that checked the position and
settled it in one go, whether called directly or from a batch whose entries are stale.

**Accounts** (`EngineProofs`). `Sound` (types, and balances as deposits less withdrawals
less stranded) holds of the state and of the committed copy. Every service is shown to
end in an allowed state (`Allowed`), whether it succeeds, fails or fails after a debit; `SupplyHolds` and
`OwnerActs` follow. `AccountAccessesSuffice` is about the account transactions, and does not enumerate pairs of services: a
transaction changes balances by amounts that depend only on what it touches
(`Parallel`, `Agree`), what it touches it declares, and additions commute. The sender's nonce is declared
as written, so two transactions of one sender always conflict.

**Funding** (`EngineProofs`). `FundingInv`: the record is the last of its history, and each
step of the history is within the highest rate (`History`), of the record and of the
committed one. `IndexFollowsRate` sums these steps over any stretch; `FundingBalances` is about
the division alone, which is shown to be off by less than one unit.

**Events** (`EngineProofs`). `EventInv` adds to `EventsAccounted` the types and that what
is buffered was appended. A batch may hold one key twice, so the counter only bounds the
number of keys: the lemmas show that writing a batch adds at most its length.
`QueriesMatch` is about what the queries return, and needs `LogInv` besides: each stored
event is under its own key; while nothing was lost, the disk holds what the first `count`
appends left last under each key and the buffer holds the appends after them; the events
of a transaction in a block are numbered without a gap; and unless a key was appended twice
they were appended in the order of their numbers (a second run would start again at 0,
which repeats a key). The rest is about sorting: `SortedProps` says that `Sorted` lists every
element once and in order, by counting, since the number of earlier elements is a bijection
onto `0 .. n - 1`. Without gaps the element at place i has number i - 1 (`RankIsNumber`),
which gives the query by transaction. For the query by address both stores list equally many
events of each block and newer, so their listings are from the same blocks at every place
(`LevelsFall`), before and after the cut; and a block with all newer ones that fits into the
limit is wholly before the cut (`FallsWithin`). For a range of blocks, `BlockVersions` shows that
what is stored of a block is the last version of each of its events. `BytesOrder` shows that heights are totally
ordered by their bytes, so the first key of an event number exists.

**SnapshotExport** (`SnapshotExportProofs`). What an upload may publish depends on what
its export did before, so neither `LatestComplete` nor `ArchiveCoversHeight` is
inductive. `ExportInv` adds `Standing`: an export that has begun is for a committed block,
one past its checkpoint holds that block, one past its archive has uploaded it, one about to
write latest.json has uploaded its metadata. A truncation that hits what latest.json names
enters that height in `overwriting`. `PublishedComplete` and
`ArchivesHoldTheirBlock` follow.

**Follower** (`FollowerProofs`). The height a sync writes was asked for before its batches,
and other loops write theirs in between. `FollowerInv` adds `Progress` to
`SyncedMeansReplayed`: a loop that is syncing has every block below its next one
replayed, by whichever loop, and aims at a height the leader has. A batch stops at the first
failing payload (`ReplayBatchKeeps`), so what is replayed has no gap; only a restart takes
anything back, and it takes the height and every loop with it. `PromiseKept` follows, for
any number of loops and any batch size. `RunsOnce` adds `OnceInv`: while nothing was
disturbed at most one loop is syncing, and exactly the blocks below its next one (or, when
none is, up to the height) have been replayed, each once.

**Checked by TLC only.** Liveness (`NextNonceExecuted`, `CatchesUp`), which with ENABLED is
beyond the prover. Every other property of a run is a theorem. Outside the hypotheses of
`StorageRefines`, `NeverCrossed` and `RecordsExplainPositions` the code does not have the
property, see section 3. The operations `PruneSenderNonces` and `Clear` of the pool,
which the node never calls, are in the specification `MSpec` that the pool's theorems are
about, and in no run.

## 5. Known gaps of the code that no run states

Seen while modelling, without a sentence in the repository that says otherwise:
`ready_txs` also returns transactions behind a nonce gap, which
fail and come again; a payload that fails partway can leave its partial effects more
than once; reduce-only is checked when an order is placed and not when it fills;
after `restore_from_snapshot` the values and index entries above the snapshot remain,
and StateManager's version is not moved; an overflowing transfer destroys what it
debited; a partial liquidation pays out the equity of the whole position while the
position keeps part of its margin, and no liquidation debits anyone for the equity it
pays; a failed second export of a height leaves a truncated file in a local directory, which
`latest.json` may name; bridge operators are never removed by a new configuration; the insurance fund, the
risk index and the agents are gone after a restart; a follower that met a failing payload
replays the blocks before it at every retry. The ones that can bite are under "hazards".

## 6. What is not modelled, and the plan

Not modelled: Merkle proofs and state roots, encoding and hashing, signature
recovery, RPC queries, WebSocket broadcasting, metrics, archive formats and uploads,
configuration, the load test. They are pure computation or I/O without a decision
that other parts depend on, or cryptography. Also left out is code that nothing in the
program calls: `index_manager.rs`, `executor_trait.rs`, the rate limiter and the circuit
breaker of `rpc/src/middleware.rs`, backups of the storage, `check_withdraw_allowed` and the
margin modes of `risk.rs`, nomination of agents.

Planned, most important first:

1. The declared accesses of orders and positions against what `OrderBook`'s actions touch.
2. The refinement of `VersionedStore` with deletes, against an abstract store in which a
   delete undoes the block's own write only.
3. Commits put by put in `Accounts` and `Clearing`.

Related questions are asked in one run where an instance can answer both,
as `StorageFaults` and `ClearingRun` do.
