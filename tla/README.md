# Triangles: a TLA+ verification project

Triangles is a proof-of-stake cryptocurrency node in C++ (`src/src/`). This
directory holds TLA+ specifications of the parts of the node that decide which
chain it follows and what it believes about coins, the TLC configurations that
check them on small instances, and proofs checked by TLAPS. `PROJECT.json` lists
the runs, the properties, their mutants, the hazards, the findings and, for each
definition that models code, the lines it models. Paths below are relative to
`src/src/`.

## 1. Inventory of the system

### Core

**Block acceptance and best-chain selection** (`main.cpp`, `main.h`).
State: `mapBlockIndex`, `pindexBest`/`hashBestChain`/`nBestHeight`,
`nBestChainTrust`, `setStakeSeen`, `nAssumeValidThreshold`,
`pindexLastHardenedCheckpoint`, the orphan maps. Operations: `ProcessBlock`,
`AcceptBlock`, `AddToBlockIndex`, `SetBestChain`, `SetBestChainInner`,
`Reorganize`, `ConnectBlock`, `DisconnectBlock`. All run under `cs_main`; the
database is written in batches and the process may die between two of them. Hard:
a failure half way through a reorganization, the postponed connects after one, a
crash at any point, competing branches in any order, height-based shortcuts.
Correct when: the stored UTXO set is the one of the stored chain; the tip in
memory is the stored tip; only valid blocks are in the chain; the valid chain
with most trust wins; a checkpoint is never left.

**Chain database and UTXO cache** (`txdb-base.cpp`, `txdb-rocksdb.cpp`).
State: index entries, `hashBestChain`, transaction index, UTXO entries, address
index, the open batch (`activeBatch`), the process-wide `g_mapUtxoCache`.
Operations: read, write, erase, `TxnBegin`, `TxnCommit`, `TxnAbort`,
`LoadBlockIndex`. Hard: the cache is updated at once and the database at commit.
Correct when the cache answers what the database, open batch included, holds.

**Hardened checkpoints** (`checkpoints.cpp`). State: a compiled map and one
pointer set at startup. `CheckHardened`, `GetLastCheckpoint`,
`GetLastCheckpointHeight`. Correct when no compiled checkpoint is reorganized
away.

**Memory pool** (`CTxMemPool` in `main.cpp`). State: `mapTx`, `mapNextTx`.
`accept`, `remove`, `removeConflicts`. Read by `FetchInputs`. Correct when no two
members conflict and every input is unspent or in the pool.

**Script check queue** (`checkqueue.h`). State: `queue`, `nIdle`, `nTotal`,
`nTodo`, `fAllOk`, `fQuit` under one mutex, two condition variables, and the
local `fOk` of every thread. Operations: `Thread`, `Wait`, `StartBatch`, `Add`,
`Quit`. Used by `ConnectBlock` (master) and `ThreadScriptCheck` (workers). Hard:
lost notifications, checks that outlive the batch, `Quit` during a batch. Correct
when `Wait` returns true only if every check of the batch succeeded, returns
false only if one failed, and always returns.

**Address manager** (`addrman.h`, `addrman.cpp`, `CAddrDB` in `db.cpp`). State:
`mapInfo`, `mapAddr`, `vRandom`, `vvNew`, `vvTried`, `nNew`, `nTried`, and
`peers.dat`. Operations: `Add_`, `Good_`, `Attempt_`, `Connected_`, `Select_`,
`GetAddr_`, dump and load. Called by the message handler, the connection threads
and the dump thread, each under `cs`. Hard: five structures updated by hand, full
buckets, renumbering at restart. Correct when `Check_` returns 0 after every
operation and a restart restores what was dumped.

**Orphans and block download** (`syncmanager.cpp`; `ProcessBlock`,
`ProcessMessage`, `SendMessages` in `main.cpp`; `CNode` in `net.h`, `net.cpp`).
State: `mapHeaders`, `hashBestHeader`, `g_nInFlight`, per-peer request filters,
`mapAskFor`, `mapOrphanBlocks`, `mapOrphanBlocksByPrev`, `dequeOrphanOrder`.
Operations: the handlers of version, inv, headers and block; `QueueBlocksParallel`,
`RequestRefill`, `ContinueHeaders`, `Tick`. Hard: lost and late answers, timeouts,
eviction, a peer that disconnects. Correct when the in-flight counter is exact,
the headers leave no hole and do not run away, no orphan is left behind, and the
download completes.

**The data directory and startup** (`AppInit2` in `init.cpp`, `walletmigrate.cpp`,
`chaindb_migrate.cpp`, `utxosnapshot.cpp`, `snapshotnet.cpp`, `LoadBlockIndex` and
`FastImportBlockFile` in `main.cpp`). State: `wallet.dat` with its temporary file
and backup, the directories `txleveldb/` and `rocksdb/`, the markers
`MIGRATION_INCOMPLETE` and `REINDEX_INCOMPLETE`, `blk0001.dat`,
`utxo-snapshot.bin`. Operations: the conversions of wallet and chain database, the
load of a snapshot, `-reindex`, the fetch of a snapshot. They share no memory but
the files, and each start works on what the last one left. Hard: a crash or a
failed file operation between any two steps, and what the next start, perhaps
with another command line, makes of the leftovers. Correct when no key is lost,
a node that runs has a whole chain database with the chain of before, and no
leftover keeps the node down for ever.

### Around the core

| component | state and operations | hard behaviour |
|---|---|---|
| wallet (`wallet.cpp`, `keystore.cpp`, `crypter.cpp`) | transactions, key pool, lock state; sync with blocks, reserve/keep/return of keys, coin selection | a reorganization during a scan; keys reserved twice |
| encrypted messaging (`smessage.cpp`) | time buckets, per-peer locks, file store | concurrent bucket synchronization |
| notifications (`notificationqueue.h`) | bounded queue, one consumer thread | overflow, shutdown |
| kernel and staking (`kernel.cpp`, `miner.cpp`) | stake modifier, kernel hash, staking thread | arithmetic on digests |
| scripts and signatures (`script.cpp`, `sigcache.h`) | pure interpreter, a cache of verdicts | |
| network (`net.cpp`, `netbase.cpp`, `net_bootstrap.cpp`) | peers, send and receive buffers, bans | sockets, threads |
| sync checkpoints (`checkpointpublisher.cpp`) | not enforced by `AcceptBlock` | |
| fee estimator, RPC, REST, ZMQ, Tor/I2P process control, Qt, hash functions | | formatting, I/O, third-party code |

### How the parts interact

A block arrives from `ProcessMessage` (or a miner, or `-loadblock`) at
`ProcessBlock`, under `cs_main`. If its parent is unknown it becomes an orphan and
`CSyncManager` asks for the parent. Otherwise `AcceptBlock` puts it into the index
in memory and opens a database batch for the entry (`AddToBlockIndex`); with more
trust than the best chain, `SetBestChain` extends or reorganizes. `ConnectBlock`
reads inputs from the block itself, the UTXO cache over the database, and the
memory pool; hands the scripts to the check queue and waits for the verdict;
writes outputs through cache and batch. The commit makes the step durable. The
memory pool, `setStakeSeen` and the wallet are told afterwards. At startup
`LoadBlockIndex` rebuilds the index, looks for a better tip and calls
`SetBestChain` on it; `AppInit2` then sets the checkpoint pointer. Before all
this `AppInit2` has converted whatever the data directory held.

`Startup` and `ChainState` meet at the database: where `Startup` says *whole*,
`ChainState` begins with the consistent database of its `Init`. `BlockSync` and
`ChainState` meet at `AcceptBlock`: `BlockSync` delivers each block once its parent is
there, in any order across branches as far as `ChainState` is concerned.

## 2. Modules

| module | models | kind |
|---|---|---|
| `ChainState` | acceptance, best-chain selection, chain database, UTXO cache, checkpoints, the memory pool as far as block validation reads it, crash and startup | specification |
| `MCChainState` | block trees for the runs | instances |
| `Ledger` | what the chain database promises to its readers | abstract specification |
| `ChainRefinement` | `ChainState` implements `Ledger` | refinement mapping |
| `ChainStateProofs` | type correctness, cache coherence | proofs |
| `ChainStateUtxoProofs` | stored chain, tip, exactness of the UTXO set | proofs |
| `ChainRefinementProofs` | order of trust, checkpoint, the refinement of `Ledger` | proofs |
| `ChainValidProofs` | the stored best chain is valid, and of greatest trust | proofs |
| `CheckQueue` | the script check queue | specification |
| `CheckQueueProofs` | counters, verdict, end of a batch | proofs |
| `AddrMan`, `MCAddrMan` | the address manager and `peers.dat` | specification, instance |
| `AddrManProofs` | the tables, the bucket sizes, `peers.dat` | proofs |
| `Startup`, `MCStartup` | the data directory over any number of process starts | specification, instance |
| `StartupProofs` | keys, whole database, upgrade | proofs |
| `BlockSync`, `MCBlockSync` | initial block download and the orphan blocks | specification, instance |
| `BlockSyncProofs` | request counter, headers, backpressure, orphans | proofs |

Definitions named `...Lost`, `...Always`, `...Any` and the like, introduced by a
comment that starts with "Fault", are not used by any specification: each is the
form a plausible bug would give the definition that follows it. Every checked
property is violated when such a form takes the definition's place.

### ChainState

State variables bear the names of the code. `disk` is what a restart finds in the
chain database, `view` the database as the open batch leaves it; so `TxnCommit`
is `disk' = view'` and `TxnAbort` is `view' = disk`. `utxoCache` is the function
`ReadUtxo` computes: the entry of `g_mapUtxoCache` where there is one, otherwise
the database. `WriteUtxo` evicts old entries, and which ones is left open
(`Evicted`). `pc` and `op` are where `SetBestChain` is: `"extend"` (the new block
is a child of the best), `"disconnect"` and `"connect"` (`Reorganize`),
`"secondary"` (postponed connects), `"load"` and `"startup"` (`LoadBlockIndex`,
`AppInit2`). One action connects or disconnects one block, so a crash may fall
between any two. `wrote`, `poisoned` and `scars` are history: they record that a
batch with UTXO writes was dropped, or a postponed connect failed.

Blocks and transactions are constants: the tree (`pprev`, `nHeight`, `chain`), the
trust, time and hash of a block, `vtx`, `vin`. A transaction has one output.
Verdicts that depend on one block alone are sets: `Sound` (scripts, sigops, fees,
reward, and with it the whole check queue) and `Staked` (the kernel).

| action | code |
|---|---|
| `AcceptSideBlock`, `AcceptBestBlock` | `CBlock::AcceptBlock`, `AddToBlockIndex`, the decision to call `SetBestChain` |
| `Extend`, `ExtendFails`, `ExtendCommitFails` | `SetBestChainInner` on a child of the best block |
| `DisconnectBlock`, `ConnectBlock`, `ConnectBlockFails`, `ReorganizeIoError`, `CommitReorganize` | `Reorganize` |
| `ConnectSecondary`, `SecondaryFails`, `SecondaryCommitFails` | "Connect further blocks" in `SetBestChain` |
| `AcceptToMemoryPool` | `CTxMemPool::accept` |
| `Restart`, `LoadBetterTip`, `LoadNoBetterTip`, `SetHardenedCheckpoint` | process end, `LoadBlockIndex`, `AppInit2` |

Left out, each for the stated reason: the address index; wallet
callbacks; `nBestInvalidTrust` (a report); the `-checkblocks` pass at load; blocks
whose parent is a stub of `InsertBlockIndex` (its height and trust are zero and
later checks read them; such blocks are not accepted in the model); the two-minute limit on
tie breaks is a free choice to keep the best block; `Resurrect` takes the
transactions of a left branch as a set, not in order.

### Ledger and ChainRefinement

`Ledger` is the node as the wallet, the staker and the RPC server see it: a block,
the UTXO set and the transaction index of the chain that ends in it, and the
checkpoint it may not leave. `Switch` replaces all of it in one step by the ledger
of a block with no less trust. `ChainRefinement` maps `disk` to it, so every
connect, disconnect, failed batch, crash and resumed reorganization of `ChainState`
must be a `Switch`, a change of the pin or nothing at all. After a failed postponed
connect (`damaged`) only the order of trust and the pin are left of the promise.

### Startup

`pc` is the place in `AppInit2`; each action is one file operation, or several that
no crash can tell apart. A chain database is `"none"`, `"bare"`, `"partial"` or
`"whole"`; heights are small numbers; a wallet file is its format and the keys in
it. `opt` is the command line (`-chaindb`, `-reindex`, `-migratechaindb`,
`-migratechaindbforce`). `Crash` is possible everywhere, the other actions of
`FaultStep` are file operations that fail. `scars` is history: it names the places
where the code leaves an unmarked directory (`"unmarked"`), deletes a database
that is open (`"deleted"`, after which the process is undefined and `RunDeleted`
leaves anything), overwrites `blk0001.dat` (`"replaced"`) or begins a LevelDB chain
anew (`"restarted"`). The invariants hold as long as the scars they name have not
happened; two of these places are findings.

| actions | code |
|---|---|
| `SkipWalletMigration` to `SwapWallet` and their failures | step 5, `MaybeMigrateBerkeleyWalletToSQLite` |
| `SkipSnapshot`, `BeginLoadSnapshot`, `ExtractBlocks`, `FinishLoadSnapshot`, `LoadSnapshotFails` | step 6c, `LoadSnapshot` |
| `SkipMigration` to `RemoveMigrationMarker` and their failures | step 6d, `MaybeMigrateLevelDbToRocksDb` |
| `BeginReindex`, `WipeSome`, `WipeRest`, `ImportSome`, `ImportRest`, `RemoveReindexMarker` and their failures | step 7 with `-reindex`, `FastImportBlockFile` |
| `LoadBlockIndex`, `WriteGenesis`, `IndexGenesis` | step 7 without |
| `LoadWallet` | step 8 |
| `FetchSnapshot`, `FetchSucceeds`, `FetchFails` | step 11.6, `TryFetchSnapshot` |
| `AcceptBlock`, `Shutdown`, `DeleteRocksDb` | the running node; what the message about an interrupted migration tells its owner to do |

Left out: wallets that stay with Berkeley DB (`-walletdb=bdb`), salvage and backups,
snapshots accepted without a compiled hash, the bootstrap download. A start with
`-reindex` and a crash after it are as in the code; that `AcceptBlock` may write
`blk0001.dat` and die before the database is the subject of `ChainState`.

### BlockSync

All peers have one valid chain of height `Top`, and a block is its height. A peer's
answer is fixed by the request, so a request is represented by its answer: a CNode
has the locators of the getheaders messages under way, the blocks announced and
the blocks asked for. Blocks of one peer come in the order they were asked for;
headers, announcements and blocks overtake one another, and so do the answers of
several peers. `mapHeaders` has per height whether it was requested, and whether
that is more than five seconds ago (`TimePasses`).

| action | code |
|---|---|
| `Version`, `Disconnect` | the version handler; deletion of a `CNode` with all it was asked for |
| `Headers`, `Inv` | the headers and inv handlers, `ProcessHeaders` |
| `KnownBlock`, `OrphanBlock`, `AcceptBlock` | the block handler and the three outcomes of `ProcessBlock` |
| `Tick` | `CSyncManager::Tick` and stall recovery in `SendMessages` |

Abstracted: which peer is asked (scores, weights, caps) is left open; the caps add
up to more than the window. A getheaders message under way stands for the seconds
in which `RequestRefill` leaves a peer alone. Left out: competing header chains, invalid
headers and blocks, slow-peer eviction (needs three outbound peers), the peer's
announcement of its tip and its `hashContinue`, the inv-walk bridge (with one chain the
walk never passes the best block), the second request to another peer in
`QueueBlocksParallel` (its condition on the number of weighted peers never holds: a
peer counts three or five times), and the end of initial download. `PruneHeaders` is
left out because `FrontBounded`, with the code's numbers 32768 and 2000, stays below
the 50000 headers at which it begins to evict.

### CheckQueue

One variable per member, the mutex explicit, `pc` per thread. Condition variables
are wait sets with spurious wakeups. `Thread`/`Wait` enter `Loop` by `Enter`; the
`while (queue.empty())` is `LeaveOnQuit`, `LeaveDone`, `Sleep`; `Take` takes a share
of the queue and unlocks; `Finish` runs the checks and accounts for them under
the lock. `fOk` is kept from turn to turn as in the code. `nTodo` wraps at `Word`.

### AddrMan

The record `am` is the `CAddrMan`. Every operation holds `cs`, so each is one step;
`GetAddr` is one step per iteration of its loop. The bucket hashes are constants.
`ShrinkNew` removes any member of the bucket, because which one depends on time
and chance. `Serialize` and `Unserialize` model the format: entries by place,
buckets by index, tried tables rebuilt. `Attempt_` and `Connected_` only change
statistics that the model leaves open; `Select_` only reads.

## 3. Runs

| run | question | answer |
|---|---|---|
| `chain_honest` | two branches of valid blocks over a checkpoint and a heavier one that forks below it; failing reads and commits; a crash anywhere | `UtxoIsUnspent`, `CacheCoherent`, `BestChainStored`, `TipOnDisk`, `DiskTrustGrows`, `StartupCheckpointHolds`, `TypeOK` hold, and `ImplementsLedger` |
| `chain_invalid` | blocks invalid in every way `ConnectBlock` tests for, alone and inside a branch | `BestChainValid`, `GreatestTrustWins` hold |
| `checkqueue` | two workers, a master, any number of batches of up to three checks, `Quit` at any time | `TodoAccounting`, `WaitSound`, `NoCheckOutlivesWait`, `WaitReturns`, `QuitStopsWorkers`, `TypeOK` hold |
| `addrman` | three addresses, two ports of one, full buckets, dumps and restarts | `CheckOK`, `BucketsBounded`, `TriedStaysKnown`, `RestartRestores`, `TypeOK` hold |
| `startup` | new and old data directories, six command lines, two crashes or failing file operations anywhere, any number of starts | `KeysNeverLost`, `RunsOnWhole`, `UpgradeKeepsChain`, `ComesUp`, `TypeOK` hold |
| `blocksync` | two peers, one disconnect, answers in any order | `InFlightExact`, `HeadersBridge`, `FrontBounded`, `OrphansWait`, `TypeOK` hold |
| `blocksync_live` | does the download complete when a lost peer takes a full window with it? | yes: `SyncCompletes` |
| `chain_double_spend` | can two transactions of a block spend one output? | yes |
| `chain_split_tip` | is the database right after a postponed connect failed? | no |
| `checkqueue_stale_verdict` | does a batch fail only if one of its checks does? | no |
| `startup_wallet` | does a node always run on the wallet whose keys it gave out? | no |
| `startup_upgrade` | does a node that had a LevelDB chain always have it on RocksDB? | no |

The last five are the findings of section 6: the run checks what a comment of the
code states and ends with a counterexample. The two passing chain runs carry the
side conditions these findings impose: a property that a failed postponed connect
breaks is stated until that happens (`"split" \notin scars`), one that a dropped
batch breaks until then (`poisoned`).

### Bounds, and why they suffice

* `chain_honest`: nine blocks, heights up to five. The branches of length two and
  three over P are the shortest in which a reorganization disconnects and
  connects more than one block, an output is spent in one branch and unspent in
  the other, a transaction is in both, and a block is connected after the
  reorganization (`"secondary"`). Ties in both directions occur, since A and
  B differ in time. H forks below the checkpoint P.
* `chain_invalid`: one block for each reason to be refused, and one in the middle of
  a branch that is heavier than the best chain. The assumption `PlainScenario` shows that
  the hypothesis of the theorems in `ChainValidProofs` holds of this tree. Commits do not fail here: that is
  the subject of the other run.
* `MaxChecks = 3`, `nBatchSize = 2`, `Word = 8`: a thread can take one or two checks, two
  threads can hold checks while one is queued, and the counter can wrap. Batches
  are not bounded in number.
* `addrman`: `MaxId = 3` entries between restarts; buckets of one entry, so each
  addition to a used bucket shrinks it and each success evicts; both placements
  of an evicted entry occur. An address is in at most two buckets and there are two, so
  the limit `ADDRMAN_NEW_BUCKETS_PER_ADDRESS` is reached but never refuses a third bucket.
* `nCoinbaseMaturity = 1` and `ASSUME_VALID_BUFFER = 100` replace the constants of
  the code so that short chains meet them or, for the buffer, stay below it.
* `startup`: `MaxFaults = 2`, so that a start may fail on what a failed start left, and
  a rename back may fail after a rename; starts are not bounded. Height 2 with
  snapshot and checkpoint at 1 tells the old chain, the snapshot's and a new one
  apart. `Options` has every combination of backend, `-reindex` and migration that
  changes the path through `AppInit2`.
* `blocksync`: a chain of four, messages of two headers, the front at most three
  ahead, three requests, one orphan: the window is full, backpressure acts with a
  request of the other peer under way, an orphan is evicted, several are promoted at
  once. The peers are symmetric. `LowWater = 0`: the planner is low when it is empty.
* `blocksync_live`: a chain of three and a window of one, so that one lost request
  closes the window; the run takes the invariants' place for liveness only.

### Fairness

**CheckQueue.** `LoopStep` is weakly fair for every thread:
a thread that holds the mutex goes on. `Acquire` is strongly fair: the mutex is
contended and may be free and taken again and again, and the implementation of
`std::mutex` on the supported platforms starves nobody. `Enter` of the master
is `Wait`, which the destructor of `CCheckQueueControl` calls at the latest. Nothing
is assumed of `StartBatch`, `Add`, `Quit` or spurious wakeups.

**Startup.** `AppInit2` waits for nothing, so `InitStep` is weakly fair. Whoever runs
the node starts it again when it is down, now and then with `-reindex`, and deletes
`rocksdb/` when the message says so: strong fairness of these three, since other
starts may come between. Crashes are bounded, so they end.

**BlockSync.** `ThreadOpenConnections` opens connections again (`Version`), peers answer
what they are asked (the three message actions), the timers of `Tick` expire and
time passes. Disconnects are bounded, so they end. A peer that stays connected and
never answers is not fair in this sense; see the last observation of section 6.

The other models have safety properties only.

## 4. What is proved

Every theorem holds for all values of the constants that satisfy the named
assumptions of the module, which TLC evaluates in the runs. Each rests on an inductive
invariant that is stronger than the property, was first checked by TLC on the run of
the component, and is preserved by a lemma per action.

| module | theorem | statement |
|---|---|---|
| `ChainStateProofs` | `TypeCorrect` | `Spec => []TypeOK` |
| | `CacheIsCoherent` | `Spec => []CacheCoherent` |
| `ChainStateUtxoProofs` | `BestChainIsStored` | `Spec => []BestChainStored` |
| | `TipIsOnDisk` | `Spec => []TipOnDisk` |
| | `UtxoIsExact` | `HonestTree => (Spec => []UtxoIsUnspent)` |
| `ChainRefinementProofs` | `TrustNeverFalls` | `Spec => DiskTrustGrows` |
| | `CheckpointHolds` | `Spec => StartupCheckpointHolds` |
| | `DatabaseIsLedger` | `HonestTree => (Spec => ImplementsLedger)` |
| `ChainValidProofs` | `BestChainIsValid` | `PlainTree => (Spec => []BestChainValid)` |
| | `ValidChainOfGreatestTrust` | `PlainTree /\ ~IoErrors => (Spec => [](scars = {} => GreatestTrustWins))` |
| `CheckQueueProofs` | `TypeCorrect` | `Spec => []TypeOK` |
| | `TodoIsExact` | `Spec => []TodoAccounting` |
| | `WaitIsSound` | `Spec => []WaitSound` |
| | `ChecksEndWithWait` | `Spec => []NoCheckOutlivesWait` |
| `StartupProofs` | `TypeCorrect` | `Spec => []TypeOK` |
| | `KeysAreNeverLost` | `Spec => []KeysNeverLost` |
| | `RunsOnlyOnWhole` | `Spec => []RunsOnWhole` |
| | `UpgradeKeeps` | `Spec => []UpgradeKeepsChain` |
| `BlockSyncProofs` | `TypeCorrect` | `Spec => []TypeOK` |
| | `InFlightIsExact` | `Spec => []InFlightExact` |
| | `HeadersAreBridge` | `Spec => []HeadersBridge` |
| | `FrontIsBounded` | `Spec => []FrontBounded` |
| | `OrphansAlwaysWait` | `Spec => []OrphansWait` |
| `AddrManProofs` | `Inductive` | `Spec => []IInv` |
| | `TypeCorrect` | `Spec => []TypeOK` |
| | `ChecksPass` | `Spec => []CheckOK` |
| | `BucketsStayBounded` | `Spec => []BucketsBounded` |
| | `RestartIsExact` | `Spec => []RestartRestores` |
| | `TriedStays` | `Spec => TriedStaysKnown` |

### ChainState and Ledger

The assumptions are `BlockTree` (a finite-height tree whose trust is positive at
genesis and grows from parent to child, the genesis block a checkpoint),
`Transactions`, `LastCheckpoint` (the compiled map of checkpoints has a last entry) and
`Parameters`.

*`IInv == TypeOK /\ OpInv /\ CacheInv`.* Type correctness is not inductive by
itself: `Extend` and `DisconnectBlock` read `pprev[op.at]`, so `OpInv` says that an
operation under way has blocks in hand, and that the block being disconnected is
above the fork. Coherence is not inductive either: an aborted batch must be known to
hold no UTXO writes, which `wrote` records; `CacheInv` relates `wrote`, `view` and
`disk`, and says that outside `Reorganize` no UTXO write is pending. The proof has a
lemma per group of actions and rests on lemmas about the operators: the fork of two
chains exists (`ForkExists`), the intermediate block exists (`IntermediateExists`),
eviction keeps the cache coherent (`EvictedSound`), connecting and disconnecting map
databases to databases.

*`ChainInv`* adds `IndexClosed` (an index entry that is not a stub has its parent in
the index), `TipInv` (which block `SetBestChain` has in hand in each phase) and
`StoredInv` (index entries of every block of the chains in hand are in memory, in
the batch and on disk, as the phase requires). `BestChainStored` alone is not
inductive: a block may be in the index in memory without being stored, because the
batch that held its entry was aborted; that connecting it writes the entry again,
and its parent's, is what `StoredInv` carries along the branch.

*`HonestInv`* adds `UtxoInv`: `view` holds the UTXO set and transaction index of the
block in hand (`Cursor`), `disk` those of the stored best block. Its two central
lemmas are `ConnectIsUnspent` and `DisconnectIsUnspent`: what `ConnectBlock` writes
turns the unspent outputs of a chain into those of the chain one block longer, and
`DisconnectBlock` back, heights included. They need `HonestTree` (no transaction
twice in a chain, every output made before it is spent and spent once, no
snapshot outputs), which is exactly what fails in `chain_double_spend`.

*`MoveInv`* is about the two best blocks, in memory and on disk, and holds also after
a postponed connect has failed, where `TipOnDisk` does not: the stored best block is
then an ancestor of the one in memory, and the branch `SetBestChain` moves to has no
less trust than that and contains the pinned checkpoint if the old one did. From it
every step of `disk.best` goes up in trust and keeps the pin; with `HonestInv` every
step of `ChainState` is a `Switch`, a change of the pin, or a stutter of `Ledger`.
Trust at genesis must be positive, because an index entry that is only a stub has
trust zero.

*`ValidInv` and `SideInv`* are what `BestChainValid` needs. The two trees are different:
`HonestTree` has no invalid block at all, `PlainTree` has any, as long as no shortcut of
`ConnectBlock` lets one through. It excludes what the code accepts unchecked
or against its own comments, each in one clause: outputs of a snapshot; an output made
again after it was spent; two transactions of one block that spend one output
(`chain_double_spend`); an invalid block at or below the last checkpoint or the rolling
assume-valid threshold; an input that is unspent nowhere on the chain and is found in
the memory pool. `PlainScenario` has TLC evaluate that the tree of `chain_invalid` is such
a tree. `ValidInv` says that until the first scar the stored chain and the chain of the
open batch (`Cursor`) are valid and that each database holds exactly the unspent outputs of its
chain; validity alone is not inductive, because `ConnectBlock` judges a block by the
UTXO set it finds. Its central lemma `CheckIsSound` shows that on such a UTXO set a block
that `CheckConnect` passes is `Valid`; `ConnectValid` and `DisconnectValid` are the
counterparts of the two lemmas above with only the blocks of the chain in hand known to
be valid. `SideInv` bounds the rolling threshold by the height of some block and says what
the memory pool can hold: neither is determined by the chain, since both keep what an
abandoned branch left.

*`TrustInv`* is what `GreatestTrustWins` needs on top of that, and of the other
direction, `CheckIsComplete`: a `Valid` block passes `CheckConnect`, so a refused branch is
invalid (`RefusedLoses`). The property is not inductive because a restart forgets which
branches were refused and rebuilds `mapBlockIndex` from what is stored. `IndexInv` says that
no stored entry has more trust than the stored best block; `LostInv` that an entry in memory
that is not stored is on a chain that loses, because it is invalid or forks off below
the pinned checkpoint; `PinInv` that a restart pins the same checkpoint or a higher one, so
that what lost stays lost; `HandInv` that the operation under way handles a block that
is new or stored, and that a branch in hand leaves the checkpoint alone. The step that
needs all of them is the reorganization to an intermediate block: it is refused if
and only if the branch is invalid, and only then the entry of the new block is dropped with
the batch.

The hypotheses of `ValidChainOfGreatestTrust` are the reach of the claim. After a
dropped batch or a failing commit the entry of a valid block can be in memory and not on
disk, and after a restart it is gone, or a stub of trust zero if a child of it is
stored; the heavier valid chain is then not chosen until it is sent again. So the
theorem is for `~IoErrors` and until the first scar, where the run checks the property
also after a restart that follows a dropped batch.

Induction over a chain is done as a minimal-counterexample argument on heights
(`LowestExists`, `TreeInduction`).

### CheckQueue

The assumptions are in `ConstantsOK`. `TodoAccounting` needs to know who has checks in
hand: `Control` ties `pc` to the mutex and to `vChecks`, `Counted` says that `nIdle` and `nTotal` are the
numbers of threads that sleep and that are inside `Loop` (so no decrement wraps), `Todo`
that until `Quit` the counter is the number of checks queued or in hand and zero between
batches. `WaitSound` needs `BadRemembered`: a failing check of the batch is queued, in
hand, or has turned `fAllOk` false; that none of the first two is possible when `Wait`
returns follows from `Todo`.

### Startup

`Control` says which markers and directories each place in `AppInit2` has seen or made;
`Keys` that a wallet in the old format has every key given out, and that `wallet.dat`
and its backup together always have them, whatever became of the copy; `MarkedInv` that
a partial directory is marked unless the process that is writing it still runs;
`ChainKeptInv` where the old chain is at each step of a migration or reindex. The three
properties are the ends of these for a process that runs or is down; none is inductive,
because each start works on what a failed one left.

### BlockSync

`IInv` is a property of the planner state (`PlannerOK`) that each part of a handler
preserves, `QueueBlocksParallel` twice in `AcceptBlock`: the headers are exactly those
from the tip to the front (`HeadersOK`), the counter is the number of requested ones and
within the window, and a getheaders message under way starts at a known header that was
within the backpressure limit (`NodesOK`). The last is what makes `FrontBounded`
inductive: the answer to an old request may come when the front has moved on, and it
can then add at most one message to what the limit allows. The window holds because
`ToQueue` counts the requests below each candidate (`ToQueueFits`, by the greatest of
them). `OrphansWait` needs that `Promoted` takes the whole run of orphans on the new
block (`PromotedIs`) and that `NotPromoted` keeps only blocks above it.

`InOrder` and `NotPromoted` are defined by rank instead of by a recursive sort, so that
they can be reasoned about; `MCBlockSync` has an assumption that they are `SetToSortSeq`
and `SelectSeq`, evaluated by TLC for the sets and sequences of the run.

### AddrMan

The assumptions are `Tables` (the bucket hashes give buckets, the new buckets are
finitely many and ordered) and `Limits` (the limits are positive, a time of success is
not 0). Nothing is assumed of the number of addresses or of the sizes of the buckets.

`TablesOK(s, x)` is about a `CAddrMan` at any point of an operation, not only between
two: `mapAddr` is the inverse of the addresses of the entries, `vRandom` and
`nRandomPos` are inverse to one another, the counters count, each tried entry has one
place in the bucket of its address and no reference, each new entry as many references as it
has buckets. The parameter `x` is what makes it inductive: `Add_` counts a
reference before it puts the entry into its bucket, and `ShrinkNew`, which runs between
the two, must not delete that entry. Each helper has a lemma that says what it returns:
`SwapRandomIs`, `DeleteIs`, `ShrinkNewIs`, `InsertNewIs`, `CreateIs`; `Moved` and
`Refilled` describe what `MakeTried` does to the new and to the tried tables.
`SelectTriedIs` shows that the shuffle is a permutation of the bucket and that the position
returned is one of the bucket; the recursive function that the loop is modelled by is shown to exist by
a least counterexample on the round. That is enough for `TriedStays`, which holds also where
the position is not the oldest entry's (section 6). `BucketsStayBounded` needs that
the entry made tried has just left the bucket that the evicted one goes to.

`FileOK` and `saved = FileContent(peersDat)` are about `peers.dat`: no address twice, no
tried bucket larger than the limit, every new entry in one to
`ADDRMAN_NEW_BUCKETS_PER_ADDRESS` buckets. `SerializeIs` shows that a dump of sound
tables is such a file, with ids renumbered by rank; `EntryAtIs` that of such a file
no tried entry is dropped on reading; `LoadedIsSound` that what is read back is again
`TablesOK` and has the content of the file. Without the part about bucket sizes the
code's `nLost` would lose entries, and without the one about references the limit in the
last loop of the load would.

## 5. What is only model-checked

* The liveness properties `WaitReturns`, `QuitStopsWorkers`, `ComesUp` and
  `SyncCompletes`: fairness is out of the prover's reach.
* `GreatestTrustWins` where the theorem does not reach: on the tree of `chain_invalid`
  TLC checks it also after a dropped batch, once the node has been restarted.

Every other invariant and action property of the passing runs is stated by a theorem.

No module declares a RECURSIVE operator.

## 6. Findings

Each is shown by a run; the quotations and lines are in `PROJECT.json`.

1. `checkqueue.h:40`: a worker's `fOk` outlives the batch. After one failing check the
   worker fails every later batch it takes part in.
2. `main.cpp:1985`: two transactions of one block can spend the same stored output.
3. `main.cpp:2923`: after a failed postponed connect the tip in memory is not the
   stored one, and the next block is connected to the wrong UTXO set.
4. `walletmigrate.cpp:185`: a crash between the two renames of the wallet migration
   leaves no `wallet.dat`, and the next start makes a new wallet. The keys are in the
   backup (`KeysNeverLost`), but the node does not look there.
5. `chaindb_migrate.cpp:108`: a migration whose marker cannot be written leaves a bare
   `rocksdb/`, and the next start begins from genesis in it.

### Observed while modelling

In the chain and the database:

* `txdb-base.cpp:310`: the UTXO cache keeps the writes of an aborted batch, although
  the comment says that writes go to both; until restart `ReadUtxo` may answer for a
  chain that the database does not hold. `CacheCoherent` is stated until then.
* `main.h:52`: the rolling assume-valid threshold is a height of the former best chain,
  so a branch that forks below it is connected without verification.
* `main.cpp:2714`: the checkpoint pointer is that of startup; a checkpoint block that
  arrives later is not protected. `StartupCheckpointHolds` is about those known at
  startup.
* `main.cpp:2811`: stakes forgotten when a branch is left are not remembered when it
  comes back.
* `main.cpp:2855`: a plain extension leaves conflicts in the memory pool;
  `main.cpp:2204`: address balances drift after a disconnect.
* `addrman.cpp:143`: `SelectTried` returns the place that its oldest entry was swapped
  away from, so `MakeTried` evicts another one.

In the data directory:

* `init.cpp:2160`, `init.cpp:1285`: a fetched snapshot is never loaded, because the start that
  fetched it has made the directory whose absence step 6c asks for.
* `init.cpp:1285`: a snapshot file beside a LevelDB chain takes precedence over the
  migration, and overwrites `blk0001.dat`; so it does after an interrupted reindex.
* `main.cpp:4377`: a second genesis record, which `LoadBlockIndex` appends when it
  begins a chain in an old data directory, makes every later `-reindex` fail, although
  the comment at `main.cpp:4394` says that such a record is skipped.
* `main.cpp:4578`: `-reindex` of a chain below the newest compiled checkpoint wipes the
  database and is refused, and from then on every other start is refused as well.
* `init.cpp:1467`: `REINDEX_INCOMPLETE` is one marker for both backends.
* `utxosnapshot.cpp:910`, `init.cpp:1434`: a failed snapshot load, or `-reindex` after a
  successful one, deletes a database that is open.
* `snapshotnet.cpp:348`: a snapshot file left unfinished by a shutdown is never fetched
  again.

In block download and elsewhere:

* `main.cpp:3737`: the promotion loop reads an orphan block after freeing it;
  `main.cpp:3044`: when initial download ends, orphans are evicted inside that loop.
* `snapshotnet.cpp:623`: the handler of getsnapchunk locks a mutex it holds.
* `init.cpp:421`: the notification queue is deleted while an RPC thread may wait in it.
* `syncmanager.cpp:554`: the planner stops at a full window before it looks at the age of
  requests. A window that a connected peer ignores is never asked of another peer by the
  planner; the blocks come again only through announcements, which a new handshake or
  500 accepted blocks ask for. `SyncCompletes` holds for peers that leave.

## 7. Not modelled

Cryptography, hashing and the script interpreter are functions over byte strings
out of TLC's reach; their verdicts are constants. The fee estimator is
floating-point statistics. RPC, REST, ZMQ, Qt (with its translations), bootstrap
download, Tor and I2P are formatting, I/O or control of other programs. Sync
checkpoints are not enforced. Of the remaining components the wallet (key pool, coin
selection), encrypted messaging and the notification queue have state worth a module
of their own.

## 8. Plan

Modules, in this order: `Mempool` (no two members conflict, inputs are available),
`KeyPool` (reserve, keep and return), `SnapshotNet` (the chunk protocol),
`SmsgBuckets`, `NotificationQueue`.

Theorems: every safety property of the runs is proved; those of the modules above follow
their runs.
