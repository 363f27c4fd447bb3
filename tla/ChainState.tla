----------------------------- MODULE ChainState -----------------------------
(***************************************************************************)
(* The chain state of a node (main.cpp, txdb-base.cpp, txdb-rocksdb.cpp):  *)
(* the block index, the best chain, the UTXO set and the transaction index *)
(* in memory and in the chain database, and the operations that move the   *)
(* best chain: AcceptBlock, AddToBlockIndex, SetBestChain, Reorganize,     *)
(* ConnectBlock, DisconnectBlock, and LoadBlockIndex after a crash.        *)
(*                                                                         *)
(* Block processing holds cs_main, so no other operation interleaves with  *)
(* it, but the process may die anywhere inside: SetBestChain is therefore  *)
(* a sequence of steps, one per block connected or disconnected.  The      *)
(* chain database writes one batch per transaction: view is the database   *)
(* as the open batch leaves it, disk is what a restart finds.  TxnCommit   *)
(* is disk' = view', TxnAbort is view' = disk.                             *)
(*                                                                         *)
(* Blocks and transactions are given by constants.  A transaction has one  *)
(* output, named by the transaction; a UTXO entry is the height of the     *)
(* block that made it.  utxoCache is what ReadUtxo answers: the cache      *)
(* entry where there is one, otherwise the database.                       *)
(***************************************************************************)
EXTENDS Integers, Sequences, FiniteSets

CONSTANTS
    Block, Genesis, NoBlock,
    Tx,
    pprev,             \* [Block \ {Genesis} -> Block], the hashPrevBlock of each
    nHeight,           \* [Block -> Nat]
    nChainTrust,       \* [Block -> Nat], summed GetBlockTrust
    chain,             \* [Block -> SUBSET Block], a block and its ancestors
    nTime, blockHash,  \* [Block -> Nat], what breaks a tie of trust
    prevoutStake,      \* [Block -> Stake \cup {NoStake}]
    NoStake,           \* the stake of a proof-of-work block
    vtx,               \* [Block -> Seq(Tx)]
    vin,               \* [Tx -> SUBSET Tx], the outputs each transaction spends
    Generated,         \* the coinbase and coinstake transactions
    Staked,            \* blocks whose proof-of-stake kernel verifies
    Sound,             \* blocks whose scripts, sigops, fees and reward are right
    Checkpoint,        \* the blocks of the compiled checkpoint map
    SnapshotTx,        \* outputs that came with a UTXO snapshot of Genesis
    Relayed,           \* transactions that peers relay
    ViaOrphan,         \* blocks that arrive as an orphan, or after an orphan child
    nCoinbaseMaturity,
    ASSUME_VALID_BUFFER,
    nStakeSeenDepth,   \* blocks whose stake LoadBlockIndex remembers (500)
    IoErrors           \* TRUE when reads of block files and commits may fail

Absent == -1
NoUtxo == [t \in Tx |-> Absent]
Utxo == {Absent} \cup Nat
TxsOf(b) == {vtx[b][i] : i \in DOMAIN vtx[b]}

ASSUME BlockTree ==
    /\ Genesis \in Block /\ NoBlock \notin Block
    /\ pprev \in [Block \ {Genesis} -> Block]
    /\ nHeight \in [Block -> Nat] /\ nChainTrust \in [Block -> Nat]
    /\ nHeight[Genesis] = 0 /\ nChainTrust[Genesis] > 0
    /\ \A b \in Block \ {Genesis} :
          /\ nHeight[b] = nHeight[pprev[b]] + 1
          /\ nChainTrust[b] > nChainTrust[pprev[b]]
          /\ chain[b] = chain[pprev[b]] \cup {b}
    /\ chain \in [Block -> SUBSET Block]
    /\ chain[Genesis] = {Genesis}
    /\ nTime \in [Block -> Nat] /\ blockHash \in [Block -> Nat]
    /\ Checkpoint \subseteq Block /\ Genesis \in Checkpoint
    /\ Staked \subseteq Block /\ Sound \subseteq Block /\ ViaOrphan \subseteq Block

ASSUME Transactions ==
    /\ \A b \in Block :
          /\ vtx[b] \in Seq(Tx)
          /\ \A i, j \in DOMAIN vtx[b] : vtx[b][i] = vtx[b][j] => i = j
    /\ vin \in [Tx -> SUBSET Tx]
    /\ Generated \subseteq Tx /\ SnapshotTx \subseteq Tx /\ Relayed \subseteq Tx
    /\ vtx[Genesis] = <<>>

\* The compiled map has a last entry (mapCheckpoints.rbegin()).
ASSUME LastCheckpoint ==
    \E c \in Checkpoint : \A d \in Checkpoint : nHeight[d] <= nHeight[c]

ASSUME Parameters ==
    /\ nCoinbaseMaturity \in Nat
    /\ ASSUME_VALID_BUFFER \in Nat
    /\ nStakeSeenDepth \in Nat
    /\ IoErrors \in BOOLEAN

VARIABLES
    (* memory *)
    mapBlockIndex,                 \* blocks in the index
    stubs,                         \* those InsertBlockIndex made for a missing parent
    hashBestChain,
    setStakeSeen,
    mempool,
    nAssumeValidThreshold,
    pindexLastHardenedCheckpoint,  \* a block, or NoBlock for NULL
    utxoCache,
    (* the chain database: [index, best, utxo, txindex] *)
    disk,
    view,
    (* the operation under way *)
    pc, op,
    (* history *)
    wrote,     \* the open batch holds UTXO writes
    poisoned,  \* since startup, a batch with UTXO writes was dropped
    scars      \* "poisoned", "split": happened in this or an earlier run

memory == <<mapBlockIndex, stubs, hashBestChain, setStakeSeen, mempool,
            nAssumeValidThreshold, pindexLastHardenedCheckpoint, utxoCache>>
vars == <<memory, disk, view, pc, op, wrote, poisoned, scars>>

-----------------------------------------------------------------------------
(* Chains                                                                  *)

MaxOf(S) == CHOOSE x \in S : \A y \in S : y <= x

\* The block where the chains of a and b part.
Fork(a, b) == CHOOSE f \in Block : chain[f] = chain[a] \cap chain[b]

\* nChainTrust of the index entry: the database keeps it, a stub has none.
Trust(b) == IF b \in stubs THEN 0 ELSE nChainTrust[b]

\* Checkpoints::GetTotalBlocksEstimate, GetLastCheckpointHeight
LastCheckpointHeight == MaxOf({nHeight[c] : c \in Checkpoint})

CheckHardened(b) ==
    \A c \in Checkpoint : nHeight[c] = nHeight[b] => c = b

\* Checkpoints::GetLastCheckpoint on an index
GetLastCheckpoint(index) ==
    LET found == index \cap Checkpoint
        last  == {c \in found : \A d \in found : nHeight[d] <= nHeight[c]}
    IN  IF last = {} THEN NoBlock ELSE CHOOSE c \in last : TRUE

IsConsensusAssumeValidHeight(h) ==
    h <= LastCheckpointHeight \/ h <= nAssumeValidThreshold

-----------------------------------------------------------------------------
(* ConnectBlock: what it checks                                            *)

Spends(b, t) == \E i \in DOMAIN vtx[b] : t \in vin[vtx[b][i]]

\* mapPendingUtxos at transaction i: made before it in the block and not yet spent.
Pending(b, i, t) ==
    \E k \in DOMAIN vtx[b] :
        /\ k < i /\ vtx[b][k] = t
        /\ \A j \in DOMAIN vtx[b] : k < j /\ j < i => t \notin vin[vtx[b][j]]

\* Fault: a spent output still counts as found.
FetchInputsAny(b, i) ==
    \A t \in vin[vtx[b][i]] : Pending(b, i, t) \/ view.txindex[t] # NoBlock

\* FetchInputs: the block so far, the UTXO set, then the memory pool.
FetchInputs(b, i) ==
    \A t \in vin[vtx[b][i]] : Pending(b, i, t) \/ utxoCache[t] # Absent \/ t \in mempool

InputHeight(b, i, t) ==
    IF Pending(b, i, t) THEN nHeight[b] ELSE IF utxoCache[t] # Absent THEN utxoCache[t] ELSE 0

ConnectInputs(b, i) ==
    \A t \in vin[vtx[b][i]] \cap Generated :
        nHeight[b] - InputHeight(b, i, t) >= nCoinbaseMaturity

\* No output of the transaction may exist already (BIP30).
NoDuplicate(b, i) == utxoCache[vtx[b][i]] = Absent

CheckConnect(b) ==
    \/ IsConsensusAssumeValidHeight(nHeight[b])
    \/ /\ b \in Sound
       /\ \A i \in DOMAIN vtx[b] :
             NoDuplicate(b, i) /\ FetchInputs(b, i) /\ ConnectInputs(b, i)

-----------------------------------------------------------------------------
(* ConnectBlock and DisconnectBlock: what they write                       *)

\* Some input of the block is t and no later transaction of it makes t again.
EndsSpent(b, t) ==
    \E j \in DOMAIN vtx[b] :
        /\ t \in vin[vtx[b][j]]
        /\ \A k \in DOMAIN vtx[b] : k > j => vtx[b][k] # t

\* Per transaction in order: its output is written, then its inputs erased.
ConnectUtxo(b, u) ==
    [t \in Tx |-> IF EndsSpent(b, t) THEN Absent
                  ELSE IF t \in TxsOf(b) THEN nHeight[b] ELSE u[t]]

ConnectTxIndex(b, x) == [t \in Tx |-> IF t \in TxsOf(b) THEN b ELSE x[t]]

\* Fault: a restored output gets the height of the block being disconnected.
DisconnectUtxoHere(b, u, x) ==
    [t \in Tx |-> IF t \in TxsOf(b) THEN Absent
                  ELSE IF Spends(b, t) /\ x[t] # NoBlock THEN nHeight[b] ELSE u[t]]

\* All entries of the block leave the transaction index first.  Then its
\* outputs are erased, and an input is restored where ReadDiskTx finds the
\* transaction that made it, with the height of that transaction's block.
DisconnectUtxo(b, u, x) ==
    [t \in Tx |-> IF t \in TxsOf(b) THEN Absent
                  ELSE IF Spends(b, t) /\ x[t] # NoBlock
                       THEN IF x[t] \in mapBlockIndex THEN nHeight[x[t]] ELSE 0
                  ELSE u[t]]

\* Fault: the transaction index keeps the entries of the block.
DisconnectTxIndexKept(b, x) == x

DisconnectTxIndex(b, x) == [t \in Tx |-> IF t \in TxsOf(b) THEN NoBlock ELSE x[t]]

\* Fault: the entry of the block itself is not written again.
ConnectedNoIndex(b) ==
    [index   |-> view.index \cup {pprev[b]},
     best    |-> view.best,
     utxo    |-> ConnectUtxo(b, view.utxo),
     txindex |-> ConnectTxIndex(b, view.txindex)]

\* The database after ConnectBlock(b).
Connected(b) ==
    [index   |-> view.index \cup {b, pprev[b]},
     best    |-> view.best,
     utxo    |-> ConnectUtxo(b, view.utxo),
     txindex |-> ConnectTxIndex(b, view.txindex)]

Disconnected(b) ==
    [index   |-> view.index \cup {pprev[b]},
     best    |-> view.best,
     utxo    |-> DisconnectUtxo(b, view.utxo, view.txindex),
     txindex |-> DisconnectTxIndex(b, view.txindex)]

\* Fault: WriteHashBestChain is forgotten.
WithBestForgotten(v, b) == v

\* WriteHashBestChain
WithBest(v, b) == [v EXCEPT !.best = b]

\* Fault: the writes go to the database only.
CacheBypassed(c, v) == {utxoCache}

\* The cache after UTXO writes that left c and the database v: WriteUtxo may
\* evict any old entries, for which the database then answers.
Evicted(c, v) ==
    {[t \in Tx |-> IF t \in S THEN v.utxo[t] ELSE c[t]] :
        S \in SUBSET {t \in Tx : c[t] # v.utxo[t]}}

-----------------------------------------------------------------------------
(* The memory pool                                                         *)

Conflict(s, t) == vin[s] \cap vin[t] # {}

\* hit and everything in pool that spends its outputs, directly or not.
WithDescendants(hit, pool) ==
    {d \in pool : \A S \in SUBSET pool :
        hit \subseteq S /\ (\A x \in pool : vin[x] \cap S # {} => x \in S) => d \in S}

\* mempool.remove and mempool.removeConflicts for every transaction of txs.
RemoveWithConflicts(pool, txs) ==
    LET rest == pool \ txs
        hit  == {s \in rest : \E t \in txs : Conflict(s, t)}
    IN  rest \ WithDescendants(hit, rest)

\* AcceptToMemoryPool(txdb, false) for the transactions of one former chain.
Resurrect(pool, txs) ==
    pool \cup {t \in txs \ Generated : \A s \in pool : ~Conflict(s, t)}

-----------------------------------------------------------------------------
(* SetBestChain and Reorganize                                             *)

NoOp == [new |-> NoBlock, inter |-> NoBlock, fork |-> NoBlock, at |-> NoBlock, ret |-> "idle"]

\* The lowest ancestor of b that has more trust than the best chain, or b.
Intermediate(b) ==
    CHOOSE x \in chain[b] :
        /\ x = b \/ Trust(x) > Trust(hashBestChain)
        /\ \A y \in chain[b] : Trust(y) > Trust(hashBestChain) => nHeight[x] <= nHeight[y]

\* Fault: no floor.
NoFloor == -1

HardenedCheckpointHeight ==
    IF pindexLastHardenedCheckpoint = NoBlock
    THEN LastCheckpointHeight ELSE nHeight[pindexLastHardenedCheckpoint]

\* Reorganize gives up before it has written anything.
ReorganizeRefused(b) ==
    \/ chain[b] \cap stubs # {}
    \/ nHeight[Fork(hashBestChain, Intermediate(b))] < HardenedCheckpointHeight

\* SetBestChain(b) on a database that reads v; ret is where control returns.
SetBestChain(b, v, ret) ==
    IF b # Genesis /\ pprev[b] = hashBestChain THEN
        /\ pc' = "extend"
        /\ op' = [new |-> b, inter |-> b, fork |-> hashBestChain, at |-> hashBestChain, ret |-> ret]
        /\ view' = v
    ELSE IF ReorganizeRefused(b) THEN
        /\ pc' = ret
        /\ op' = NoOp
        /\ view' = disk
    ELSE
        LET f == Fork(hashBestChain, Intermediate(b))
        IN  /\ pc' = IF f = hashBestChain THEN "connect" ELSE "disconnect"
            /\ op' = [new |-> b, inter |-> Intermediate(b), fork |-> f,
                      at |-> hashBestChain, ret |-> ret]
            /\ view' = v

\* TxnAbort, InvalidChainFound and the way out of SetBestChain: the memory
\* of the node, its UTXO cache included, stays as it is.
Abort ==
    /\ view' = disk
    /\ pc' = op.ret
    /\ op' = NoOp
    /\ poisoned' = (poisoned \/ wrote)
    /\ scars' = IF wrote THEN scars \cup {"poisoned"} ELSE scars
    /\ wrote' = FALSE
    /\ UNCHANGED <<memory, disk>>

\* Fault: no test that the chain is longer than the buffer.
NewThresholdsUnguarded(b) == {nHeight[b] - ASSUME_VALID_BUFFER}

\* ASSUME-VALID: what the threshold becomes when b is the new best block; it
\* does not move while IsInitialBlockDownload.
NewThresholds(b) ==
    {nAssumeValidThreshold} \cup
    (IF nHeight[b] > ASSUME_VALID_BUFFER
     THEN {MaxOf({nAssumeValidThreshold, nHeight[b] - ASSUME_VALID_BUFFER})} ELSE {})

\* "New best block", the end of SetBestChain.
NewBestBlock(b) ==
    /\ hashBestChain' = b
    /\ nAssumeValidThreshold' \in NewThresholds(b)
    /\ pc' = op.ret
    /\ op' = NoOp

\* SetBestChainInner(b): connect, WriteHashBestChain, commit.
ConnectAndCommit(b) ==
    /\ CheckConnect(b)
    /\ view' = WithBest(Connected(b), b)
    /\ disk' = view'
    /\ utxoCache' \in Evicted(ConnectUtxo(b, utxoCache), view')
    /\ mempool' = mempool \ TxsOf(b)
    /\ UNCHANGED <<mapBlockIndex, stubs, setStakeSeen, pindexLastHardenedCheckpoint,
                   wrote, poisoned>>

\* SetBestChainInner(b) when the commit fails: the batch is lost, the cache is not.
ConnectAndLose(b) ==
    /\ IoErrors
    /\ CheckConnect(b)
    /\ utxoCache' \in Evicted(ConnectUtxo(b, utxoCache), Connected(b))
    /\ view' = disk
    /\ poisoned' = TRUE
    /\ UNCHANGED <<mapBlockIndex, stubs, setStakeSeen, pindexLastHardenedCheckpoint,
                   mempool, disk, wrote>>

Extend ==
    /\ pc = "extend"
    /\ ConnectAndCommit(op.new)
    /\ NewBestBlock(op.new)
    /\ UNCHANGED scars

ExtendFails ==
    /\ pc = "extend"
    /\ ~CheckConnect(op.new)
    /\ Abort

ExtendCommitFails ==
    /\ pc = "extend"
    /\ ConnectAndLose(op.new)
    /\ scars' = scars \cup {"poisoned"}
    /\ pc' = op.ret
    /\ op' = NoOp
    /\ UNCHANGED <<hashBestChain, nAssumeValidThreshold>>

\* Reorganize, "Disconnect shorter branch": from the tip down to the fork.
DisconnectBlock ==
    /\ pc = "disconnect"
    /\ view' = Disconnected(op.at)
    /\ utxoCache' \in Evicted(DisconnectUtxo(op.at, utxoCache, view.txindex), view')
    /\ op' = [op EXCEPT !.at = pprev[op.at]]
    /\ pc' = IF pprev[op.at] = op.fork THEN "connect" ELSE "disconnect"
    /\ wrote' = TRUE
    /\ UNCHANGED <<mapBlockIndex, stubs, hashBestChain, setStakeSeen, mempool,
                   nAssumeValidThreshold, pindexLastHardenedCheckpoint, disk, poisoned, scars>>

\* The block to connect next on the way to b.
NextTo(b) == {x \in chain[b] \ {Genesis} : pprev[x] = op.at}

\* Reorganize, "Connect longer branch".
ConnectBlock ==
    /\ pc = "connect" /\ op.at # op.inter
    /\ \E x \in NextTo(op.inter) :
          /\ CheckConnect(x)
          /\ view' = Connected(x)
          /\ utxoCache' \in Evicted(ConnectUtxo(x, utxoCache), view')
          /\ op' = [op EXCEPT !.at = x]
    /\ wrote' = TRUE
    /\ UNCHANGED <<mapBlockIndex, stubs, hashBestChain, setStakeSeen, mempool,
                   nAssumeValidThreshold, pindexLastHardenedCheckpoint, disk, pc, poisoned, scars>>

ConnectBlockFails ==
    /\ pc = "connect" /\ op.at # op.inter
    /\ \E x \in NextTo(op.inter) : ~CheckConnect(x)
    /\ Abort

\* ReadFromDisk or TxnCommit fails inside Reorganize.
ReorganizeIoError ==
    /\ IoErrors
    /\ pc \in {"disconnect", "connect"}
    /\ Abort

\* Reorganize commits, then updates the memory pool and setStakeSeen.
CommitReorganize ==
    /\ pc = "connect" /\ op.at = op.inter
    /\ view' = WithBest(view, op.inter)
    /\ disk' = view'
    /\ wrote' = FALSE
    /\ LET gone == chain[hashBestChain] \ chain[op.inter]
           come == chain[op.inter] \ chain[hashBestChain]
       IN  /\ setStakeSeen' = setStakeSeen \ {prevoutStake[b] : b \in gone}
           /\ mempool' = RemoveWithConflicts(Resurrect(mempool, UNION {TxsOf(b) : b \in gone}),
                                             UNION {TxsOf(b) : b \in come})
    /\ IF op.inter = op.new
       THEN NewBestBlock(op.new)
       ELSE /\ pc' = "secondary"
            /\ UNCHANGED <<hashBestChain, nAssumeValidThreshold, op>>
    /\ UNCHANGED <<mapBlockIndex, stubs, pindexLastHardenedCheckpoint, utxoCache, poisoned, scars>>

\* SetBestChain, "Connect further blocks": each in a transaction of its own.
ConnectSecondary ==
    /\ pc = "secondary"
    /\ \E x \in NextTo(op.new) :
          /\ ConnectAndCommit(x)
          /\ IF x = op.new
             THEN NewBestBlock(op.new)
             ELSE /\ op' = [op EXCEPT !.at = x]
                  /\ UNCHANGED <<hashBestChain, nAssumeValidThreshold, pc>>
    /\ UNCHANGED scars

\* A failure ends the loop, and pindexNew becomes the best block all the same.
SecondaryFails ==
    /\ pc = "secondary"
    /\ \/ IoErrors
       \/ \E x \in NextTo(op.new) : ~CheckConnect(x)
    /\ view' = disk
    /\ scars' = scars \cup {"split"}
    /\ NewBestBlock(op.new)
    /\ UNCHANGED <<mapBlockIndex, stubs, setStakeSeen, mempool, pindexLastHardenedCheckpoint,
                   utxoCache, disk, wrote, poisoned>>

SecondaryCommitFails ==
    /\ pc = "secondary"
    /\ \E x \in NextTo(op.new) : ConnectAndLose(x)
    /\ scars' = scars \cup {"split", "poisoned"}
    /\ NewBestBlock(op.new)

-----------------------------------------------------------------------------
(* AcceptBlock and AddToBlockIndex                                         *)

\* ProcessBlock refuses a stake that was seen; an orphan that finds its
\* parent, and a block an orphan waits for, are not tested.
StakeUnseen(b) == prevoutStake[b] \notin setStakeSeen \/ b \in ViaOrphan

\* AcceptBlock lets b into the index.
Acceptable(b) ==
    /\ b \notin mapBlockIndex
    /\ b # Genesis /\ pprev[b] \in mapBlockIndex \ stubs
    /\ StakeUnseen(b)
    /\ CheckHardened(b)
    /\ IsConsensusAssumeValidHeight(nHeight[b]) \/ b \in Staked

\* Equal trust: the earlier block wins, then the lower hash.
PreferredAtEqualTrust(b) ==
    \/ nTime[b] < nTime[hashBestChain]
    \/ nTime[b] = nTime[hashBestChain] /\ blockHash[b] < blockHash[hashBestChain]

\* Fault: hysteresis, a heavier chain must win by more than one block.
MuchMoreTrust(b) == Trust(b) > Trust(hashBestChain) + 1

MoreTrust(b) == Trust(b) > Trust(hashBestChain)

TieBreak(b) == Trust(b) = Trust(hashBestChain) /\ PreferredAtEqualTrust(b)

\* The index entry, in memory and in the batch that AddToBlockIndex opens.
AddToBlockIndex(b) ==
    /\ mapBlockIndex' = mapBlockIndex \cup {b}
    /\ setStakeSeen' = setStakeSeen \cup ({prevoutStake[b]} \ {NoStake})
    /\ UNCHANGED <<stubs, hashBestChain, mempool, nAssumeValidThreshold,
                   pindexLastHardenedCheckpoint, utxoCache, wrote, poisoned, scars>>

WithIndex(b) == [disk EXCEPT !.index = @ \cup {b}]

\* A tie is broken at most once in two minutes: the preferred block may lose.
AcceptSideBlock(b) ==
    /\ pc = "idle" /\ Acceptable(b)
    /\ ~MoreTrust(b)
    /\ AddToBlockIndex(b)
    /\ \/ disk' = WithIndex(b)
       \/ IoErrors /\ disk' = disk
    /\ view' = disk'
    /\ UNCHANGED <<pc, op>>

AcceptBestBlock(b) ==
    /\ pc = "idle" /\ Acceptable(b)
    /\ MoreTrust(b) \/ TieBreak(b)
    /\ AddToBlockIndex(b)
    /\ SetBestChain(b, WithIndex(b), "idle")
    /\ UNCHANGED disk

\* CTxMemPool::accept for a relayed transaction.
AcceptToMemoryPool(t) ==
    /\ pc = "idle"
    /\ t \in Relayed \ (mempool \cup Generated)
    /\ view.txindex[t] = NoBlock
    /\ \A s \in mempool : ~Conflict(s, t)
    /\ \A p \in vin[t] : utxoCache[p] # Absent \/ p \in mempool
    /\ \A p \in vin[t] \cap Generated :
          utxoCache[p] # Absent => nHeight[hashBestChain] - utxoCache[p] >= nCoinbaseMaturity
    /\ mempool' = mempool \cup {t}
    /\ UNCHANGED <<mapBlockIndex, stubs, hashBestChain, setStakeSeen, nAssumeValidThreshold,
                   pindexLastHardenedCheckpoint, utxoCache, disk, view, pc, op,
                   wrote, poisoned, scars>>

-----------------------------------------------------------------------------
(* Crash and startup                                                       *)

\* Stakes of the last nStakeSeenDepth blocks of the chain of b.
RecentStakes(b) ==
    {prevoutStake[x] : x \in {y \in chain[b] : nHeight[y] > nHeight[b] - nStakeSeenDepth}} \ {NoStake}

\* The process ends at any point and LoadBlockIndex reads the database:
\* InsertBlockIndex makes an empty entry for a parent that is not there.
Restart ==
    /\ pc # "load"
    /\ LET parents == {pprev[b] : b \in disk.index \ {Genesis}}
       IN  /\ mapBlockIndex' = disk.index \cup parents
           /\ stubs' = parents \ disk.index
    /\ hashBestChain' = disk.best
    /\ setStakeSeen' = RecentStakes(disk.best)
    /\ mempool' = {}
    /\ nAssumeValidThreshold' = 0
    /\ pindexLastHardenedCheckpoint' = NoBlock
    /\ utxoCache' = disk.utxo
    /\ view' = disk
    /\ pc' = "load" /\ op' = NoOp
    /\ wrote' = FALSE /\ poisoned' = FALSE
    /\ UNCHANGED <<disk, scars>>

\* Fault: a lower hash wins, whatever its trust.
BetterTipsByHash == {b \in mapBlockIndex : blockHash[b] < blockHash[hashBestChain]}

\* LoadBlockIndex looks for a better tip: any with more trust, otherwise the
\* lowest hash among those of equal trust, if lower than that of the best.
BetterTips ==
    LET more  == {b \in mapBlockIndex : MoreTrust(b)}
        equal == {b \in mapBlockIndex : Trust(b) = Trust(hashBestChain)}
    IN  IF more # {} THEN more
        ELSE {b \in equal \ {hashBestChain} : \A c \in equal : blockHash[b] <= blockHash[c]}

LoadBetterTip(b) ==
    /\ pc = "load"
    /\ b \in BetterTips
    /\ SetBestChain(b, disk, "startup")
    /\ UNCHANGED <<memory, disk, wrote, poisoned, scars>>

\* There is none, or its block cannot be read.
LoadNoBetterTip ==
    /\ pc = "load"
    /\ BetterTips = {} \/ IoErrors
    /\ pc' = "startup"
    /\ UNCHANGED <<memory, disk, view, op, wrote, poisoned, scars>>

\* AppInit2: the newest compiled checkpoint in the index, set here and never again.
SetHardenedCheckpoint ==
    /\ pc = "startup"
    /\ pindexLastHardenedCheckpoint' = GetLastCheckpoint(mapBlockIndex)
    /\ pc' = "idle"
    /\ UNCHANGED <<mapBlockIndex, stubs, hashBestChain, setStakeSeen, mempool,
                   nAssumeValidThreshold, utxoCache, disk, view, op, wrote, poisoned, scars>>

-----------------------------------------------------------------------------

\* A new node, with the genesis block or a snapshot taken at Genesis.
Init ==
    /\ mapBlockIndex = {Genesis} /\ stubs = {}
    /\ hashBestChain = Genesis
    /\ setStakeSeen = {} /\ mempool = {}
    /\ nAssumeValidThreshold = 0
    /\ pindexLastHardenedCheckpoint = Genesis
    /\ disk = [index   |-> {Genesis}, best |-> Genesis,
               utxo    |-> [t \in Tx |-> IF t \in SnapshotTx THEN 0 ELSE Absent],
               txindex |-> [t \in Tx |-> NoBlock]]
    /\ view = disk
    /\ utxoCache = disk.utxo
    /\ pc = "idle" /\ op = NoOp
    /\ wrote = FALSE /\ poisoned = FALSE /\ scars = {}

SetBestChainStep ==
    \/ Extend \/ ExtendFails \/ ExtendCommitFails
    \/ DisconnectBlock \/ ConnectBlock \/ ConnectBlockFails \/ ReorganizeIoError
    \/ CommitReorganize
    \/ ConnectSecondary \/ SecondaryFails \/ SecondaryCommitFails

Next ==
    \/ \E b \in Block : AcceptSideBlock(b) \/ AcceptBestBlock(b) \/ LoadBetterTip(b)
    \/ \E t \in Tx : AcceptToMemoryPool(t)
    \/ SetBestChainStep
    \/ Restart \/ LoadNoBetterTip \/ SetHardenedCheckpoint

Spec == Init /\ [][Next]_vars

-----------------------------------------------------------------------------
(* What the database should hold                                           *)

\* The block of the set S (a nonempty part of one chain) furthest from genesis.
Highest(S) == CHOOSE b \in S : \A c \in S : nHeight[c] <= nHeight[b]

MakerIn(b, t) == {c \in chain[b] : t \in TxsOf(c)}

SpentIn(b, t) == \E c \in chain[b] : Spends(c, t)

\* The unspent outputs of the chain that ends in b.
Unspent(b) ==
    [t \in Tx |-> IF SpentIn(b, t) THEN Absent
                  ELSE IF MakerIn(b, t) # {} THEN nHeight[Highest(MakerIn(b, t))]
                  ELSE IF t \in SnapshotTx THEN 0 ELSE Absent]

\* Where the transactions of the chain that ends in b are.
Located(b) ==
    [t \in Tx |-> IF MakerIn(b, t) = {} THEN NoBlock ELSE Highest(MakerIn(b, t))]

\* Every input of b is unspent where b spends it, mature, and spent once by b;
\* no output of b exists already; the checks outside the UTXO set succeed.
Valid(b) ==
    LET before == Unspent(pprev[b])
    IN  /\ b \in Sound
        /\ \A i \in DOMAIN vtx[b] :
              /\ before[vtx[b][i]] = Absent
              /\ \A t \in vin[vtx[b][i]] :
                    /\ \/ Pending(b, i, t)
                       \/ /\ before[t] # Absent
                          /\ \A j \in DOMAIN vtx[b] : j < i => t \notin vin[vtx[b][j]]
                    /\ t \in Generated => nHeight[b] - (IF before[t] # Absent THEN before[t] ELSE nHeight[b])
                                             >= nCoinbaseMaturity

ValidChain(b) == \A c \in chain[b] \ {Genesis} : Valid(c)

\* A tree whose every chain is well formed: no transaction repeats, every
\* output is spent at most once, after it was made, and none came from a snapshot.
HonestTree ==
    /\ SnapshotTx = {}
    /\ \A b \in Block : \A c, d \in chain[b] : c # d => TxsOf(c) \cap TxsOf(d) = {}
    /\ \A b \in Block \ {Genesis} : \A t \in Tx :
          /\ Spends(b, t) => MakerIn(b, t) # {} /\ ~SpentIn(pprev[b], t)
          /\ t \in TxsOf(b) => ~SpentIn(pprev[b], t)
    /\ \A b \in Block : \A i, j \in DOMAIN vtx[b] : vtx[b][i] \in vin[vtx[b][j]] => i < j

\* Blocks that ConnectBlock may take unchecked: they are no higher than the last
\* checkpoint, or than the rolling threshold that a block of the tree can set.
AssumedValid(b) ==
    \/ nHeight[b] <= LastCheckpointHeight
    \/ \E c \in Block : nHeight[b] + ASSUME_VALID_BUFFER <= nHeight[c]

\* A tree with any invalid blocks but those that the shortcuts of ConnectBlock
\* let through: none came from a snapshot, no output is made again after it was
\* spent, no block spends an output twice, blocks that are taken unchecked are
\* valid, and what a block spends that is neither in it nor unspent before it
\* can not be in the memory pool.
PlainTree ==
    /\ SnapshotTx = {}
    /\ \A b \in Block \ {Genesis} :
          /\ \A t \in TxsOf(b) : ~SpentIn(pprev[b], t)
          /\ \A i, j \in DOMAIN vtx[b] : vin[vtx[b][i]] \cap vin[vtx[b][j]] # {} => i = j
          /\ AssumedValid(b) => Valid(b)
          /\ \A i \in DOMAIN vtx[b] : \A t \in vin[vtx[b][i]] :
                \/ Pending(b, i, t) \/ Unspent(pprev[b])[t] # Absent
                \/ t \in Generated
                \/ t \notin Relayed /\ \A c \in Block : t \notin TxsOf(c)

-----------------------------------------------------------------------------
(* Properties                                                              *)

Database == [index : SUBSET Block, best : Block, utxo : [Tx -> Utxo],
             txindex : [Tx -> Block \cup {NoBlock}]]

TypeOK ==
    /\ mapBlockIndex \subseteq Block /\ stubs \subseteq mapBlockIndex
    /\ hashBestChain \in Block
    /\ mempool \subseteq Tx
    /\ nAssumeValidThreshold \in Nat
    /\ pindexLastHardenedCheckpoint \in Block \cup {NoBlock}
    /\ utxoCache \in [Tx -> Utxo]
    /\ disk \in Database /\ view \in Database
    /\ pc \in {"idle", "extend", "disconnect", "connect", "secondary", "load", "startup"}
    /\ op \in [new : Block \cup {NoBlock}, inter : Block \cup {NoBlock},
               fork : Block \cup {NoBlock}, at : Block \cup {NoBlock}, ret : {"idle", "startup"}]
    /\ wrote \in BOOLEAN /\ poisoned \in BOOLEAN
    /\ scars \subseteq {"poisoned", "split"}

\* The UTXO set and the transaction index in the database are those of the
\* best chain in the database, whatever was reorganized, aborted, lost in a
\* failed commit or cut short by a crash, until a postponed connect fails.
UtxoIsUnspent ==
    "split" \notin scars =>
        disk.utxo = Unspent(disk.best) /\ disk.txindex = Located(disk.best)

\* ReadUtxo answers from the database, open batch included, unless since
\* startup a batch that held UTXO writes was dropped.
CacheCoherent == ~poisoned => utxoCache = view.utxo

\* LoadBlockIndex finds the best block and all its ancestors: the batches
\* that hold index entries of the best chain are never the ones dropped, until
\* a postponed connect fails.
BestChainStored == "split" \notin scars => chain[disk.best] \subseteq disk.index

\* Between operations the node works on the chain its database holds.
TipOnDisk ==
    "split" \notin scars /\ pc \in {"idle", "load", "startup"} => hashBestChain = disk.best

\* The trust of the stored best chain never goes down, across reorganizations,
\* failures, crashes and the choice of a tip at startup.
DiskTrustGrows == [][nChainTrust[disk.best'] >= nChainTrust[disk.best]]_vars

\* The checkpoint found at startup is never reorganized away.
StartupCheckpointHolds ==
    [][\A c \in chain[disk.best] :
          c = pindexLastHardenedCheckpoint => c \in chain[disk.best']]_vars

\* Only valid blocks enter the stored best chain above the last checkpoint, as
\* long as no batch with UTXO writes was dropped and no postponed connect failed.
\* It is about blocks above the rolling threshold, whose inputs are not taken from
\* the memory pool: the run's chains are shorter than ASSUME_VALID_BUFFER.
BestChainValid ==
    scars = {} =>
        \A b \in chain[disk.best] : nHeight[b] > LastCheckpointHeight => Valid(b)

\* "Above the last globally shared hardened checkpoint, the valid chain with
\* strictly greater cumulative chain trust wins": no valid chain in the index
\* that forks above the checkpoint has more trust than the best chain.
GreatestTrustWins ==
    pc = "idle" /\ ~poisoned =>
        \A b \in mapBlockIndex :
            /\ ValidChain(b)
            /\ nHeight[Fork(hashBestChain, b)] >= LastCheckpointHeight
            => Trust(b) <= Trust(hashBestChain)

\* "Double-spend is impossible here" (ConnectInputs): no output is spent by two
\* transactions of the stored best chain.
SpentOnce ==
    \A b, c \in chain[disk.best] :
        \A i \in DOMAIN vtx[b], j \in DOMAIN vtx[c] :
            vin[vtx[b][i]] \cap vin[vtx[c][j]] # {} => b = c /\ i = j

\* "we still did a reorganisation to a new chain in a valid way" (SetBestChain):
\* after a postponed connect fails the database is still that of its best chain.
UtxoAlwaysUnspent == disk.utxo = Unspent(disk.best)

=============================================================================
