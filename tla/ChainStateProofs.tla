-------------------------- MODULE ChainStateProofs --------------------------
(***************************************************************************)
(* Theorems about ChainState, for every block tree and every set of        *)
(* transactions that the assumptions of ChainState allow.                  *)
(***************************************************************************)
EXTENDS ChainState, TLAPS, WellFoundedInduction

-----------------------------------------------------------------------------
(* The block tree                                                          *)

\* A nonempty set of blocks has a lowest one: heights are natural numbers.
LEMMA LowestExists ==
    ASSUME NEW S, S \subseteq Block, S # {}
    PROVE  \E x \in S : \A y \in S : nHeight[x] <= nHeight[y]
<1> DEFINE H == {nHeight[b] : b \in S}
           R == OpToRel(<, Nat)
<1>1. H \subseteq Nat /\ H # {}
  BY BlockTree
<1>2. IsWellFoundedOn(R, Nat)
  BY NatLessThanWellFounded
<1>3. PICK h \in H : \A k \in H : ~(<<k, h>> \in R)
  <2> HIDE DEF R, H
  <2> QED BY <1>1, <1>2, WFMin
<1>4. \A k \in H : h <= k
  <2>1. \A k \in H : k \in Nat /\ h \in Nat /\ ~(k < h)
    BY <1>1, <1>3 DEF OpToRel
  <2> QED BY <2>1
<1>5. PICK x \in S : h = nHeight[x]
  BY <1>3
<1> QED BY <1>4, <1>5

\* Induction along the tree: what holds of Genesis, and of a block whenever it
\* holds of its parent, holds of every block.
LEMMA TreeInduction ==
    ASSUME NEW S, S \subseteq Block, Genesis \in S,
           \A b \in Block \ {Genesis} : pprev[b] \in S => b \in S
    PROVE  \A b \in Block : b \in S
<1>1. SUFFICES ASSUME Block \ S # {} PROVE FALSE
  OBVIOUS
<1>2. PICK x \in Block \ S : \A y \in Block \ S : nHeight[x] <= nHeight[y]
  BY <1>1, LowestExists
<1>3. x # Genesis /\ pprev[x] \in Block \ S
  BY BlockTree
<1>4. nHeight[x] = nHeight[pprev[x]] + 1 /\ nHeight[x] <= nHeight[pprev[x]]
  BY <1>2, <1>3, BlockTree
<1> QED BY <1>3, <1>4, BlockTree

\* A block is on its own chain, and so is Genesis.
LEMMA ChainEnds ==
    \A b \in Block : b \in chain[b] /\ Genesis \in chain[b]
<1> DEFINE S == {b \in Block : b \in chain[b] /\ Genesis \in chain[b]}
<1>1. Genesis \in S
  BY BlockTree
<1>2. \A b \in Block \ {Genesis} : pprev[b] \in S => b \in S
  BY BlockTree
<1>3. \A b \in Block : b \in S
  <2> HIDE DEF S
  <2>1. S \subseteq Block  BY DEF S
  <2> QED BY <1>1, <1>2, <2>1, TreeInduction
<1> QED BY <1>3

\* The chain of an ancestor is part of the chain.
LEMMA ChainTransitive ==
    \A b \in Block : \A c \in chain[b] : c \in Block /\ chain[c] \subseteq chain[b]
<1> DEFINE S == {b \in Block : \A c \in chain[b] : chain[c] \subseteq chain[b]}
<1>1. Genesis \in S
  BY BlockTree
<1>2. \A b \in Block \ {Genesis} : pprev[b] \in S => b \in S
  BY BlockTree
<1>3. \A b \in Block : b \in S
  <2> HIDE DEF S
  <2>1. S \subseteq Block  BY DEF S
  <2> QED BY <1>1, <1>2, <2>1, TreeInduction
<1> QED BY <1>3, BlockTree

\* Two chains have a last common block, which is what Reorganize looks for.
LEMMA ForkExists ==
    ASSUME NEW a \in Block, NEW b \in Block
    PROVE  /\ Fork(a, b) \in Block
           /\ Fork(a, b) \in chain[a]
           /\ Fork(a, b) \in chain[b]
           /\ chain[Fork(a, b)] = chain[a] \cap chain[b]
<1> DEFINE S == {x \in Block : \E f \in Block : chain[f] = chain[x] \cap chain[b]}
<1>1. Genesis \in S
  <2>1. chain[Genesis] = chain[Genesis] \cap chain[b]
    BY BlockTree, ChainEnds
  <2> QED BY <2>1, BlockTree
<1>2. ASSUME NEW x \in Block \ {Genesis}, pprev[x] \in S PROVE x \in S
  <2>1. CASE x \in chain[b]
    <3>1. chain[x] = chain[x] \cap chain[b]
      BY <2>1, ChainTransitive
    <3> QED BY <3>1
  <2>2. CASE x \notin chain[b]
    <3>1. chain[x] \cap chain[b] = chain[pprev[x]] \cap chain[b]
      BY <2>2, BlockTree
    <3> QED BY <3>1, <1>2
  <2> QED BY <2>1, <2>2
<1>3. \A x \in Block : x \in S
  <2> HIDE DEF S
  <2>1. S \subseteq Block  BY DEF S
  <2> QED BY <1>1, <1>2, <2>1, TreeInduction
<1>4. \E f \in Block : chain[f] = chain[a] \cap chain[b]
  BY <1>3
<1>5. Fork(a, b) \in Block /\ chain[Fork(a, b)] = chain[a] \cap chain[b]
  BY <1>4 DEF Fork
<1> QED BY <1>5, ChainEnds

\* SetBestChain's pindexIntermediate is a block of the new chain.
LEMMA IntermediateExists ==
    ASSUME NEW b \in Block
    PROVE  Intermediate(b) \in chain[b] /\ Intermediate(b) \in Block
<1> DEFINE M == {y \in chain[b] : Trust(y) > Trust(hashBestChain)}
           P(x) == /\ x = b \/ Trust(x) > Trust(hashBestChain)
                   /\ \A y \in chain[b] : Trust(y) > Trust(hashBestChain) => nHeight[x] <= nHeight[y]
<1>1. \E x \in chain[b] : P(x)
  <2>1. CASE M = {}
    BY <2>1, ChainEnds
  <2>2. CASE M # {}
    <3>1. M \subseteq Block
      BY BlockTree
    <3>2. PICK x \in M : \A y \in M : nHeight[x] <= nHeight[y]
      <4> HIDE DEF M
      <4> QED BY <2>2, <3>1, LowestExists
    <3> QED BY <3>2
  <2> QED BY <2>1, <2>2
<1>2. Intermediate(b) \in chain[b]
  <2>1. Intermediate(b) = CHOOSE x \in chain[b] : P(x)
    BY DEF Intermediate
  <2> QED BY <1>1, <2>1
<1> QED BY <1>2, BlockTree

-----------------------------------------------------------------------------
(* Types and the UTXO cache                                                *)

Busy == {"extend", "disconnect", "connect", "secondary"}

OpType ==
    [new : Block \cup {NoBlock}, inter : Block \cup {NoBlock},
     fork : Block \cup {NoBlock}, at : Block \cup {NoBlock}, ret : {"idle", "startup"}]

\* What SetBestChain works on.
OpInv ==
    /\ pc \in Busy => op.new \in Block /\ op.inter \in Block /\ op.at \in Block
    /\ pc = "extend" => op.new # Genesis /\ pprev[op.new] = op.at
    /\ pc = "disconnect" => op.fork \in chain[op.at] /\ op.at # op.fork

\* What the cache, the open batch and the database have to do with each other.
CacheInv ==
    /\ pc \notin {"disconnect", "connect"} => ~wrote
    /\ ~wrote => view.utxo = disk.utxo
    /\ ~poisoned => utxoCache = view.utxo

IInv == TypeOK /\ OpInv /\ CacheInv

\* The transactions of a block are transactions.
LEMMA TxsOfType == \A b \in Block : TxsOf(b) \subseteq Tx
  BY Transactions DEF TxsOf

\* What ConnectBlock makes of a UTXO set is a UTXO set.
LEMMA ConnectUtxoType ==
    ASSUME NEW b \in Block, NEW u \in [Tx -> Utxo]
    PROVE  ConnectUtxo(b, u) \in [Tx -> Utxo]
<1>1. nHeight[b] \in Utxo /\ Absent \in Utxo
  BY BlockTree DEF Utxo
<1> QED BY <1>1 DEF ConnectUtxo

\* What DisconnectBlock makes of a UTXO set is a UTXO set.
LEMMA DisconnectUtxoType ==
    ASSUME NEW b \in Block, NEW u \in [Tx -> Utxo], NEW x \in [Tx -> Block \cup {NoBlock}]
    PROVE  DisconnectUtxo(b, u, x) \in [Tx -> Utxo]
<1>1. Absent \in Utxo /\ 0 \in Utxo
  BY DEF Utxo
<1>2. \A t \in Tx : x[t] # NoBlock => nHeight[x[t]] \in Utxo
  BY BlockTree DEF Utxo
<1> QED BY <1>1, <1>2 DEF DisconnectUtxo

\* Eviction changes an answer of the cache only where the cache and the
\* database differ, and then to that of the database.
LEMMA EvictedSound ==
    ASSUME NEW c \in [Tx -> Utxo], NEW v, v.utxo \in [Tx -> Utxo], NEW e \in Evicted(c, v)
    PROVE  /\ e \in [Tx -> Utxo]
           /\ c = v.utxo => e = v.utxo
<1>1. PICK S \in SUBSET {t \in Tx : c[t] # v.utxo[t]} :
          e = [t \in Tx |-> IF t \in S THEN v.utxo[t] ELSE c[t]]
  BY DEF Evicted
<1> QED BY <1>1

\* ConnectBlock leaves a well-typed database.
LEMMA ConnectedType ==
    ASSUME NEW b \in Block \ {Genesis}, view \in Database
    PROVE  /\ Connected(b) \in Database
           /\ Connected(b).utxo = ConnectUtxo(b, view.utxo)
           /\ Connected(b).utxo \in [Tx -> Utxo]
<1>1. ConnectUtxo(b, view.utxo) \in [Tx -> Utxo]
  BY ConnectUtxoType DEF Database
<1>2. ConnectTxIndex(b, view.txindex) \in [Tx -> Block \cup {NoBlock}]
  BY DEF ConnectTxIndex, Database
<1>3. view.index \cup {b, pprev[b]} \subseteq Block
  BY BlockTree DEF Database
<1> QED BY <1>1, <1>2, <1>3 DEF Connected, Database

\* DisconnectBlock leaves a well-typed database.
LEMMA DisconnectedType ==
    ASSUME NEW b \in Block \ {Genesis}, view \in Database
    PROVE  /\ Disconnected(b) \in Database
           /\ Disconnected(b).utxo = DisconnectUtxo(b, view.utxo, view.txindex)
           /\ Disconnected(b).utxo \in [Tx -> Utxo]
<1>1. DisconnectUtxo(b, view.utxo, view.txindex) \in [Tx -> Utxo]
  BY DisconnectUtxoType DEF Database
<1>2. DisconnectTxIndex(b, view.txindex) \in [Tx -> Block \cup {NoBlock}]
  BY DEF DisconnectTxIndex, Database
<1>3. view.index \cup {pprev[b]} \subseteq Block
  BY BlockTree DEF Database
<1> QED BY <1>1, <1>2, <1>3 DEF Disconnected, Database

\* WriteHashBestChain leaves a well-typed database.
LEMMA WithBestType ==
    ASSUME NEW v \in Database, NEW b \in Block
    PROVE  /\ WithBest(v, b) \in Database
           /\ WithBest(v, b).utxo = v.utxo
           /\ WithBest(v, b).txindex = v.txindex
           /\ WithBest(v, b).index = v.index
           /\ WithBest(v, b).best = b
  BY DEF WithBest, Database

\* WriteBlockIndex leaves a well-typed database.
LEMMA WithIndexType ==
    ASSUME NEW b \in Block, disk \in Database
    PROVE  /\ WithIndex(b) \in Database
           /\ WithIndex(b).utxo = disk.utxo
           /\ WithIndex(b).txindex = disk.txindex
           /\ WithIndex(b).index = disk.index \cup {b}
           /\ WithIndex(b).best = disk.best
  BY DEF WithIndex, Database

\* The idle operation record is well typed.
LEMMA NoOpType == NoOp \in OpType
  BY DEF NoOp, OpType

\* The threshold is a height.
LEMMA NewThresholdsType ==
    ASSUME NEW b \in Block, nAssumeValidThreshold \in Nat
    PROVE  NewThresholds(b) \subseteq Nat
<1> DEFINE h == nHeight[b] - ASSUME_VALID_BUFFER
           S == {nAssumeValidThreshold, h}
<1>1. CASE nHeight[b] > ASSUME_VALID_BUFFER
  <2>1. h \in Nat
    BY <1>1, BlockTree, Parameters
  <2> HIDE DEF h
  <2>2. \E x \in S : \A y \in S : y <= x
    BY <2>1
  <2>3. MaxOf(S) \in S
    BY <2>2 DEF MaxOf
  <2>4. MaxOf(S) \in Nat
    BY <2>1, <2>3
  <2> QED BY <1>1, <2>4 DEF NewThresholds, h
<1>2. CASE ~(nHeight[b] > ASSUME_VALID_BUFFER)
  BY <1>2 DEF NewThresholds
<1> QED BY <1>1, <1>2

\* SetBestChain starts on blocks of the tree, and Reorganize above the fork.
LEMMA SetBestChainStarts ==
    ASSUME TypeOK, NEW b \in Block, NEW v \in Database, NEW ret \in {"idle", "startup"},
           SetBestChain(b, v, ret)
    PROVE  /\ pc' \in {"extend", "disconnect", "connect", ret}
           /\ op' \in OpType
           /\ view' \in {v, disk}
           /\ OpInv'
<1> hashBestChain \in Block
  BY DEF TypeOK
<1>1. CASE b # Genesis /\ pprev[b] = hashBestChain
  <2>1. /\ pc' = "extend" /\ view' = v
        /\ op' = [new |-> b, inter |-> b, fork |-> hashBestChain, at |-> hashBestChain, ret |-> ret]
    BY <1>1 DEF SetBestChain
  <2> QED BY <1>1, <2>1 DEF OpInv, OpType, Busy
<1>2. CASE ~(b # Genesis /\ pprev[b] = hashBestChain) /\ ReorganizeRefused(b)
  <2>1. pc' = ret /\ op' = NoOp /\ view' = disk
    BY <1>2 DEF SetBestChain
  <2> QED BY <2>1, NoOpType DEF OpInv, Busy
<1>3. CASE ~(b # Genesis /\ pprev[b] = hashBestChain) /\ ~ReorganizeRefused(b)
  <2> DEFINE f == Fork(hashBestChain, Intermediate(b))
  <2>1. Intermediate(b) \in Block
    BY IntermediateExists
  <2>2. f \in Block /\ f \in chain[hashBestChain]
    BY <2>1, ForkExists
  <2>3. /\ pc' = IF f = hashBestChain THEN "connect" ELSE "disconnect"
        /\ op' = [new |-> b, inter |-> Intermediate(b), fork |-> f,
                  at |-> hashBestChain, ret |-> ret]
        /\ view' = v
    BY <1>3 DEF SetBestChain
  <2> HIDE DEF f
  <2> QED BY <2>1, <2>2, <2>3 DEF OpInv, OpType, Busy
<1> QED BY <1>1, <1>2, <1>3

\* TxnAbort leaves every type as it is, and counts the cache as poisoned
\* exactly when the dropped batch held UTXO writes.
LEMMA AbortKeeps ==
    ASSUME IInv, Abort
    PROVE  IInv'
<1> USE DEF IInv, Abort, memory
<1>1. TypeOK'
  BY NoOpType DEF TypeOK, OpType
<1>2. OpInv'
  BY DEF OpInv, TypeOK, Busy
<1>3. CacheInv'
  BY DEF CacheInv, TypeOK
<1> QED BY <1>1, <1>2, <1>3

\* The end of SetBestChain: a new best block and nothing under way.
LEMMA NewBestBlockKeeps ==
    ASSUME TypeOK, NEW b \in Block, NewBestBlock(b)
    PROVE  /\ hashBestChain' \in Block
           /\ nAssumeValidThreshold' \in Nat
           /\ pc' \in {"idle", "startup"}
           /\ op' \in OpType
           /\ OpInv'
<1>1. nAssumeValidThreshold' \in Nat
  BY NewThresholdsType DEF NewBestBlock, TypeOK
<1>2. pc' \in {"idle", "startup"} /\ op' \in OpType
  BY NoOpType DEF NewBestBlock, TypeOK
<1> QED BY <1>1, <1>2 DEF NewBestBlock, OpInv, Busy

\* A block connected in a transaction of its own: the cache and the database
\* receive the same writes.
LEMMA ConnectAndCommitKeeps ==
    ASSUME IInv, pc \in {"extend", "secondary"}, NEW b \in Block \ {Genesis}, ConnectAndCommit(b)
    PROVE  /\ disk' \in Database /\ view' = disk'
           /\ utxoCache' \in [Tx -> Utxo]
           /\ mempool' \subseteq Tx
           /\ ~wrote'
           /\ ~poisoned' => utxoCache' = view'.utxo
<1> view \in Database /\ utxoCache \in [Tx -> Utxo] /\ mempool \subseteq Tx
  BY DEF IInv, TypeOK
<1>1. view' = WithBest(Connected(b), b) /\ disk' = view'
  BY DEF ConnectAndCommit
<1>2. /\ view' \in Database
      /\ view'.utxo = ConnectUtxo(b, view.utxo)
      /\ view'.utxo \in [Tx -> Utxo]
  BY <1>1, ConnectedType, WithBestType
<1>3. ConnectUtxo(b, utxoCache) \in [Tx -> Utxo]
  BY ConnectUtxoType
<1>4. utxoCache' \in Evicted(ConnectUtxo(b, utxoCache), view')
  BY DEF ConnectAndCommit
<1>5. /\ utxoCache' \in [Tx -> Utxo]
      /\ ConnectUtxo(b, utxoCache) = view'.utxo => utxoCache' = view'.utxo
  BY <1>2, <1>3, <1>4, EvictedSound
<1>6. ~wrote' /\ poisoned' = poisoned /\ mempool' \subseteq Tx
  BY DEF ConnectAndCommit, IInv, CacheInv
<1> QED BY <1>1, <1>2, <1>5, <1>6 DEF IInv, CacheInv

\* A block whose commit fails: its batch is dropped and the cache is poisoned.
LEMMA ConnectAndLoseKeeps ==
    ASSUME IInv, pc \in {"extend", "secondary"}, NEW b \in Block \ {Genesis}, ConnectAndLose(b)
    PROVE  /\ view' \in Database /\ disk' \in Database
           /\ utxoCache' \in [Tx -> Utxo]
           /\ ~wrote' /\ view' = disk'
           /\ poisoned'
<1> view \in Database /\ disk \in Database /\ utxoCache \in [Tx -> Utxo]
  BY DEF IInv, TypeOK
<1>1. utxoCache' \in Evicted(ConnectUtxo(b, utxoCache), Connected(b))
  BY DEF ConnectAndLose
<1>2. utxoCache' \in [Tx -> Utxo]
  BY <1>1, ConnectUtxoType, ConnectedType, EvictedSound
<1>3. view' = disk /\ disk' = disk /\ ~wrote' /\ poisoned'
  BY DEF ConnectAndLose, IInv, CacheInv
<1> QED BY <1>2, <1>3

\* Block acceptance opens a batch that holds an index entry and no UTXO write.
LEMMA AcceptKeeps ==
    ASSUME IInv, NEW b \in Block, AcceptSideBlock(b) \/ AcceptBestBlock(b)
    PROVE  IInv'
<1> pc = "idle" /\ ~wrote /\ disk \in Database /\ view.utxo = disk.utxo
  BY DEF AcceptSideBlock, AcceptBestBlock, IInv, CacheInv, TypeOK
<1> AddToBlockIndex(b)
  BY DEF AcceptSideBlock, AcceptBestBlock
<1>1. WithIndex(b) \in Database /\ WithIndex(b).utxo = disk.utxo
  BY WithIndexType
<1>2. CASE AcceptSideBlock(b)
  <2>1. disk' \in {WithIndex(b), disk} /\ view' = disk' /\ UNCHANGED <<pc, op>>
    BY <1>2 DEF AcceptSideBlock
  <2>2. TypeOK'
    BY <1>1, <2>1 DEF IInv, TypeOK, AddToBlockIndex
  <2>3. OpInv' /\ CacheInv'
    BY <1>1, <2>1 DEF IInv, OpInv, CacheInv, AddToBlockIndex, Busy
  <2> QED BY <2>2, <2>3 DEF IInv
<1>3. CASE AcceptBestBlock(b)
  <2>1. /\ pc' \in {"extend", "disconnect", "connect", "idle"}
        /\ op' \in OpType /\ view' \in {WithIndex(b), disk} /\ OpInv' /\ disk' = disk
    BY <1>1, <1>3, SetBestChainStarts DEF AcceptBestBlock, IInv
  <2>2. TypeOK'
    BY <1>1, <2>1 DEF IInv, TypeOK, OpType, AddToBlockIndex
  <2>3. CacheInv'
    BY <1>1, <2>1 DEF IInv, CacheInv, AddToBlockIndex
  <2> QED BY <2>1, <2>2, <2>3 DEF IInv
<1> QED BY <1>2, <1>3

\* Startup reads the database into an empty cache.
LEMMA StartupKeeps ==
    ASSUME IInv,
           \/ Restart \/ LoadNoBetterTip \/ SetHardenedCheckpoint
           \/ \E b \in Block : LoadBetterTip(b)
    PROVE  IInv'
<1> disk \in Database
  BY DEF IInv, TypeOK
<1>1. CASE Restart
  <2>1. {pprev[b] : b \in disk.index \ {Genesis}} \subseteq Block
    BY BlockTree DEF Database
  <2>2. TypeOK'
    BY <1>1, <2>1, NoOpType DEF Restart, IInv, TypeOK, OpType, Database
  <2>3. OpInv' /\ CacheInv'
    BY <1>1 DEF Restart, OpInv, CacheInv, Busy
  <2> QED BY <2>2, <2>3 DEF IInv
<1>2. CASE LoadNoBetterTip
  BY <1>2 DEF LoadNoBetterTip, IInv, TypeOK, OpInv, CacheInv, memory, Busy
<1>3. CASE SetHardenedCheckpoint
  <2>1. GetLastCheckpoint(mapBlockIndex) \in Block \cup {NoBlock}
    BY DEF GetLastCheckpoint, IInv, TypeOK
  <2> QED BY <1>3, <2>1 DEF SetHardenedCheckpoint, IInv, TypeOK, OpInv, CacheInv, Busy
<1>4. ASSUME NEW b \in Block, LoadBetterTip(b) PROVE IInv'
  <2>1. /\ pc' \in {"extend", "disconnect", "connect", "startup"}
        /\ op' \in OpType /\ view' = disk /\ OpInv'
    BY <1>4, SetBestChainStarts DEF LoadBetterTip, IInv
  <2>2. TypeOK'
    BY <1>4, <2>1 DEF LoadBetterTip, IInv, TypeOK, OpType, memory
  <2>3. CacheInv'
    BY <1>4, <2>1 DEF LoadBetterTip, IInv, CacheInv, memory
  <2> QED BY <2>1, <2>2, <2>3 DEF IInv
<1> QED BY <1>1, <1>2, <1>3, <1>4

\* SetBestChain on a block whose parent is the best block.
LEMMA ExtendKeeps ==
    ASSUME IInv, Extend \/ ExtendFails \/ ExtendCommitFails
    PROVE  IInv'
<1> pc = "extend" /\ op.new \in Block \ {Genesis}
  BY DEF Extend, ExtendFails, ExtendCommitFails, IInv, OpInv, Busy
<1>1. CASE Extend
  <2>1. /\ disk' \in Database /\ view' = disk' /\ utxoCache' \in [Tx -> Utxo]
        /\ mempool' \subseteq Tx /\ ~wrote' /\ (~poisoned' => utxoCache' = view'.utxo)
    BY <1>1, ConnectAndCommitKeeps DEF Extend
  <2>2. /\ hashBestChain' \in Block /\ nAssumeValidThreshold' \in Nat
        /\ pc' \in {"idle", "startup"} /\ op' \in OpType /\ OpInv'
    BY <1>1, NewBestBlockKeeps DEF Extend, IInv
  <2>3. TypeOK'
    BY <1>1, <2>1, <2>2 DEF Extend, ConnectAndCommit, IInv, TypeOK, OpType
  <2> QED BY <2>1, <2>2, <2>3 DEF IInv, CacheInv
<1>2. CASE ExtendFails
  BY <1>2, AbortKeeps DEF ExtendFails
<1>3. CASE ExtendCommitFails
  <2>1. /\ view' \in Database /\ disk' \in Database /\ utxoCache' \in [Tx -> Utxo]
        /\ ~wrote' /\ view' = disk' /\ poisoned'
    BY <1>3, ConnectAndLoseKeeps DEF ExtendCommitFails
  <2>2. TypeOK'
    BY <1>3, <2>1, NoOpType DEF ExtendCommitFails, ConnectAndLose, IInv, TypeOK, OpType
  <2>3. OpInv'
    BY <1>3 DEF ExtendCommitFails, IInv, TypeOK, OpInv, Busy
  <2> QED BY <2>1, <2>2, <2>3 DEF IInv, CacheInv
<1> QED BY <1>1, <1>2, <1>3

\* The blocks that ConnectBlock can take next are not Genesis.
LEMMA NextToType ==
    ASSUME NEW b \in Block
    PROVE  NextTo(b) \subseteq Block \ {Genesis}
  BY BlockTree DEF NextTo

\* Reorganize up to its commit: cache and open batch receive the same writes.
LEMMA ReorganizeKeeps ==
    ASSUME IInv,
           DisconnectBlock \/ ConnectBlock \/ ConnectBlockFails \/ ReorganizeIoError
    PROVE  IInv'
<1> /\ view \in Database /\ utxoCache \in [Tx -> Utxo]
    /\ pc \in {"disconnect", "connect"}
    /\ op.at \in Block /\ op.inter \in Block /\ op \in OpType
  BY DEF DisconnectBlock, ConnectBlock, ConnectBlockFails, ReorganizeIoError,
         IInv, TypeOK, OpInv, OpType, Busy
<1>1. CASE DisconnectBlock
  <2> DEFINE b == op.at
  <2>1. pc = "disconnect" /\ b \in Block \ {Genesis} /\ op.fork \in chain[b] /\ b # op.fork
    BY <1>1, BlockTree DEF DisconnectBlock, IInv, OpInv
  <2>2. pprev[b] \in Block /\ op.fork \in chain[pprev[b]]
    BY <2>1, BlockTree
  <2>3. /\ view' \in Database
        /\ view'.utxo = DisconnectUtxo(b, view.utxo, view.txindex)
        /\ view'.utxo \in [Tx -> Utxo]
    BY <1>1, <2>1, DisconnectedType DEF DisconnectBlock
  <2>4. DisconnectUtxo(b, utxoCache, view.txindex) \in [Tx -> Utxo]
    BY <2>1, DisconnectUtxoType DEF Database
  <2>5. /\ utxoCache' \in [Tx -> Utxo]
        /\ DisconnectUtxo(b, utxoCache, view.txindex) = view'.utxo => utxoCache' = view'.utxo
    BY <1>1, <2>3, <2>4, EvictedSound DEF DisconnectBlock
  <2>6. /\ op' = [op EXCEPT !.at = pprev[b]]
        /\ pc' = IF pprev[b] = op.fork THEN "connect" ELSE "disconnect"
        /\ wrote' = TRUE /\ poisoned' = poisoned
    BY <1>1 DEF DisconnectBlock
  <2>7. op' \in OpType /\ op'.at = pprev[b] /\ op'.fork = op.fork /\ op'.new = op.new
        /\ op'.inter = op.inter
    BY <2>2, <2>6 DEF OpType
  <2>8. TypeOK'
    BY <1>1, <2>3, <2>5, <2>6, <2>7 DEF DisconnectBlock, IInv, TypeOK, OpType
  <2>9. OpInv'
    BY <2>1, <2>2, <2>6, <2>7 DEF IInv, OpInv, Busy
  <2>10. CacheInv'
    BY <2>3, <2>5, <2>6 DEF IInv, CacheInv
  <2> QED BY <2>8, <2>9, <2>10 DEF IInv
<1>2. CASE ConnectBlock
  <2>1. PICK x \in NextTo(op.inter) :
            /\ view' = Connected(x)
            /\ utxoCache' \in Evicted(ConnectUtxo(x, utxoCache), view')
            /\ op' = [op EXCEPT !.at = x]
    BY <1>2 DEF ConnectBlock
  <2>2. x \in Block \ {Genesis}
    BY NextToType
  <2>3. /\ view' \in Database
        /\ view'.utxo = ConnectUtxo(x, view.utxo)
        /\ view'.utxo \in [Tx -> Utxo]
    BY <2>1, <2>2, ConnectedType
  <2>4. /\ utxoCache' \in [Tx -> Utxo]
        /\ ConnectUtxo(x, utxoCache) = view'.utxo => utxoCache' = view'.utxo
    BY <2>1, <2>2, <2>3, ConnectUtxoType, EvictedSound
  <2>5. pc = "connect" /\ pc' = "connect" /\ wrote' = TRUE /\ poisoned' = poisoned
    BY <1>2 DEF ConnectBlock
  <2>6. op' \in OpType /\ op'.at = x /\ op'.new = op.new /\ op'.inter = op.inter
    BY <2>1, <2>2 DEF OpType
  <2>7. TypeOK'
    BY <1>2, <2>3, <2>4, <2>5, <2>6 DEF ConnectBlock, IInv, TypeOK, OpType
  <2>8. OpInv'
    BY <2>2, <2>5, <2>6 DEF IInv, OpInv, Busy
  <2>9. CacheInv'
    BY <2>3, <2>4, <2>5 DEF IInv, CacheInv
  <2> QED BY <2>7, <2>8, <2>9 DEF IInv
<1>3. CASE ConnectBlockFails
  BY <1>3, AbortKeeps DEF ConnectBlockFails
<1>4. CASE ReorganizeIoError
  BY <1>4, AbortKeeps DEF ReorganizeIoError
<1> QED BY <1>1, <1>2, <1>3, <1>4

\* The memory pool stays a set of transactions when Reorganize updates it.
LEMMA PoolType ==
    ASSUME NEW pool \in SUBSET Tx, NEW B \in SUBSET Block, NEW C \in SUBSET Block
    PROVE  RemoveWithConflicts(Resurrect(pool, UNION {TxsOf(b) : b \in B}),
                               UNION {TxsOf(b) : b \in C}) \subseteq Tx
<1>1. Resurrect(pool, UNION {TxsOf(b) : b \in B}) \subseteq Tx
  BY TxsOfType DEF Resurrect
<1> QED BY <1>1 DEF RemoveWithConflicts

\* Reorganize commits: what was the open batch becomes the database.
LEMMA CommitReorganizeKeeps ==
    ASSUME IInv, CommitReorganize
    PROVE  IInv'
<1> /\ view \in Database /\ utxoCache \in [Tx -> Utxo] /\ mempool \in SUBSET Tx
    /\ pc = "connect" /\ op.inter \in Block /\ op.new \in Block /\ op.at \in Block
    /\ hashBestChain \in Block /\ op \in OpType
  BY DEF CommitReorganize, IInv, TypeOK, OpInv, OpType, Busy
<1>1. view' \in Database /\ view'.utxo = view.utxo /\ disk' = view'
  BY WithBestType DEF CommitReorganize
<1>2. mempool' \subseteq Tx
  <2>1. chain[hashBestChain] \ chain[op.inter] \in SUBSET Block
        /\ chain[op.inter] \ chain[hashBestChain] \in SUBSET Block
    BY BlockTree
  <2> QED BY <2>1, PoolType DEF CommitReorganize
<1>3. /\ hashBestChain' \in Block /\ nAssumeValidThreshold' \in Nat
      /\ pc' \in {"idle", "startup", "secondary"} /\ op' \in OpType /\ OpInv'
  <2>1. CASE op.inter = op.new
    BY <2>1, NewBestBlockKeeps DEF CommitReorganize, IInv
  <2>2. CASE op.inter # op.new
    BY <2>2 DEF CommitReorganize, IInv, TypeOK, OpInv, Busy
  <2> QED BY <2>1, <2>2
<1>4. TypeOK'
  BY <1>1, <1>2, <1>3 DEF CommitReorganize, IInv, TypeOK, OpType
<1>5. CacheInv'
  BY <1>1 DEF CommitReorganize, IInv, CacheInv
<1> QED BY <1>3, <1>4, <1>5 DEF IInv

\* The postponed connects of SetBestChain.
LEMMA SecondaryKeeps ==
    ASSUME IInv, ConnectSecondary \/ SecondaryFails \/ SecondaryCommitFails
    PROVE  IInv'
<1> /\ pc = "secondary" /\ op.new \in Block /\ op.inter \in Block /\ op \in OpType
    /\ disk \in Database
  BY DEF ConnectSecondary, SecondaryFails, SecondaryCommitFails, IInv, TypeOK, OpInv, OpType, Busy
<1>1. CASE ConnectSecondary
  <2>1. PICK x \in NextTo(op.new) :
          /\ ConnectAndCommit(x)
          /\ IF x = op.new
             THEN NewBestBlock(op.new)
             ELSE /\ op' = [op EXCEPT !.at = x]
                  /\ UNCHANGED <<hashBestChain, nAssumeValidThreshold, pc>>
    BY <1>1 DEF ConnectSecondary
  <2>2. x \in Block \ {Genesis}
    BY NextToType
  <2>3. /\ disk' \in Database /\ view' = disk' /\ utxoCache' \in [Tx -> Utxo]
        /\ mempool' \subseteq Tx /\ ~wrote' /\ (~poisoned' => utxoCache' = view'.utxo)
    BY <2>1, <2>2, ConnectAndCommitKeeps
  <2>4. /\ hashBestChain' \in Block /\ nAssumeValidThreshold' \in Nat
        /\ pc' \in {"idle", "startup", "secondary"} /\ op' \in OpType /\ OpInv'
    <3>1. CASE x = op.new
      BY <2>1, <3>1, NewBestBlockKeeps DEF IInv
    <3>2. CASE x # op.new
      <4>1. op' = [op EXCEPT !.at = x] /\ UNCHANGED <<hashBestChain, nAssumeValidThreshold, pc>>
        BY <2>1, <3>2
      <4>2. op' \in OpType /\ op'.at = x /\ op'.new = op.new /\ op'.inter = op.inter
        BY <2>2, <4>1 DEF OpType
      <4> QED BY <2>2, <4>1, <4>2 DEF IInv, TypeOK, OpInv, Busy
    <3> QED BY <3>1, <3>2
  <2>5. TypeOK'
    BY <1>1, <2>1, <2>3, <2>4 DEF ConnectSecondary, ConnectAndCommit, IInv, TypeOK, OpType
  <2> QED BY <2>3, <2>4, <2>5 DEF IInv, CacheInv
<1>2. CASE SecondaryFails
  <2>1. /\ hashBestChain' \in Block /\ nAssumeValidThreshold' \in Nat
        /\ pc' \in {"idle", "startup"} /\ op' \in OpType /\ OpInv'
    BY <1>2, NewBestBlockKeeps DEF SecondaryFails, IInv
  <2>2. TypeOK'
    BY <1>2, <2>1 DEF SecondaryFails, IInv, TypeOK, OpType
  <2>3. CacheInv'
    BY <1>2, <2>1 DEF SecondaryFails, IInv, CacheInv
  <2> QED BY <2>1, <2>2, <2>3 DEF IInv
<1>3. CASE SecondaryCommitFails
  <2>1. PICK x \in NextTo(op.new) : ConnectAndLose(x)
    BY <1>3 DEF SecondaryCommitFails
  <2>2. x \in Block \ {Genesis}
    BY NextToType
  <2>3. /\ view' \in Database /\ disk' \in Database /\ utxoCache' \in [Tx -> Utxo]
        /\ ~wrote' /\ view' = disk' /\ poisoned'
    BY <2>1, <2>2, ConnectAndLoseKeeps
  <2>4. /\ hashBestChain' \in Block /\ nAssumeValidThreshold' \in Nat
        /\ pc' \in {"idle", "startup"} /\ op' \in OpType /\ OpInv'
    BY <1>3, NewBestBlockKeeps DEF SecondaryCommitFails, IInv
  <2>5. TypeOK'
    BY <1>3, <2>1, <2>3, <2>4 DEF SecondaryCommitFails, ConnectAndLose, IInv, TypeOK, OpType
  <2> QED BY <2>3, <2>4, <2>5 DEF IInv, CacheInv
<1> QED BY <1>1, <1>2, <1>3

\* A new node has nothing under way and an empty cache.
LEMMA IInvInit == Init => IInv
<1> SUFFICES ASSUME Init PROVE IInv
  OBVIOUS
<1>1. disk \in Database
  BY BlockTree DEF Init, Database, Utxo, Absent
<1>2. TypeOK
  BY <1>1, BlockTree, NoOpType DEF Init, TypeOK, Database, OpType
<1> QED BY <1>2 DEF Init, IInv, OpInv, CacheInv, Busy

\* Every step of the node keeps the invariant.
LEMMA IInvStep == IInv /\ [Next]_vars => IInv'
<1> SUFFICES ASSUME IInv, [Next]_vars PROVE IInv'
  OBVIOUS
<1>1. ASSUME NEW b \in Block, AcceptSideBlock(b) \/ AcceptBestBlock(b) PROVE IInv'
  BY <1>1, AcceptKeeps
<1>2. ASSUME NEW t \in Tx, AcceptToMemoryPool(t) PROVE IInv'
  BY <1>2 DEF AcceptToMemoryPool, IInv, TypeOK, OpInv, CacheInv
<1>3. CASE Extend \/ ExtendFails \/ ExtendCommitFails
  BY <1>3, ExtendKeeps
<1>4. CASE DisconnectBlock \/ ConnectBlock \/ ConnectBlockFails \/ ReorganizeIoError
  BY <1>4, ReorganizeKeeps
<1>5. CASE CommitReorganize
  BY <1>5, CommitReorganizeKeeps
<1>6. CASE ConnectSecondary \/ SecondaryFails \/ SecondaryCommitFails
  BY <1>6, SecondaryKeeps
<1>7. CASE Restart \/ LoadNoBetterTip \/ SetHardenedCheckpoint \/ \E b \in Block : LoadBetterTip(b)
  BY <1>7, StartupKeeps
<1>8. CASE UNCHANGED vars
  BY <1>8 DEF vars, memory, IInv, TypeOK, OpInv, CacheInv
<1> QED BY <1>1, <1>2, <1>3, <1>4, <1>5, <1>6, <1>7, <1>8 DEF Next, SetBestChainStep

\* IInv is an invariant of the node.
THEOREM Inductive == Spec => []IInv
  BY IInvInit, IInvStep, PTL DEF Spec

\* Whatever the blocks, the order they arrive in, the failures and the
\* crashes, the state of the node has its type: in particular Reorganize
\* never walks below Genesis and the assume-valid threshold stays a height.
THEOREM TypeCorrect == Spec => []TypeOK
<1>1. IInv => TypeOK
  BY DEF IInv
<1> QED BY <1>1, Inductive, PTL

\* For every block tree, valid or not: as long as no batch with UTXO writes
\* was dropped since startup, ReadUtxo answers from the cache what the
\* database, open batch included, holds, whatever the cache evicted.
THEOREM CacheIsCoherent == Spec => []CacheCoherent
<1>1. IInv => CacheCoherent
  BY DEF IInv, CacheInv, CacheCoherent
<1> QED BY <1>1, Inductive, PTL

=============================================================================
