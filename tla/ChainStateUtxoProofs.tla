------------------------ MODULE ChainStateUtxoProofs ------------------------
(***************************************************************************)
(* The stored chain: what the chain database says about its best chain is  *)
(* complete (BestChainStored), is what the node works on (TipOnDisk), and  *)
(* its UTXO set is the one the chain defines (UtxoIsUnspent).              *)
(***************************************************************************)
EXTENDS ChainStateProofs

\* The block up to which the open batch connects the chain.
Cursor == IF pc \in Busy THEN op.at ELSE disk.best

\* Only stubs lack their parent in the index.
IndexClosed ==
    \A b \in mapBlockIndex \ (stubs \cup {Genesis}) : pprev[b] \in mapBlockIndex

\* What SetBestChain has in hand agrees with memory and database.
TipInv ==
    /\ pc # "secondary" => hashBestChain = disk.best
    /\ pc = "secondary" => op.at = disk.best
    /\ pc = "extend" => op.at = disk.best
    /\ pc = "disconnect" => op.at \in chain[hashBestChain]
    /\ pc \in Busy => op.inter \in chain[op.new]

\* The index entries of the chains in hand are there.
StoredInv ==
    /\ chain[disk.best] \subseteq disk.index
    /\ chain[Cursor] \subseteq view.index
    /\ chain[hashBestChain] \subseteq mapBlockIndex
    /\ pc \in Busy => chain[op.new] \subseteq mapBlockIndex

\* The UTXO set and the transaction index are those of the chain in hand.
UtxoInv ==
    /\ disk.utxo = Unspent(disk.best) /\ disk.txindex = Located(disk.best)
    /\ view.utxo = Unspent(Cursor) /\ view.txindex = Located(Cursor)

ChainInv ==
    /\ IInv
    /\ IndexClosed
    /\ "split" \notin scars => TipInv /\ StoredInv

HonestInv == ChainInv /\ ("split" \notin scars => UtxoInv)

-----------------------------------------------------------------------------
(* What the database should hold, block by block                           *)

\* An output made on a well-formed chain is made by one block of it.
LEMMA OneMaker ==
    ASSUME HonestTree, NEW b \in Block, NEW t \in Tx, NEW c \in MakerIn(b, t)
    PROVE  MakerIn(b, t) = {c} /\ Highest(MakerIn(b, t)) = c /\ c \in Block
<1>1. c \in chain[b] /\ t \in TxsOf(c) /\ c \in Block
  BY BlockTree DEF MakerIn
<1>2. \A d \in MakerIn(b, t) : d = c
  BY <1>1 DEF HonestTree, MakerIn
<1>3. MakerIn(b, t) = {c}
  BY <1>2
<1>4. Highest({c}) = c
  BY <1>1, BlockTree DEF Highest
<1> QED BY <1>1, <1>3, <1>4

\* A well-formed block spends an output only after it made it, so what it
\* spends is spent when the block is connected.
LEMMA SpentStaysSpent ==
    ASSUME HonestTree, NEW b \in Block, NEW t \in Tx
    PROVE  EndsSpent(b, t) <=> Spends(b, t)
<1>1. ASSUME NEW j \in DOMAIN vtx[b], t \in vin[vtx[b][j]],
             NEW k \in DOMAIN vtx[b], k > j, vtx[b][k] = t
      PROVE  FALSE
  <2>1. k < j
    BY <1>1 DEF HonestTree
  <2>2. j \in Int /\ k \in Int
    BY Transactions
  <2> QED BY <1>1, <2>1, <2>2
<1> QED BY <1>1 DEF EndsSpent, Spends

\* One more block on the chain.
LEMMA OneMoreBlock ==
    ASSUME NEW b \in Block \ {Genesis}, NEW t \in Tx
    PROVE  /\ SpentIn(b, t) <=> SpentIn(pprev[b], t) \/ Spends(b, t)
           /\ t \notin TxsOf(b) => MakerIn(b, t) = MakerIn(pprev[b], t)
           /\ t \in TxsOf(b) => MakerIn(b, t) = MakerIn(pprev[b], t) \cup {b}
<1>1. chain[b] = chain[pprev[b]] \cup {b}
  BY BlockTree
<1> QED BY <1>1 DEF SpentIn, MakerIn

\* The parent is on the chain and the block is not on that of its parent.
LEMMA ParentBelow ==
    ASSUME NEW b \in Block \ {Genesis}
    PROVE  /\ pprev[b] \in Block
           /\ chain[b] = chain[pprev[b]] \cup {b}
           /\ b \notin chain[pprev[b]]
<1> DEFINE S == {x \in Block : \A y \in chain[x] : nHeight[y] <= nHeight[x]}
<1>1. Genesis \in S
  BY BlockTree
<1>2. \A x \in Block \ {Genesis} : pprev[x] \in S => x \in S
  BY BlockTree
<1>3. \A x \in Block : x \in S
  <2> HIDE DEF S
  <2>1. S \subseteq Block  BY DEF S
  <2> QED BY <1>1, <1>2, <2>1, TreeInduction
<1>4. pprev[b] \in Block /\ nHeight[b] = nHeight[pprev[b]] + 1 /\ nHeight[pprev[b]] \in Nat
  BY BlockTree
<1>5. b \notin chain[pprev[b]]
  <2> SUFFICES ASSUME b \in chain[pprev[b]] PROVE FALSE
    OBVIOUS
  <2>1. nHeight[b] <= nHeight[pprev[b]]
    BY <1>3, <1>4
  <2> QED BY <1>4, <2>1
<1> QED BY <1>4, <1>5, BlockTree

\* An output a block makes is new on its chain.
LEMMA MadeOnce ==
    ASSUME HonestTree, NEW b \in Block \ {Genesis}, NEW t \in TxsOf(b)
    PROVE  MakerIn(pprev[b], t) = {} /\ ~SpentIn(pprev[b], t) /\ t \in Tx
<1>1. b \in chain[b] /\ chain[b] = chain[pprev[b]] \cup {b} /\ b \notin chain[pprev[b]]
  BY ParentBelow
<1>2. \A c \in chain[pprev[b]] : t \notin TxsOf(c)
  BY <1>1 DEF HonestTree
<1>3. t \in Tx
  BY TxsOfType
<1> QED BY <1>2, <1>3 DEF HonestTree, MakerIn

\* ConnectBlock turns the UTXO set and the transaction index of the parent's
\* chain into those of the block's chain.
LEMMA ConnectIsUnspent ==
    ASSUME HonestTree, NEW b \in Block \ {Genesis}
    PROVE  /\ ConnectUtxo(b, Unspent(pprev[b])) = Unspent(b)
           /\ ConnectTxIndex(b, Located(pprev[b])) = Located(b)
<1> pprev[b] \in Block /\ SnapshotTx = {}
  BY BlockTree DEF HonestTree
<1>1. ASSUME NEW t \in Tx
      PROVE  /\ ConnectUtxo(b, Unspent(pprev[b]))[t] = Unspent(b)[t]
             /\ ConnectTxIndex(b, Located(pprev[b]))[t] = Located(b)[t]
  <2>1. CASE t \in TxsOf(b)
    <3>1. MakerIn(b, t) = {b} /\ ~SpentIn(pprev[b], t)
      BY <2>1, MadeOnce, OneMoreBlock
    <3>2. Highest(MakerIn(b, t)) = b
      BY <3>1, OneMaker
    <3>3. SpentIn(b, t) <=> EndsSpent(b, t)
      BY <3>1, OneMoreBlock, SpentStaysSpent
    <3> QED BY <2>1, <3>1, <3>2, <3>3 DEF ConnectUtxo, ConnectTxIndex, Unspent, Located
  <2>2. CASE t \notin TxsOf(b)
    <3>1. MakerIn(b, t) = MakerIn(pprev[b], t)
      BY <2>2, OneMoreBlock
    <3>2. SpentIn(b, t) <=> SpentIn(pprev[b], t) \/ EndsSpent(b, t)
      BY OneMoreBlock, SpentStaysSpent
    <3> QED BY <2>2, <3>1, <3>2 DEF ConnectUtxo, ConnectTxIndex, Unspent, Located
  <2> QED BY <2>1, <2>2
<1> QED BY <1>1 DEF ConnectUtxo, ConnectTxIndex, Unspent, Located

\* DisconnectBlock turns them back, when the index knows the chain.
LEMMA DisconnectIsUnspent ==
    ASSUME HonestTree, NEW b \in Block \ {Genesis}, chain[b] \subseteq mapBlockIndex
    PROVE  /\ DisconnectUtxo(b, Unspent(b), Located(b)) = Unspent(pprev[b])
           /\ DisconnectTxIndex(b, Located(b)) = Located(pprev[b])
<1> /\ pprev[b] \in Block /\ SnapshotTx = {} /\ NoBlock \notin Block
    /\ chain[pprev[b]] \subseteq chain[b]
  BY BlockTree DEF HonestTree
<1>1. ASSUME NEW t \in Tx
      PROVE  /\ DisconnectUtxo(b, Unspent(b), Located(b))[t] = Unspent(pprev[b])[t]
             /\ DisconnectTxIndex(b, Located(b))[t] = Located(pprev[b])[t]
  <2>1. CASE t \in TxsOf(b)
    <3>1. MakerIn(pprev[b], t) = {} /\ ~SpentIn(pprev[b], t)
      BY <2>1, MadeOnce
    <3> QED BY <2>1, <3>1 DEF DisconnectUtxo, DisconnectTxIndex, Unspent, Located
  <2>2. CASE t \notin TxsOf(b) /\ Spends(b, t)
    <3>1. MakerIn(b, t) = MakerIn(pprev[b], t) /\ MakerIn(b, t) # {} /\ ~SpentIn(pprev[b], t)
      BY <2>2, OneMoreBlock DEF HonestTree
    <3>2. PICK c \in MakerIn(pprev[b], t) : TRUE
      BY <3>1
    <3>3. Highest(MakerIn(pprev[b], t)) = c /\ c \in Block /\ c \in mapBlockIndex
      BY <3>1, <3>2, OneMaker DEF MakerIn
    <3>4. Located(b)[t] = c /\ c # NoBlock
      BY <3>1, <3>3 DEF Located
    <3>5. DisconnectUtxo(b, Unspent(b), Located(b))[t] = nHeight[c]
      BY <2>2, <3>3, <3>4 DEF DisconnectUtxo
    <3>6. Unspent(pprev[b])[t] = nHeight[c]
      BY <3>1, <3>3 DEF Unspent
    <3> QED BY <2>2, <3>1, <3>5, <3>6 DEF DisconnectTxIndex, Located
  <2>3. CASE t \notin TxsOf(b) /\ ~Spends(b, t)
    <3>1. MakerIn(b, t) = MakerIn(pprev[b], t) /\ (SpentIn(b, t) <=> SpentIn(pprev[b], t))
      BY <2>3, OneMoreBlock
    <3> QED BY <2>3, <3>1 DEF DisconnectUtxo, DisconnectTxIndex, Unspent, Located
  <2> QED BY <2>1, <2>2, <2>3
<1> QED BY <1>1 DEF DisconnectUtxo, DisconnectTxIndex, Unspent, Located

-----------------------------------------------------------------------------
(* The chains in hand                                                      *)

\* A chain without stubs that ends in the index is in the index.
LEMMA WalkDown ==
    ASSUME NEW index, NEW st, \A c \in index \ (st \cup {Genesis}) : pprev[c] \in index,
           NEW b \in Block, b \in index, chain[b] \cap st = {}
    PROVE  chain[b] \subseteq index
<1> DEFINE S == {x \in Block : x \in index /\ chain[x] \cap st = {} => chain[x] \subseteq index}
<1>1. Genesis \in S
  BY BlockTree
<1>2. ASSUME NEW x \in Block \ {Genesis}, pprev[x] \in S PROVE x \in S
  <2> SUFFICES ASSUME x \in index, chain[x] \cap st = {} PROVE chain[x] \subseteq index
    OBVIOUS
  <2>1. x \notin st /\ chain[x] = chain[pprev[x]] \cup {x}
    BY ChainEnds, BlockTree
  <2>2. pprev[x] \in index
    BY <2>1
  <2> QED BY <1>2, <2>1, <2>2
<1>3. \A x \in Block : x \in S
  <2> HIDE DEF S
  <2>1. S \subseteq Block  BY DEF S
  <2> QED BY <1>1, <1>2, <2>1, TreeInduction
<1> QED BY <1>3

\* SetBestChain starts at the best block, towards a chain that is in the index.
LEMMA SetBestChainHands ==
    ASSUME TypeOK, NEW b \in Block, NEW v, NEW ret \in {"idle", "startup"},
           SetBestChain(b, v, ret),
           NEW index, \A c \in index \ (stubs \cup {Genesis}) : pprev[c] \in index,
           b \in index, chain[hashBestChain] \subseteq index
    PROVE  pc' \in Busy => /\ op'.at = hashBestChain
                           /\ op'.inter \in chain[op'.new]
                           /\ chain[op'.new] \subseteq index
<1> hashBestChain \in Block
  BY DEF TypeOK
<1>1. CASE b # Genesis /\ pprev[b] = hashBestChain
  <2>1. op'.at = hashBestChain /\ op'.new = b /\ op'.inter = b
    BY <1>1 DEF SetBestChain
  <2>2. chain[b] = chain[hashBestChain] \cup {b}
    BY <1>1, BlockTree
  <2> QED BY <2>1, <2>2
<1>2. CASE ~(b # Genesis /\ pprev[b] = hashBestChain) /\ ReorganizeRefused(b)
  BY <1>2 DEF SetBestChain, Busy
<1>3. CASE ~(b # Genesis /\ pprev[b] = hashBestChain) /\ ~ReorganizeRefused(b)
  <2>1. op'.at = hashBestChain /\ op'.new = b /\ op'.inter = Intermediate(b)
    BY <1>3 DEF SetBestChain
  <2>2. chain[b] \subseteq index
    BY <1>3, WalkDown DEF ReorganizeRefused
  <2> QED BY <2>1, <2>2, IntermediateExists
<1> QED BY <1>1, <1>2, <1>3

\* Accepting a block.
LEMMA AcceptHands ==
    ASSUME ChainInv, NEW b \in Block, AcceptSideBlock(b) \/ AcceptBestBlock(b)
    PROVE  /\ IndexClosed'
           /\ "split" \notin scars' => TipInv' /\ StoredInv'
           /\ HonestInv /\ "split" \notin scars' => UtxoInv'
<1> /\ pc = "idle" /\ AddToBlockIndex(b) /\ Acceptable(b) /\ disk \in Database
    /\ TypeOK /\ IndexClosed /\ ~wrote /\ view.utxo = disk.utxo
  BY DEF AcceptSideBlock, AcceptBestBlock, ChainInv, IInv, TypeOK, CacheInv
<1>1. /\ mapBlockIndex' = mapBlockIndex \cup {b} /\ stubs' = stubs
      /\ hashBestChain' = hashBestChain /\ scars' = scars
  BY DEF AddToBlockIndex
<1>2. b # Genesis /\ pprev[b] \in mapBlockIndex
  BY DEF Acceptable
<1>3. IndexClosed'
  BY <1>1, <1>2 DEF IndexClosed
<1>4. /\ WithIndex(b).utxo = disk.utxo /\ WithIndex(b).txindex = disk.txindex
      /\ WithIndex(b).index = disk.index \cup {b} /\ WithIndex(b).best = disk.best
      /\ WithIndex(b) \in Database
  BY WithIndexType
<1>5. ASSUME "split" \notin scars PROVE TipInv' /\ StoredInv' /\ (HonestInv => UtxoInv')
  <2>1. /\ hashBestChain = disk.best /\ chain[disk.best] \subseteq disk.index
        /\ chain[hashBestChain] \subseteq mapBlockIndex'
        /\ HonestInv => disk.utxo = Unspent(disk.best) /\ disk.txindex = Located(disk.best)
    BY <1>1, <1>5 DEF ChainInv, TipInv, StoredInv, HonestInv, UtxoInv
  <2>2. CASE AcceptSideBlock(b)
    <3>1. /\ disk' \in {WithIndex(b), disk} /\ view' = disk' /\ pc' = "idle"
      BY <2>2 DEF AcceptSideBlock
    <3>2. Cursor' = disk.best /\ disk'.best = disk.best
      BY <1>4, <3>1 DEF Cursor, Busy
    <3>3. /\ disk.index \subseteq disk'.index
          /\ disk'.utxo = disk.utxo /\ disk'.txindex = disk.txindex
      BY <1>4, <3>1
    <3>4. TipInv'
      BY <1>1, <2>1, <3>1, <3>2 DEF TipInv, Busy
    <3>5. StoredInv'
      BY <1>1, <2>1, <3>1, <3>2, <3>3 DEF StoredInv, Busy
    <3>6. HonestInv => UtxoInv'
      BY <2>1, <3>1, <3>2, <3>3 DEF UtxoInv, Unspent, Located, MakerIn, SpentIn
    <3> QED BY <3>4, <3>5, <3>6
  <2>3. CASE AcceptBestBlock(b)
    <3>1. disk' = disk /\ SetBestChain(b, WithIndex(b), "idle")
      BY <2>3 DEF AcceptBestBlock
    <3>2. /\ pc' \in {"extend", "disconnect", "connect", "idle"}
          /\ view' \in {WithIndex(b), disk}
      BY <1>4, <3>1, SetBestChainStarts
    <3>3. pc' \in Busy => /\ op'.at = hashBestChain
                          /\ op'.inter \in chain[op'.new]
                          /\ chain[op'.new] \subseteq mapBlockIndex'
      BY <1>1, <1>3, <2>1, <3>1, SetBestChainHands DEF IndexClosed
    <3>4. Cursor' = disk.best
      BY <2>1, <3>1, <3>3 DEF Cursor
    <3>5. TipInv'
      BY <1>1, <2>1, <3>1, <3>2, <3>3, ChainEnds DEF TipInv, Busy, TypeOK
    <3>6. StoredInv'
      BY <1>1, <1>4, <2>1, <3>1, <3>2, <3>3, <3>4 DEF StoredInv
    <3>7. HonestInv => UtxoInv'
      BY <1>4, <2>1, <3>1, <3>2, <3>4 DEF UtxoInv, Unspent, Located, MakerIn, SpentIn
    <3> QED BY <3>5, <3>6, <3>7
  <2> QED BY <2>2, <2>3
<1> QED BY <1>1, <1>3, <1>5

\* Steps that leave database, index and tip alone and have nothing under way.
LEMMA QuietHands ==
    ASSUME ChainInv, pc \notin Busy, pc' \notin Busy,
           UNCHANGED <<mapBlockIndex, stubs, hashBestChain, disk, scars>>, view' = view \/ view' = disk
    PROVE  /\ IndexClosed'
           /\ "split" \notin scars' => TipInv' /\ StoredInv'
           /\ HonestInv /\ "split" \notin scars' => UtxoInv'
<1>1. IndexClosed'
  BY DEF ChainInv, IndexClosed
<1>2. Cursor' = disk.best /\ Cursor = disk.best
  BY DEF Cursor
<1>3. "split" \notin scars' => TipInv' /\ StoredInv'
  BY <1>2 DEF ChainInv, TipInv, StoredInv, Busy
<1>4. HonestInv /\ "split" \notin scars' => UtxoInv'
  BY <1>2 DEF HonestInv, UtxoInv
<1> QED BY <1>1, <1>3, <1>4

\* A crash, and LoadBlockIndex.
LEMMA StartupHands ==
    ASSUME ChainInv,
           \/ Restart \/ LoadNoBetterTip \/ SetHardenedCheckpoint
           \/ \E b \in Block : LoadBetterTip(b)
    PROVE  /\ IndexClosed'
           /\ "split" \notin scars' => TipInv' /\ StoredInv'
           /\ HonestInv /\ "split" \notin scars' => UtxoInv'
<1> TypeOK /\ disk \in Database
  BY DEF ChainInv, IInv, TypeOK
<1>1. CASE Restart
  <2> DEFINE parents == {pprev[b] : b \in disk.index \ {Genesis}}
  <2>1. /\ mapBlockIndex' = disk.index \cup parents /\ stubs' = parents \ disk.index
        /\ hashBestChain' = disk.best /\ view' = disk /\ disk' = disk /\ scars' = scars
        /\ pc' = "load"
    BY <1>1 DEF Restart
  <2>2. IndexClosed'
    BY <2>1 DEF IndexClosed
  <2>3. Cursor' = disk.best
    BY <2>1 DEF Cursor, Busy
  <2>4. "split" \notin scars' => TipInv' /\ StoredInv'
    BY <2>1, <2>3 DEF ChainInv, TipInv, StoredInv, Busy
  <2>5. HonestInv /\ "split" \notin scars' => UtxoInv'
    BY <2>1, <2>3 DEF HonestInv, UtxoInv
  <2> QED BY <2>2, <2>4, <2>5
<1>2. CASE LoadNoBetterTip
  BY <1>2, QuietHands DEF LoadNoBetterTip, memory, Busy
<1>3. CASE SetHardenedCheckpoint
  BY <1>3, QuietHands DEF SetHardenedCheckpoint, Busy
<1>4. ASSUME NEW b \in Block, LoadBetterTip(b)
      PROVE  /\ IndexClosed'
             /\ "split" \notin scars' => TipInv' /\ StoredInv'
             /\ HonestInv /\ "split" \notin scars' => UtxoInv'
  <2>1. /\ pc = "load" /\ SetBestChain(b, disk, "startup") /\ b \in mapBlockIndex
        /\ UNCHANGED <<mapBlockIndex, stubs, hashBestChain, disk, scars>>
    BY <1>4 DEF LoadBetterTip, BetterTips, memory
  <2>2. IndexClosed'
    BY <2>1 DEF ChainInv, IndexClosed
  <2>3. pc' \in {"extend", "disconnect", "connect", "startup"} /\ view' = disk
    BY <2>1, SetBestChainStarts
  <2>4. ASSUME "split" \notin scars PROVE TipInv' /\ StoredInv' /\ (HonestInv => UtxoInv')
    <3>1. /\ hashBestChain = disk.best /\ chain[disk.best] \subseteq disk.index
          /\ chain[hashBestChain] \subseteq mapBlockIndex
      BY <2>1, <2>4 DEF ChainInv, TipInv, StoredInv
    <3>2. pc' \in Busy => /\ op'.at = hashBestChain
                          /\ op'.inter \in chain[op'.new]
                          /\ chain[op'.new] \subseteq mapBlockIndex
      BY <2>1, <3>1, SetBestChainHands DEF ChainInv, IndexClosed
    <3>3. Cursor' = disk.best
      BY <2>1, <3>1, <3>2 DEF Cursor
    <3>4. TipInv'
      BY <2>1, <2>3, <3>1, <3>2, ChainEnds DEF TipInv, Busy, TypeOK
    <3>5. StoredInv'
      BY <2>1, <2>3, <3>1, <3>2, <3>3 DEF StoredInv
    <3>6. HonestInv => UtxoInv'
      BY <2>1, <2>3, <2>4, <3>3 DEF HonestInv, UtxoInv
    <3> QED BY <3>4, <3>5, <3>6
  <2> QED BY <2>1, <2>2, <2>4
<1> QED BY <1>1, <1>2, <1>3, <1>4

\* The way out of SetBestChain after a failure: the database is as it was.
LEMMA DropHands ==
    ASSUME ChainInv, pc \in Busy \ {"secondary"}, pc' \notin Busy,
           UNCHANGED <<mapBlockIndex, stubs, hashBestChain, disk>>, view' = disk,
           "split" \notin scars' => "split" \notin scars
    PROVE  /\ IndexClosed'
           /\ "split" \notin scars' => TipInv' /\ StoredInv'
           /\ HonestInv /\ "split" \notin scars' => UtxoInv'
<1>1. IndexClosed'
  BY DEF ChainInv, IndexClosed
<1>2. Cursor' = disk.best
  BY DEF Cursor
<1>3. "split" \notin scars' => TipInv' /\ StoredInv'
  BY <1>2 DEF ChainInv, TipInv, StoredInv, Busy
<1>4. HonestInv /\ "split" \notin scars' => UtxoInv'
  BY <1>2 DEF HonestInv, UtxoInv
<1> QED BY <1>1, <1>3, <1>4

\* Connecting a block on the chain in hand.
LEMMA ConnectedHands ==
    ASSUME ChainInv, "split" \notin scars, pc \in Busy,
           NEW x \in Block \ {Genesis}, pprev[x] = op.at
    PROVE  /\ chain[x] \subseteq Connected(x).index
           /\ HonestInv /\ HonestTree => /\ Connected(x).utxo = Unspent(x)
                                         /\ Connected(x).txindex = Located(x)
<1>1. Cursor = pprev[x] /\ chain[x] = chain[pprev[x]] \cup {x}
  BY BlockTree DEF Cursor
<1>2. /\ Connected(x).index = view.index \cup {x, pprev[x]}
      /\ Connected(x).utxo = ConnectUtxo(x, view.utxo)
      /\ Connected(x).txindex = ConnectTxIndex(x, view.txindex)
  BY DEF Connected
<1>3. chain[x] \subseteq Connected(x).index
  BY <1>1, <1>2 DEF ChainInv, StoredInv
<1>4. ASSUME HonestInv, HonestTree
      PROVE  Connected(x).utxo = Unspent(x) /\ Connected(x).txindex = Located(x)
  <2>1. view.utxo = Unspent(pprev[x]) /\ view.txindex = Located(pprev[x])
    BY <1>1, <1>4 DEF HonestInv, UtxoInv
  <2> QED BY <1>2, <1>4, <2>1, ConnectIsUnspent
<1> QED BY <1>3, <1>4

\* SetBestChain on a block whose parent is the best block.
LEMMA ExtendHands ==
    ASSUME ChainInv, Extend \/ ExtendFails \/ ExtendCommitFails
    PROVE  /\ IndexClosed'
           /\ "split" \notin scars' => TipInv' /\ StoredInv'
           /\ HonestTree /\ HonestInv /\ "split" \notin scars' => UtxoInv'
<1> /\ pc = "extend" /\ op.new \in Block \ {Genesis} /\ pprev[op.new] = op.at
    /\ view \in Database /\ op.ret \in {"idle", "startup"}
  BY DEF Extend, ExtendFails, ExtendCommitFails, ChainInv, IInv, OpInv, TypeOK, Busy
<1>1. CASE Extend
  <2> DEFINE b == op.new
  <2>1. /\ view' = WithBest(Connected(b), b) /\ disk' = view' /\ hashBestChain' = b
        /\ UNCHANGED <<mapBlockIndex, stubs, scars>> /\ pc' \in {"idle", "startup"}
    BY <1>1 DEF Extend, ConnectAndCommit, NewBestBlock
  <2>2. /\ disk'.best = b /\ disk'.index = Connected(b).index
        /\ disk'.utxo = Connected(b).utxo /\ disk'.txindex = Connected(b).txindex
    BY <2>1, ConnectedType, WithBestType
  <2>3. IndexClosed'
    BY <2>1 DEF ChainInv, IndexClosed
  <2>4. Cursor' = b
    BY <2>1, <2>2 DEF Cursor, Busy
  <2>5. ASSUME "split" \notin scars
        PROVE  TipInv' /\ StoredInv' /\ (HonestTree /\ HonestInv => UtxoInv')
    <3>1. chain[b] \subseteq mapBlockIndex
      BY <2>5 DEF ChainInv, StoredInv, Busy
    <3>2. TipInv'
      BY <2>1, <2>2 DEF TipInv, Busy
    <3>3. StoredInv'
      BY <2>1, <2>2, <2>4, <2>5, <3>1, ConnectedHands DEF StoredInv, Busy
    <3>4. HonestTree /\ HonestInv => UtxoInv'
      BY <2>1, <2>2, <2>4, <2>5, ConnectedHands DEF UtxoInv, Busy
    <3> QED BY <3>2, <3>3, <3>4
  <2> QED BY <2>1, <2>3, <2>5
<1>2. CASE ExtendFails
  BY <1>2, DropHands DEF ExtendFails, Abort, memory, Busy
<1>3. CASE ExtendCommitFails
  BY <1>3, DropHands DEF ExtendCommitFails, ConnectAndLose, Busy
<1> QED BY <1>1, <1>2, <1>3

\* Reorganize up to its commit.
LEMMA ReorganizeHands ==
    ASSUME ChainInv,
           DisconnectBlock \/ ConnectBlock \/ ConnectBlockFails \/ ReorganizeIoError
    PROVE  /\ IndexClosed'
           /\ "split" \notin scars' => TipInv' /\ StoredInv'
           /\ HonestTree /\ HonestInv /\ "split" \notin scars' => UtxoInv'
<1> /\ pc \in {"disconnect", "connect"} /\ op.ret \in {"idle", "startup"} /\ op \in OpType
    /\ op.at \in Block /\ op.inter \in Block /\ op.new \in Block
    /\ view \in Database /\ hashBestChain \in Block
  BY DEF DisconnectBlock, ConnectBlock, ConnectBlockFails, ReorganizeIoError,
         ChainInv, IInv, OpInv, TypeOK, OpType, Busy
<1>1. CASE DisconnectBlock
  <2> DEFINE b == op.at
  <2>1. b \in Block \ {Genesis}
    BY <1>1, BlockTree DEF DisconnectBlock, ChainInv, IInv, OpInv
  <2>2. /\ view' = Disconnected(b) /\ op' = [op EXCEPT !.at = pprev[b]]
        /\ pc = "disconnect" /\ pc' \in {"connect", "disconnect"}
        /\ UNCHANGED <<mapBlockIndex, stubs, hashBestChain, disk, scars>>
    BY <1>1 DEF DisconnectBlock
  <2>3. op'.at = pprev[b] /\ op'.new = op.new /\ op'.inter = op.inter
    BY <2>2 DEF OpType
  <2>4. /\ view'.index = view.index \cup {pprev[b]}
        /\ view'.utxo = DisconnectUtxo(b, view.utxo, view.txindex)
        /\ view'.txindex = DisconnectTxIndex(b, view.txindex)
    BY <2>2 DEF Disconnected
  <2>5. IndexClosed'
    BY <2>2 DEF ChainInv, IndexClosed
  <2>6. Cursor' = pprev[b] /\ Cursor = b
    BY <2>2, <2>3 DEF Cursor, Busy
  <2>7. chain[b] = chain[pprev[b]] \cup {b} /\ pprev[b] \in chain[b]
    BY <2>1, BlockTree, ChainEnds
  <2>8. ASSUME "split" \notin scars
        PROVE  TipInv' /\ StoredInv' /\ (HonestTree /\ HonestInv => UtxoInv')
    <3>1. b \in chain[hashBestChain] /\ chain[b] \subseteq chain[hashBestChain]
      BY <2>2, <2>8, ChainTransitive DEF ChainInv, TipInv
    <3>2. chain[b] \subseteq mapBlockIndex
      BY <2>8, <3>1 DEF ChainInv, StoredInv
    <3>3. TipInv'
      BY <2>2, <2>3, <2>7, <2>8, <3>1 DEF ChainInv, TipInv, Busy
    <3>4. StoredInv'
      BY <2>2, <2>3, <2>4, <2>6, <2>7, <2>8 DEF ChainInv, StoredInv, Busy
    <3>5. ASSUME HonestTree, HonestInv PROVE UtxoInv'
      <4>1. view.utxo = Unspent(b) /\ view.txindex = Located(b)
        BY <2>6, <2>8, <3>5 DEF HonestInv, UtxoInv
      <4>2. view'.utxo = Unspent(pprev[b]) /\ view'.txindex = Located(pprev[b])
        BY <2>1, <2>4, <3>2, <3>5, <4>1, DisconnectIsUnspent
      <4> QED BY <2>2, <2>6, <2>8, <3>5, <4>2 DEF HonestInv, UtxoInv
    <3> QED BY <3>3, <3>4, <3>5
  <2> QED BY <2>2, <2>5, <2>8
<1>2. CASE ConnectBlock
  <2>1. PICK x \in NextTo(op.inter) : view' = Connected(x) /\ op' = [op EXCEPT !.at = x]
    BY <1>2 DEF ConnectBlock
  <2>2. x \in Block \ {Genesis} /\ pprev[x] = op.at
    BY NextToType DEF NextTo
  <2>3. /\ pc = "connect" /\ pc' = "connect"
        /\ UNCHANGED <<mapBlockIndex, stubs, hashBestChain, disk, scars>>
    BY <1>2 DEF ConnectBlock
  <2>4. op'.at = x /\ op'.new = op.new /\ op'.inter = op.inter
    BY <2>1 DEF OpType
  <2>5. IndexClosed'
    BY <2>3 DEF ChainInv, IndexClosed
  <2>6. Cursor' = x
    BY <2>3, <2>4 DEF Cursor, Busy
  <2>7. ASSUME "split" \notin scars
        PROVE  TipInv' /\ StoredInv' /\ (HonestTree /\ HonestInv => UtxoInv')
    <3>1. TipInv'
      BY <2>3, <2>4, <2>7 DEF ChainInv, TipInv, Busy
    <3>2. chain[x] \subseteq view'.index
      BY <2>1, <2>2, <2>3, <2>7, ConnectedHands DEF Busy
    <3>3. StoredInv'
      BY <2>3, <2>4, <2>6, <2>7, <3>2 DEF ChainInv, StoredInv, Busy
    <3>4. ASSUME HonestTree, HonestInv PROVE UtxoInv'
      <4>1. view'.utxo = Unspent(x) /\ view'.txindex = Located(x)
        BY <2>1, <2>2, <2>3, <2>7, <3>4, ConnectedHands DEF Busy
      <4> QED BY <2>3, <2>6, <2>7, <3>4, <4>1 DEF HonestInv, UtxoInv
    <3> QED BY <3>1, <3>3, <3>4
  <2> QED BY <2>3, <2>5, <2>7
<1>3. CASE ConnectBlockFails
  BY <1>3, DropHands DEF ConnectBlockFails, Abort, memory, Busy
<1>4. CASE ReorganizeIoError
  BY <1>4, DropHands DEF ReorganizeIoError, Abort, memory, Busy
<1> QED BY <1>1, <1>2, <1>3, <1>4

\* Reorganize commits.
LEMMA CommitHands ==
    ASSUME ChainInv, CommitReorganize
    PROVE  /\ IndexClosed'
           /\ "split" \notin scars' => TipInv' /\ StoredInv'
           /\ HonestTree /\ HonestInv /\ "split" \notin scars' => UtxoInv'
<1> /\ pc = "connect" /\ op.at = op.inter /\ op.ret \in {"idle", "startup"}
    /\ op.at \in Block /\ op.inter \in Block /\ op.new \in Block
    /\ view \in Database
  BY DEF CommitReorganize, ChainInv, IInv, OpInv, TypeOK, Busy
<1>1. /\ view' = WithBest(view, op.inter) /\ disk' = view'
      /\ UNCHANGED <<mapBlockIndex, stubs, scars>>
  BY DEF CommitReorganize
<1>2. /\ disk'.best = op.inter /\ disk'.index = view.index
      /\ disk'.utxo = view.utxo /\ disk'.txindex = view.txindex
  BY <1>1, WithBestType
<1>3. \/ op.inter = op.new /\ hashBestChain' = op.new /\ pc' \in {"idle", "startup"}
      \/ pc' = "secondary" /\ hashBestChain' = hashBestChain /\ op' = op
  BY DEF CommitReorganize, NewBestBlock
<1>4. IndexClosed'
  BY <1>1 DEF ChainInv, IndexClosed
<1>5. Cursor' = op.inter /\ Cursor = op.inter
  BY <1>2, <1>3 DEF Cursor, Busy
<1>6. ASSUME "split" \notin scars
      PROVE  TipInv' /\ StoredInv' /\ (HonestTree /\ HonestInv => UtxoInv')
  <2>1. /\ op.inter \in chain[op.new] /\ chain[op.inter] \subseteq view.index
        /\ chain[op.new] \subseteq mapBlockIndex /\ chain[hashBestChain] \subseteq mapBlockIndex
    BY <1>5, <1>6 DEF ChainInv, TipInv, StoredInv, Busy
  <2>2. TipInv'
    BY <1>2, <1>3, <2>1 DEF TipInv, Busy
  <2>3. StoredInv'
    BY <1>1, <1>2, <1>3, <1>5, <2>1 DEF StoredInv, Busy
  <2>4. HonestTree /\ HonestInv => UtxoInv'
    BY <1>1, <1>2, <1>5, <1>6 DEF HonestInv, UtxoInv
  <2> QED BY <2>2, <2>3, <2>4
<1> QED BY <1>1, <1>4, <1>6

\* The postponed connects: a failure is the "split".
LEMMA SecondaryHands ==
    ASSUME ChainInv, ConnectSecondary \/ SecondaryFails \/ SecondaryCommitFails
    PROVE  /\ IndexClosed'
           /\ "split" \notin scars' => TipInv' /\ StoredInv'
           /\ HonestTree /\ HonestInv /\ "split" \notin scars' => UtxoInv'
<1> /\ pc = "secondary" /\ op.ret \in {"idle", "startup"} /\ op \in OpType
    /\ op.new \in Block /\ view \in Database
  BY DEF ConnectSecondary, SecondaryFails, SecondaryCommitFails,
         ChainInv, IInv, OpInv, TypeOK, OpType, Busy
<1>1. CASE ConnectSecondary
  <2>1. PICK x \in NextTo(op.new) :
          /\ ConnectAndCommit(x)
          /\ IF x = op.new
             THEN NewBestBlock(op.new)
             ELSE /\ op' = [op EXCEPT !.at = x]
                  /\ UNCHANGED <<hashBestChain, nAssumeValidThreshold, pc>>
    BY <1>1 DEF ConnectSecondary
  <2>2. x \in Block \ {Genesis} /\ pprev[x] = op.at
    BY NextToType DEF NextTo
  <2>3. /\ view' = WithBest(Connected(x), x) /\ disk' = view'
        /\ UNCHANGED <<mapBlockIndex, stubs, scars>>
    BY <1>1, <2>1 DEF ConnectAndCommit, ConnectSecondary
  <2>4. /\ disk'.best = x /\ disk'.index = Connected(x).index
        /\ disk'.utxo = Connected(x).utxo /\ disk'.txindex = Connected(x).txindex
    BY <2>2, <2>3, ConnectedType, WithBestType
  <2>5. \/ x = op.new /\ hashBestChain' = op.new /\ pc' \in {"idle", "startup"}
        \/ /\ pc' = "secondary" /\ hashBestChain' = hashBestChain
           /\ op'.at = x /\ op'.new = op.new /\ op'.inter = op.inter
    BY <2>1 DEF NewBestBlock, OpType
  <2>6. IndexClosed'
    BY <2>3 DEF ChainInv, IndexClosed
  <2>7. Cursor' = x
    BY <2>4, <2>5 DEF Cursor, Busy
  <2>8. ASSUME "split" \notin scars
        PROVE  TipInv' /\ StoredInv' /\ (HonestTree /\ HonestInv => UtxoInv')
    <3>1. /\ op.inter \in chain[op.new]
          /\ chain[op.new] \subseteq mapBlockIndex /\ chain[hashBestChain] \subseteq mapBlockIndex
      BY <2>8 DEF ChainInv, TipInv, StoredInv, Busy
    <3>2. TipInv'
      BY <2>4, <2>5, <3>1 DEF TipInv, Busy
    <3>3. chain[x] \subseteq disk'.index
      BY <2>2, <2>4, <2>8, ConnectedHands DEF Busy
    <3>4. StoredInv'
      BY <2>3, <2>4, <2>5, <2>7, <3>1, <3>3 DEF StoredInv, Busy
    <3>5. HonestTree /\ HonestInv => UtxoInv'
      BY <2>2, <2>3, <2>4, <2>7, <2>8, ConnectedHands DEF UtxoInv, Busy
    <3> QED BY <3>2, <3>4, <3>5
  <2> QED BY <2>3, <2>6, <2>8
<1>2. CASE SecondaryFails \/ SecondaryCommitFails
  <2>1. "split" \in scars' /\ UNCHANGED <<mapBlockIndex, stubs>>
    BY <1>2 DEF SecondaryFails, SecondaryCommitFails, ConnectAndLose
  <2> QED BY <2>1 DEF ChainInv, IndexClosed
<1> QED BY <1>1, <1>2

-----------------------------------------------------------------------------

\* A new node knows the chain it starts with.
LEMMA ChainInvInit == Init => ChainInv /\ (HonestTree => HonestInv)
<1> SUFFICES ASSUME Init PROVE ChainInv /\ (HonestTree => HonestInv)
  OBVIOUS
<1>1. IInv
  BY IInvInit
<1>2. IndexClosed /\ TipInv /\ StoredInv
  BY BlockTree DEF Init, IndexClosed, TipInv, StoredInv, Cursor, Busy
<1>3. ASSUME HonestTree PROVE UtxoInv
  <2>1. Cursor = Genesis /\ disk.best = Genesis /\ view = disk
    BY DEF Init, Cursor, Busy
  <2>2. \A t \in Tx : MakerIn(Genesis, t) = {} /\ ~SpentIn(Genesis, t)
    BY BlockTree, Transactions DEF MakerIn, SpentIn, Spends, TxsOf
  <2>3. disk.utxo = Unspent(Genesis)
    BY <1>3, <2>2 DEF Init, Unspent, HonestTree
  <2>4. disk.txindex = Located(Genesis)
    BY <2>2 DEF Init, Located
  <2> QED BY <2>1, <2>3, <2>4 DEF UtxoInv
<1> QED BY <1>1, <1>2, <1>3 DEF ChainInv, HonestInv

\* Every step keeps what is known of the chains in hand.
LEMMA ChainInvStep ==
    ASSUME ChainInv, [Next]_vars
    PROVE  ChainInv' /\ (HonestTree /\ HonestInv => HonestInv')
<1> DEFINE Goal == /\ IndexClosed'
                   /\ "split" \notin scars' => TipInv' /\ StoredInv'
                   /\ HonestTree /\ HonestInv /\ "split" \notin scars' => UtxoInv'
<1> IInv'
  BY IInvStep DEF ChainInv
<1> SUFFICES Goal
  BY DEF ChainInv, HonestInv
<1>1. ASSUME NEW b \in Block, AcceptSideBlock(b) \/ AcceptBestBlock(b) PROVE Goal
  BY <1>1, AcceptHands
<1>2. ASSUME NEW t \in Tx, AcceptToMemoryPool(t) PROVE Goal
  BY <1>2, QuietHands DEF AcceptToMemoryPool, Busy
<1>3. CASE Extend \/ ExtendFails \/ ExtendCommitFails
  BY <1>3, ExtendHands
<1>4. CASE DisconnectBlock \/ ConnectBlock \/ ConnectBlockFails \/ ReorganizeIoError
  BY <1>4, ReorganizeHands
<1>5. CASE CommitReorganize
  BY <1>5, CommitHands
<1>6. CASE ConnectSecondary \/ SecondaryFails \/ SecondaryCommitFails
  BY <1>6, SecondaryHands
<1>7. CASE Restart \/ LoadNoBetterTip \/ SetHardenedCheckpoint \/ \E b \in Block : LoadBetterTip(b)
  BY <1>7, StartupHands
<1>8. CASE UNCHANGED vars
  <2>1. Cursor' = Cursor
    BY <1>8 DEF vars, memory, Cursor
  <2> QED BY <1>8, <2>1 DEF vars, memory, ChainInv, HonestInv, IndexClosed, TipInv, StoredInv, UtxoInv
<1> HIDE DEF Goal
<1> QED BY <1>1, <1>2, <1>3, <1>4, <1>5, <1>6, <1>7, <1>8 DEF Next, SetBestChainStep

\* ChainInv is an invariant of the node.
THEOREM ChainInductive == Spec => []ChainInv
  BY ChainInvInit, ChainInvStep, PTL DEF Spec

\* For every block tree: until a postponed connect fails, LoadBlockIndex finds
\* the best block of the database and all its ancestors in the database.
THEOREM BestChainIsStored == Spec => []BestChainStored
<1>1. ChainInv => BestChainStored
  BY DEF ChainInv, StoredInv, BestChainStored
<1> QED BY <1>1, ChainInductive, PTL

\* For every block tree: until a postponed connect fails, the node between two
\* operations works on the chain that its database holds.
THEOREM TipIsOnDisk == Spec => []TipOnDisk
<1>1. ChainInv => TipOnDisk
  BY DEF ChainInv, TipInv, TipOnDisk
<1> QED BY <1>1, ChainInductive, PTL

\* For every tree whose chains are well formed: until a postponed connect
\* fails, the UTXO set and the transaction index on disk are exactly those of
\* the stored best chain, after any reorganization, abort, failed commit or crash.
THEOREM UtxoIsExact ==
    ASSUME HonestTree
    PROVE  Spec => []UtxoIsUnspent
<1>1. Init => HonestInv
  BY ChainInvInit
<1>2. HonestInv /\ [Next]_vars => HonestInv'
  BY ChainInvStep DEF HonestInv
<1>3. HonestInv => UtxoIsUnspent
  BY DEF HonestInv, UtxoInv, UtxoIsUnspent
<1> QED BY <1>1, <1>2, <1>3, PTL DEF Spec

=============================================================================
