-------------------------- MODULE ChainValidProofs --------------------------
(***************************************************************************)
(* Invalid blocks.  Peers may send any blocks; for every tree in which the *)
(* shortcuts of ConnectBlock let no invalid block through (PlainTree), the *)
(* stored best chain is valid (BestChainValid) and has the greatest trust  *)
(* among the valid chains that the checkpoints admit (GreatestTrustWins).  *)
(***************************************************************************)
EXTENDS ChainRefinementProofs

-----------------------------------------------------------------------------
(* Checkpoints                                                             *)

\* LastCheckpointHeight is the height of the last checkpoint.
LEMMA CheckpointHeights ==
    /\ LastCheckpointHeight \in Nat
    /\ \A c \in Checkpoint : c \in Block /\ nHeight[c] \in Nat /\ nHeight[c] <= LastCheckpointHeight
<1> DEFINE S == {nHeight[c] : c \in Checkpoint}
<1>1. \E x \in S : \A y \in S : y <= x
  BY LastCheckpoint
<1>2. MaxOf(S) \in S /\ \A y \in S : y <= MaxOf(S)
  BY <1>1 DEF MaxOf
<1> QED BY <1>2, BlockTree DEF LastCheckpointHeight

\* A nonempty set of checkpoints has a highest one.
LEMMA HighestCheckpoint ==
    ASSUME NEW S, S \subseteq Checkpoint, S # {}
    PROVE  \E x \in S : \A y \in S : nHeight[y] <= nHeight[x]
<1> DEFINE H == {LastCheckpointHeight - nHeight[b] : b \in S}
           R == OpToRel(<, Nat)
<1>1. H \subseteq Nat /\ H # {}
  BY CheckpointHeights
<1>2. IsWellFoundedOn(R, Nat)
  BY NatLessThanWellFounded
<1>3. PICK h \in H : \A k \in H : ~(<<k, h>> \in R)
  <2> HIDE DEF R, H
  <2> QED BY <1>1, <1>2, WFMin
<1>4. \A k \in H : h <= k
  <2>1. \A k \in H : k \in Nat /\ h \in Nat /\ ~(k < h)
    BY <1>1, <1>3 DEF OpToRel
  <2> QED BY <2>1
<1>5. PICK x \in S : h = LastCheckpointHeight - nHeight[x]
  BY <1>3
<1>6. ASSUME NEW y \in S PROVE nHeight[y] <= nHeight[x]
  <2>1. h <= LastCheckpointHeight - nHeight[y]
    BY <1>4
  <2>2. nHeight[x] \in Nat /\ nHeight[y] \in Nat /\ LastCheckpointHeight \in Nat
    BY CheckpointHeights
  <2> QED BY <1>5, <2>1, <2>2
<1> QED BY <1>6

\* GetLastCheckpoint finds the highest checkpoint of an index.
LEMMA LastCheckpointFound ==
    ASSUME NEW index, index \cap Checkpoint # {}
    PROVE  /\ GetLastCheckpoint(index) \in index \cap Checkpoint
           /\ \A d \in index \cap Checkpoint : nHeight[d] <= nHeight[GetLastCheckpoint(index)]
<1> DEFINE found == index \cap Checkpoint
           last == {c \in found : \A d \in found : nHeight[d] <= nHeight[c]}
<1>1. last # {}
  <2> HIDE DEF found
  <2>1. found \subseteq Checkpoint /\ found # {}
    BY DEF found
  <2> QED BY <2>1, HighestCheckpoint
<1>2. GetLastCheckpoint(index) = CHOOSE c \in last : TRUE
  BY <1>1 DEF GetLastCheckpoint
<1>3. GetLastCheckpoint(index) \in last
  <2> HIDE DEF last
  <2> QED BY <1>1, <1>2
<1> QED BY <1>3

-----------------------------------------------------------------------------
(* Valid blocks and the UTXO set                                           *)

\* Positions in a block are integers, transactions there are transactions.
LEMMA Positions ==
    ASSUME NEW b \in Block
    PROVE  /\ \A i \in DOMAIN vtx[b] : i \in Int /\ vtx[b][i] \in Tx /\ vtx[b][i] \in TxsOf(b)
           /\ \A i \in DOMAIN vtx[b] : vin[vtx[b][i]] \subseteq Tx
           /\ \A i, j \in DOMAIN vtx[b] : vtx[b][i] = vtx[b][j] => i = j
<1>1. vtx[b] \in Seq(Tx)
  BY Transactions
<1>2. \A i \in DOMAIN vtx[b] : i \in Int /\ vtx[b][i] \in Tx
  BY <1>1
<1>3. \A t \in Tx : vin[t] \subseteq Tx
  BY Transactions
<1>4. \A i, j \in DOMAIN vtx[b] : vtx[b][i] = vtx[b][j] => i = j
  BY Transactions
<1> QED BY <1>2, <1>3, <1>4 DEF TxsOf

\* On a chain the highest of a set of blocks is in the set.
LEMMA HighestOfMakers ==
    ASSUME NEW b \in Block, NEW t \in Tx, MakerIn(b, t) # {}
    PROVE  Highest(MakerIn(b, t)) \in MakerIn(b, t) /\ Highest(MakerIn(b, t)) \in Block
<1> DEFINE S == {x \in Block : \A u \in Tx : MakerIn(x, u) # {} =>
                    \E c \in MakerIn(x, u) : \A d \in MakerIn(x, u) : nHeight[d] <= nHeight[c]}
<1>1. Genesis \in S
  <2>1. \A u \in Tx : MakerIn(Genesis, u) = {}
    BY BlockTree, Transactions DEF MakerIn, TxsOf
  <2> QED BY <2>1, BlockTree
<1>2. ASSUME NEW x \in Block \ {Genesis}, pprev[x] \in S PROVE x \in S
  <2> SUFFICES ASSUME NEW u \in Tx, MakerIn(x, u) # {}
               PROVE  \E c \in MakerIn(x, u) : \A d \in MakerIn(x, u) : nHeight[d] <= nHeight[c]
    OBVIOUS
  <2>1. CASE u \in TxsOf(x)
    <3>1. x \in MakerIn(x, u)
      BY <2>1, ChainEnds DEF MakerIn
    <3>2. \A d \in MakerIn(x, u) : nHeight[d] <= nHeight[x]
      BY LowerOnChain DEF MakerIn
    <3> QED BY <3>1, <3>2
  <2>2. CASE u \notin TxsOf(x)
    <3>1. MakerIn(x, u) = MakerIn(pprev[x], u)
      BY <2>2, OneMoreBlock
    <3> QED BY <1>2, <3>1
  <2> QED BY <2>1, <2>2
<1>3. b \in S
  <2> HIDE DEF S
  <2>1. S \subseteq Block  BY DEF S
  <2> QED BY <1>1, <1>2, <2>1, TreeInduction
<1>4. \E c \in MakerIn(b, t) : \A d \in MakerIn(b, t) : nHeight[d] <= nHeight[c]
  BY <1>3
<1>5. Highest(MakerIn(b, t)) \in MakerIn(b, t)
  BY <1>4 DEF Highest
<1> QED BY <1>5, BlockTree DEF MakerIn

\* An output is unspent at a block exactly if its chain makes it and never
\* spends it; the entry is then a height.
LEMMA UnspentIs ==
    ASSUME SnapshotTx = {}, NEW b \in Block, NEW t \in Tx
    PROVE  /\ Unspent(b)[t] # Absent <=> MakerIn(b, t) # {} /\ ~SpentIn(b, t)
           /\ Unspent(b)[t] # Absent => Unspent(b)[t] = nHeight[Highest(MakerIn(b, t))]
           /\ Unspent(b)[t] \in Utxo
<1>1. ASSUME MakerIn(b, t) # {} PROVE nHeight[Highest(MakerIn(b, t))] \in Nat
  BY <1>1, HighestOfMakers, BlockTree
<1>2. Absent \notin Nat
  BY DEF Absent
<1> QED BY <1>1, <1>2 DEF Unspent, Utxo

\* The block itself is the highest maker of what it makes.
LEMMA HighestIsBlock ==
    ASSUME NEW b \in Block \ {Genesis}, NEW t \in TxsOf(b)
    PROVE  Highest(MakerIn(b, t)) = b
<1>1. t \in Tx /\ b \in MakerIn(b, t)
  BY TxsOfType, ChainEnds DEF MakerIn
<1>2. \A d \in MakerIn(b, t) : d = b \/ nHeight[d] < nHeight[b]
  <2>1. \A d \in MakerIn(b, t) : d = b \/ d \in chain[pprev[b]]
    BY ParentBelow DEF MakerIn
  <2>2. \A d \in chain[pprev[b]] : nHeight[d] <= nHeight[pprev[b]] /\ d \in Block
    BY ParentBelow, LowerOnChain
  <2>3. nHeight[b] = nHeight[pprev[b]] + 1 /\ nHeight[pprev[b]] \in Nat /\ \A d \in Block : nHeight[d] \in Nat
    BY ParentBelow, BlockTree
  <2> QED BY <2>1, <2>2, <2>3
<1>3. Highest(MakerIn(b, t)) \in MakerIn(b, t)
  BY <1>1, HighestOfMakers
<1>4. \A d \in MakerIn(b, t) : nHeight[d] <= nHeight[b]
  BY LowerOnChain DEF MakerIn
<1>5. nHeight[b] <= nHeight[Highest(MakerIn(b, t))]
  BY <1>1, <1>4 DEF Highest
<1>6. nHeight[Highest(MakerIn(b, t))] \in Nat /\ nHeight[b] \in Nat
  BY <1>1, HighestOfMakers, BlockTree
<1> QED BY <1>2, <1>3, <1>5, <1>6

\* What a valid block makes is new on its chain.
LEMMA ValidMakesNew ==
    ASSUME PlainTree, NEW b \in Block \ {Genesis}, Valid(b), NEW t \in TxsOf(b)
    PROVE  /\ t \in Tx /\ MakerIn(pprev[b], t) = {} /\ ~SpentIn(pprev[b], t)
           /\ Unspent(pprev[b])[t] = Absent
<1>1. t \in Tx /\ pprev[b] \in Block
  BY TxsOfType, BlockTree
<1>2. Unspent(pprev[b])[t] = Absent
  BY DEF Valid, TxsOf
<1>3. ~SpentIn(pprev[b], t) /\ SnapshotTx = {}
  BY DEF PlainTree
<1> QED BY <1>1, <1>2, <1>3, UnspentIs

\* What a valid block spends and does not make is unspent before it.
LEMMA ValidSpendsUnspent ==
    ASSUME PlainTree, NEW b \in Block \ {Genesis}, Valid(b), NEW t \in Tx, Spends(b, t),
           t \notin TxsOf(b)
    PROVE  MakerIn(pprev[b], t) # {} /\ ~SpentIn(pprev[b], t)
<1>1. PICK i \in DOMAIN vtx[b] : t \in vin[vtx[b][i]]
  BY DEF Spends
<1>2. ~Pending(b, i, t)
  BY DEF Pending, TxsOf
<1>3. Unspent(pprev[b])[t] # Absent
  BY <1>1, <1>2 DEF Valid
<1>4. SnapshotTx = {} /\ pprev[b] \in Block
  BY BlockTree DEF PlainTree
<1> QED BY <1>3, <1>4, UnspentIs

\* A valid block spends its own outputs after it made them, so what it spends
\* is spent when it is connected.
LEMMA ValidSpentStaysSpent ==
    ASSUME PlainTree, NEW b \in Block \ {Genesis}, Valid(b), NEW t \in Tx
    PROVE  EndsSpent(b, t) <=> Spends(b, t)
<1>1. ASSUME NEW j \in DOMAIN vtx[b], t \in vin[vtx[b][j]],
             NEW k \in DOMAIN vtx[b], k > j, vtx[b][k] = t
      PROVE  FALSE
  <2>1. Unspent(pprev[b])[t] = Absent
    BY <1>1 DEF Valid
  <2>2. Pending(b, j, t)
    BY <1>1, <2>1 DEF Valid
  <2>3. PICK m \in DOMAIN vtx[b] : m < j /\ vtx[b][m] = t
    BY <2>2 DEF Pending
  <2>4. m = k /\ m \in Int /\ j \in Int
    BY <1>1, <2>3, Positions
  <2> QED BY <1>1, <2>3, <2>4
<1> QED BY <1>1 DEF EndsSpent, Spends

\* ConnectBlock turns the UTXO set and the transaction index of the parent's
\* chain into those of the chain of a valid block.
LEMMA ConnectValid ==
    ASSUME PlainTree, NEW b \in Block \ {Genesis}, Valid(b)
    PROVE  /\ ConnectUtxo(b, Unspent(pprev[b])) = Unspent(b)
           /\ ConnectTxIndex(b, Located(pprev[b])) = Located(b)
<1> pprev[b] \in Block /\ SnapshotTx = {}
  BY BlockTree DEF PlainTree
<1>1. ASSUME NEW t \in Tx
      PROVE  /\ ConnectUtxo(b, Unspent(pprev[b]))[t] = Unspent(b)[t]
             /\ ConnectTxIndex(b, Located(pprev[b]))[t] = Located(b)[t]
  <2>1. CASE t \in TxsOf(b)
    <3>1. MakerIn(b, t) = {b} /\ ~SpentIn(pprev[b], t)
      BY <2>1, ValidMakesNew, OneMoreBlock
    <3>2. Highest(MakerIn(b, t)) = b
      BY <2>1, HighestIsBlock
    <3>3. SpentIn(b, t) <=> EndsSpent(b, t)
      BY <3>1, OneMoreBlock, ValidSpentStaysSpent
    <3> QED BY <2>1, <3>1, <3>2, <3>3 DEF ConnectUtxo, ConnectTxIndex, Unspent, Located
  <2>2. CASE t \notin TxsOf(b)
    <3>1. MakerIn(b, t) = MakerIn(pprev[b], t)
      BY <2>2, OneMoreBlock
    <3>2. SpentIn(b, t) <=> SpentIn(pprev[b], t) \/ EndsSpent(b, t)
      BY OneMoreBlock, ValidSpentStaysSpent
    <3> QED BY <2>2, <3>1, <3>2 DEF ConnectUtxo, ConnectTxIndex, Unspent, Located
  <2> QED BY <2>1, <2>2
<1> QED BY <1>1 DEF ConnectUtxo, ConnectTxIndex, Unspent, Located

\* DisconnectBlock turns them back for a valid block, when the index knows the chain.
LEMMA DisconnectValid ==
    ASSUME PlainTree, NEW b \in Block \ {Genesis}, Valid(b), chain[b] \subseteq mapBlockIndex
    PROVE  /\ DisconnectUtxo(b, Unspent(b), Located(b)) = Unspent(pprev[b])
           /\ DisconnectTxIndex(b, Located(b)) = Located(pprev[b])
<1> /\ pprev[b] \in Block /\ SnapshotTx = {} /\ NoBlock \notin Block
    /\ chain[pprev[b]] \subseteq chain[b]
  BY BlockTree DEF PlainTree
<1>1. ASSUME NEW t \in Tx
      PROVE  /\ DisconnectUtxo(b, Unspent(b), Located(b))[t] = Unspent(pprev[b])[t]
             /\ DisconnectTxIndex(b, Located(b))[t] = Located(pprev[b])[t]
  <2>1. CASE t \in TxsOf(b)
    <3>1. MakerIn(pprev[b], t) = {} /\ ~SpentIn(pprev[b], t)
      BY <2>1, ValidMakesNew
    <3> QED BY <2>1, <3>1 DEF DisconnectUtxo, DisconnectTxIndex, Unspent, Located
  <2>2. CASE t \notin TxsOf(b) /\ Spends(b, t)
    <3>1. MakerIn(b, t) = MakerIn(pprev[b], t) /\ MakerIn(b, t) # {} /\ ~SpentIn(pprev[b], t)
      BY <2>2, OneMoreBlock, ValidSpendsUnspent
    <3> DEFINE c == Highest(MakerIn(pprev[b], t))
    <3>2. c \in Block /\ c \in chain[pprev[b]]
      BY <3>1, HighestOfMakers DEF MakerIn
    <3>3. c \in mapBlockIndex
      BY <3>2
    <3>4. Located(b)[t] = c /\ c # NoBlock
      BY <3>1, <3>2 DEF Located
    <3>5. Unspent(pprev[b])[t] = nHeight[c]
      BY <3>1 DEF Unspent
    <3>6. Located(pprev[b])[t] = c
      BY <3>1 DEF Located
    <3> HIDE DEF c
    <3>7. DisconnectUtxo(b, Unspent(b), Located(b))[t] = nHeight[c]
      BY <2>2, <3>3, <3>4 DEF DisconnectUtxo
    <3> QED BY <2>2, <3>4, <3>5, <3>6, <3>7 DEF DisconnectTxIndex
  <2>3. CASE t \notin TxsOf(b) /\ ~Spends(b, t)
    <3>1. MakerIn(b, t) = MakerIn(pprev[b], t) /\ (SpentIn(b, t) <=> SpentIn(pprev[b], t))
      BY <2>3, OneMoreBlock
    <3> QED BY <2>3, <3>1 DEF DisconnectUtxo, DisconnectTxIndex, Unspent, Located
  <2> QED BY <2>1, <2>2, <2>3
<1> QED BY <1>1 DEF DisconnectUtxo, DisconnectTxIndex, Unspent, Located

-----------------------------------------------------------------------------
(* What ConnectBlock checks                                                *)

\* No block reward is in the memory pool, and what is there came from a peer or
\* from a block.
PoolInv ==
    \A t \in mempool : /\ t \notin Generated
                       /\ t \in Relayed \/ \E c \in Block : t \in TxsOf(c)

\* The rolling threshold is at least ASSUME_VALID_BUFFER blocks below some block.
ThresholdInv ==
    /\ nAssumeValidThreshold \in Nat
    /\ \/ nAssumeValidThreshold = 0
       \/ \E c \in Block : nAssumeValidThreshold + ASSUME_VALID_BUFFER <= nHeight[c]

\* What ConnectBlock takes unchecked is valid.
LEMMA AssumedIsValid ==
    ASSUME PlainTree, ThresholdInv, NEW b \in Block \ {Genesis},
           IsConsensusAssumeValidHeight(nHeight[b])
    PROVE  Valid(b)
<1>1. CASE nHeight[b] <= LastCheckpointHeight
  BY <1>1 DEF PlainTree, AssumedValid
<1>2. CASE nHeight[b] <= nAssumeValidThreshold
  <2>1. nHeight[b] = nHeight[pprev[b]] + 1 /\ nHeight[pprev[b]] \in Nat /\ nHeight[b] \in Nat
    BY BlockTree
  <2>2. PICK c \in Block : nAssumeValidThreshold + ASSUME_VALID_BUFFER <= nHeight[c]
    BY <1>2, <2>1 DEF ThresholdInv
  <2>3. nHeight[c] \in Nat /\ ASSUME_VALID_BUFFER \in Nat /\ nAssumeValidThreshold \in Nat
    BY BlockTree, Parameters DEF ThresholdInv
  <2>4. nHeight[b] + ASSUME_VALID_BUFFER <= nHeight[c]
    BY <1>2, <2>1, <2>2, <2>3
  <2> QED BY <2>4 DEF PlainTree, AssumedValid
<1> QED BY <1>1, <1>2 DEF IsConsensusAssumeValidHeight

\* Both ways to say how old an input is agree when no output of the block
\* exists before it.
LEMMA SameAge ==
    ASSUME NEW b \in Block \ {Genesis}, utxoCache = Unspent(pprev[b]),
           \A k \in DOMAIN vtx[b] : Unspent(pprev[b])[vtx[b][k]] = Absent,
           NEW i \in DOMAIN vtx[b], NEW t \in vin[vtx[b][i]],
           Pending(b, i, t) \/ Unspent(pprev[b])[t] # Absent
    PROVE  InputHeight(b, i, t) = IF Unspent(pprev[b])[t] # Absent
                                  THEN Unspent(pprev[b])[t] ELSE nHeight[b]
<1>1. CASE Pending(b, i, t)
  <2>1. Unspent(pprev[b])[t] = Absent
    BY <1>1 DEF Pending
  <2> QED BY <1>1, <2>1 DEF InputHeight
<1>2. CASE ~Pending(b, i, t)
  BY <1>2 DEF InputHeight
<1> QED BY <1>1, <1>2

\* A block that ConnectBlock lets pass on the UTXO set of its parent is valid.
LEMMA CheckIsSound ==
    ASSUME PlainTree, PoolInv, ThresholdInv, NEW b \in Block \ {Genesis},
           utxoCache = Unspent(pprev[b]), CheckConnect(b)
    PROVE  Valid(b)
<1>1. CASE IsConsensusAssumeValidHeight(nHeight[b])
  BY <1>1, AssumedIsValid
<1>2. CASE ~IsConsensusAssumeValidHeight(nHeight[b])
  <2> DEFINE before == Unspent(pprev[b])
  <2>1. /\ b \in Sound
        /\ \A i \in DOMAIN vtx[b] : NoDuplicate(b, i) /\ FetchInputs(b, i) /\ ConnectInputs(b, i)
    BY <1>2 DEF CheckConnect
  <2>2. \A i \in DOMAIN vtx[b] : before[vtx[b][i]] = Absent
    BY <2>1 DEF NoDuplicate
  <2>3. ASSUME NEW i \in DOMAIN vtx[b], NEW t \in vin[vtx[b][i]]
        PROVE  /\ \/ Pending(b, i, t)
                  \/ /\ before[t] # Absent
                     /\ \A j \in DOMAIN vtx[b] : j < i => t \notin vin[vtx[b][j]]
               /\ t \in Generated => nHeight[b] - (IF before[t] # Absent THEN before[t] ELSE nHeight[b])
                                        >= nCoinbaseMaturity
    <3>1. Pending(b, i, t) \/ before[t] # Absent
      <4>1. Pending(b, i, t) \/ utxoCache[t] # Absent \/ t \in mempool
        BY <2>1 DEF FetchInputs
      <4>2. CASE t \in mempool
        <5>1. t \notin Generated /\ (t \in Relayed \/ \E c \in Block : t \in TxsOf(c))
          BY <4>2 DEF PoolInv
        <5> QED BY <5>1 DEF PlainTree
      <4> QED BY <4>1, <4>2
    <3>2. \A j \in DOMAIN vtx[b] : j < i => t \notin vin[vtx[b][j]]
      <4> SUFFICES ASSUME NEW j \in DOMAIN vtx[b], j < i, t \in vin[vtx[b][j]] PROVE FALSE
        OBVIOUS
      <4>1. i = j
        BY DEF PlainTree
      <4>2. i \in Int
        BY Positions
      <4> QED BY <4>1, <4>2
    <3>3. ASSUME t \in Generated
          PROVE  nHeight[b] - (IF before[t] # Absent THEN before[t] ELSE nHeight[b]) >= nCoinbaseMaturity
      <4>1. nHeight[b] - InputHeight(b, i, t) >= nCoinbaseMaturity
        BY <2>1, <3>3 DEF ConnectInputs
      <4>2. InputHeight(b, i, t) = IF before[t] # Absent THEN before[t] ELSE nHeight[b]
        BY <2>2, <3>1, SameAge
      <4> HIDE DEF before
      <4> QED BY <4>1, <4>2
    <3> QED BY <3>1, <3>2, <3>3
  <2> QED BY <2>1, <2>2, <2>3 DEF Valid
<1> QED BY <1>1, <1>2

\* ConnectBlock lets a valid block pass on the UTXO set of its parent.
LEMMA CheckIsComplete ==
    ASSUME NEW b \in Block \ {Genesis}, utxoCache = Unspent(pprev[b]), Valid(b)
    PROVE  CheckConnect(b)
<1> DEFINE before == Unspent(pprev[b])
<1>1. b \in Sound /\ \A i \in DOMAIN vtx[b] : before[vtx[b][i]] = Absent
  BY DEF Valid
<1>2. ASSUME NEW i \in DOMAIN vtx[b], NEW t \in vin[vtx[b][i]]
      PROVE  /\ Pending(b, i, t) \/ before[t] # Absent
             /\ t \in Generated => nHeight[b] - (IF before[t] # Absent THEN before[t] ELSE nHeight[b])
                                      >= nCoinbaseMaturity
  BY DEF Valid
<1>3. ASSUME NEW i \in DOMAIN vtx[b]
      PROVE  NoDuplicate(b, i) /\ FetchInputs(b, i)
  BY <1>1, <1>2 DEF NoDuplicate, FetchInputs
<1>4. ASSUME NEW i \in DOMAIN vtx[b] PROVE ConnectInputs(b, i)
  <2> SUFFICES ASSUME NEW t \in vin[vtx[b][i]], t \in Generated
               PROVE  nHeight[b] - InputHeight(b, i, t) >= nCoinbaseMaturity
    BY DEF ConnectInputs
  <2>1. InputHeight(b, i, t) = IF before[t] # Absent THEN before[t] ELSE nHeight[b]
    BY <1>1, <1>2, SameAge
  <2>2. nHeight[b] - (IF before[t] # Absent THEN before[t] ELSE nHeight[b]) >= nCoinbaseMaturity
    BY <1>2
  <2> HIDE DEF before
  <2> QED BY <2>1, <2>2
<1> QED BY <1>1, <1>3, <1>4 DEF CheckConnect

-----------------------------------------------------------------------------
(* The memory pool, the threshold and the scars                            *)

\* A poisoned cache leaves a scar.
PoisonInv == poisoned => "poisoned" \in scars

SideInv == PoolInv /\ ThresholdInv /\ PoisonInv

\* The rolling threshold moves to ASSUME_VALID_BUFFER below the new best block,
\* or not at all.
LEMMA ThresholdMoves ==
    ASSUME ThresholdInv, NEW b \in Block, NewBestBlock(b)
    PROVE  ThresholdInv'
<1> DEFINE h == nHeight[b] - ASSUME_VALID_BUFFER
           S == {nAssumeValidThreshold, h}
<1> nHeight[b] \in Nat /\ ASSUME_VALID_BUFFER \in Nat /\ nAssumeValidThreshold \in Nat
  BY BlockTree, Parameters DEF ThresholdInv
<1>1. nAssumeValidThreshold' \in NewThresholds(b)
  BY DEF NewBestBlock
<1>2. CASE nAssumeValidThreshold' = nAssumeValidThreshold
  BY <1>2 DEF ThresholdInv
<1>3. CASE nAssumeValidThreshold' # nAssumeValidThreshold
  <2>1. nHeight[b] > ASSUME_VALID_BUFFER /\ nAssumeValidThreshold' = MaxOf(S)
    BY <1>1, <1>3 DEF NewThresholds
  <2>2. h \in Nat /\ h + ASSUME_VALID_BUFFER <= nHeight[b]
    BY <2>1
  <2> HIDE DEF h
  <2>3. \E x \in S : \A y \in S : y <= x
    BY <2>2
  <2>4. MaxOf(S) \in S
    BY <2>3 DEF MaxOf
  <2>5. nAssumeValidThreshold' = h
    BY <1>3, <2>1, <2>4
  <2> QED BY <2>2, <2>5 DEF ThresholdInv
<1> QED BY <1>2, <1>3

\* After a reorganization the pool holds what it held and what left the chain.
LEMMA PoolAfterReorganize ==
    ASSUME NEW pool, NEW gone, NEW come,
           NEW t \in RemoveWithConflicts(Resurrect(pool, gone), come)
    PROVE  t \in pool \/ (t \in gone /\ t \notin Generated)
  BY DEF RemoveWithConflicts, Resurrect, WithDescendants

\* The three hold from the start.
LEMMA SideInvInit == Init => SideInv
  BY DEF Init, SideInv, PoolInv, ThresholdInv, PoisonInv

\* Every step keeps them.
LEMMA SideInvStep ==
    ASSUME IInv, SideInv, [Next]_vars
    PROVE  SideInv'
<1> /\ TypeOK /\ PoolInv /\ ThresholdInv /\ PoisonInv /\ hashBestChain \in Block
    /\ pc \in Busy => op.new \in Block /\ op.inter \in Block
  BY DEF IInv, SideInv, TypeOK, OpInv
<1>1. ASSUME UNCHANGED <<mempool, nAssumeValidThreshold>>, PoisonInv' PROVE SideInv'
  BY <1>1 DEF SideInv, PoolInv, ThresholdInv
<1>2. ASSUME NEW b \in Block, AcceptSideBlock(b) \/ AcceptBestBlock(b) \/ LoadBetterTip(b) PROVE SideInv'
  BY <1>1, <1>2 DEF AcceptSideBlock, AcceptBestBlock, AddToBlockIndex, LoadBetterTip, memory, PoisonInv
<1>3. ASSUME NEW t \in Tx, AcceptToMemoryPool(t) PROVE SideInv'
  <2>1. /\ mempool' = mempool \cup {t} /\ t \in Relayed /\ t \notin Generated
        /\ UNCHANGED <<nAssumeValidThreshold, poisoned, scars>>
    BY <1>3 DEF AcceptToMemoryPool
  <2> QED BY <2>1 DEF SideInv, PoolInv, ThresholdInv, PoisonInv
<1>4. ASSUME NEW b \in Block, NewBestBlock(b), mempool' \subseteq mempool, PoisonInv' PROVE SideInv'
  <2>1. PoolInv'
    BY <1>4 DEF PoolInv
  <2> QED BY <1>4, <2>1, ThresholdMoves DEF SideInv
<1>5. CASE Extend
  BY <1>4, <1>5 DEF Extend, ConnectAndCommit, PoisonInv, Busy
<1>6. CASE ExtendFails \/ ConnectBlockFails \/ ReorganizeIoError
  <2>1. Abort
    BY <1>6 DEF ExtendFails, ConnectBlockFails, ReorganizeIoError
  <2>2. PoisonInv'
    BY <2>1 DEF Abort, PoisonInv
  <2> QED BY <1>1, <2>1, <2>2 DEF Abort, memory
<1>7. CASE ExtendCommitFails
  BY <1>1, <1>7 DEF ExtendCommitFails, ConnectAndLose, PoisonInv
<1>8. CASE DisconnectBlock \/ ConnectBlock
  BY <1>1, <1>8 DEF DisconnectBlock, ConnectBlock, PoisonInv
<1>9. CASE CommitReorganize
  <2> DEFINE gone == chain[hashBestChain] \ chain[op.inter]
             come == chain[op.inter] \ chain[hashBestChain]
             goneTx == UNION {TxsOf(b) : b \in gone}
             comeTx == UNION {TxsOf(b) : b \in come}
  <2>1. /\ mempool' = RemoveWithConflicts(Resurrect(mempool, goneTx), comeTx)
        /\ UNCHANGED <<poisoned, scars>> /\ pc \in Busy
    BY <1>9 DEF CommitReorganize, Busy
  <2>2. \A t \in goneTx : \E c \in Block : t \in TxsOf(c)
    BY BlockTree
  <2>3. PoolInv'
    <3> HIDE DEF goneTx, comeTx
    <3> QED BY <2>1, <2>2, PoolAfterReorganize DEF PoolInv
  <2>4. ThresholdInv'
    <3>1. CASE op.inter = op.new
      BY <1>9, <2>1, <3>1, ThresholdMoves DEF CommitReorganize
    <3>2. CASE op.inter # op.new
      BY <1>9, <3>2 DEF CommitReorganize, ThresholdInv
    <3> QED BY <3>1, <3>2
  <2> QED BY <2>1, <2>3, <2>4 DEF SideInv, PoisonInv
<1>10. CASE ConnectSecondary
  <2>1. PICK x \in NextTo(op.new) :
          /\ ConnectAndCommit(x)
          /\ IF x = op.new
             THEN NewBestBlock(op.new)
             ELSE /\ op' = [op EXCEPT !.at = x]
                  /\ UNCHANGED <<hashBestChain, nAssumeValidThreshold, pc>>
    BY <1>10 DEF ConnectSecondary
  <2>2. /\ mempool' \subseteq mempool /\ UNCHANGED <<poisoned, scars>> /\ pc \in Busy
    BY <1>10, <2>1 DEF ConnectAndCommit, ConnectSecondary, Busy
  <2>3. CASE x = op.new
    BY <1>4, <2>1, <2>2, <2>3 DEF PoisonInv
  <2>4. CASE x # op.new
    BY <2>1, <2>2, <2>4 DEF SideInv, PoolInv, ThresholdInv, PoisonInv
  <2> QED BY <2>3, <2>4
<1>11. CASE SecondaryFails \/ SecondaryCommitFails
  <2>1. NewBestBlock(op.new) /\ mempool' = mempool /\ PoisonInv' /\ pc \in Busy
    BY <1>11 DEF SecondaryFails, SecondaryCommitFails, ConnectAndLose, PoisonInv, Busy
  <2> QED BY <1>4, <2>1
<1>12. CASE Restart
  <2>1. mempool' = {} /\ nAssumeValidThreshold' = 0 /\ poisoned' = FALSE
    BY <1>12 DEF Restart
  <2> QED BY <2>1 DEF SideInv, PoolInv, ThresholdInv, PoisonInv
<1>13. CASE LoadNoBetterTip \/ SetHardenedCheckpoint \/ UNCHANGED vars
  BY <1>1, <1>13 DEF LoadNoBetterTip, SetHardenedCheckpoint, vars, memory, PoisonInv
<1> QED
  BY <1>2, <1>3, <1>5, <1>6, <1>7, <1>8, <1>9, <1>10, <1>11, <1>12, <1>13 DEF Next, SetBestChainStep

-----------------------------------------------------------------------------
(* The stored chain is valid                                               *)

\* Until a scar: the database holds the UTXO set and the transaction index of
\* its best chain, the open batch those of the chain in hand, and both chains
\* are valid.
ValidInv ==
    scars = {} => UtxoInv /\ ValidChain(disk.best) /\ ValidChain(Cursor)

\* The chain of a valid block on a valid chain is valid.
LEMMA ValidChainGrows ==
    ASSUME NEW x \in Block \ {Genesis}
    PROVE  ValidChain(x) <=> Valid(x) /\ ValidChain(pprev[x])
<1>1. chain[x] = chain[pprev[x]] \cup {x}
  BY BlockTree
<1> QED BY <1>1 DEF ValidChain

\* Every part of a valid chain is valid.
LEMMA ValidChainPart ==
    ASSUME NEW b \in Block, NEW c \in chain[b], ValidChain(b)
    PROVE  ValidChain(c)
  BY ChainTransitive DEF ValidChain

\* ConnectBlock on the chain in hand: the block passes exactly if it is valid,
\* and the batch then holds the UTXO set of its chain.
LEMMA ConnectInHand ==
    ASSUME PlainTree, ChainInv, SideInv, ValidInv, scars = {}, pc \in Busy,
           NEW x \in Block \ {Genesis}, pprev[x] = op.at
    PROVE  /\ CheckConnect(x) <=> Valid(x)
           /\ CheckConnect(x) => /\ ValidChain(x)
                                 /\ Connected(x).utxo = Unspent(x)
                                 /\ Connected(x).txindex = Located(x)
<1>1. Cursor = pprev[x]
  BY DEF Cursor
<1>2. /\ view.utxo = Unspent(pprev[x]) /\ view.txindex = Located(pprev[x])
      /\ ValidChain(pprev[x])
  BY <1>1 DEF ValidInv, UtxoInv
<1>3. utxoCache = Unspent(pprev[x])
  <2>1. ~poisoned
    BY DEF SideInv, PoisonInv
  <2> QED BY <1>2, <2>1 DEF ChainInv, IInv, CacheInv
<1>4. CheckConnect(x) <=> Valid(x)
  BY <1>3, CheckIsSound, CheckIsComplete DEF SideInv
<1>5. ASSUME CheckConnect(x)
      PROVE  ValidChain(x) /\ Connected(x).utxo = Unspent(x) /\ Connected(x).txindex = Located(x)
  <2>1. Valid(x)
    BY <1>4, <1>5
  <2>2. /\ Connected(x).utxo = ConnectUtxo(x, view.utxo)
        /\ Connected(x).txindex = ConnectTxIndex(x, view.txindex)
    BY DEF Connected
  <2> QED BY <1>2, <2>1, <2>2, ConnectValid, ValidChainGrows
<1> QED BY <1>4, <1>5

\* A new database and batch for the chains that end in d and c.
LEMMA ValidInvAt ==
    ASSUME NEW d \in Block, NEW c \in Block, disk'.best = d, Cursor' = c,
           disk'.utxo = Unspent(d), disk'.txindex = Located(d),
           view'.utxo = Unspent(c), view'.txindex = Located(c),
           ValidChain(d), ValidChain(c)
    PROVE  ValidInv'
<1>1. UtxoInv'
  BY DEF UtxoInv
<1>2. ValidChain(disk'.best) /\ ValidChain(Cursor')
  OBVIOUS
<1>3. ValidChain(disk.best)' /\ ValidChain(Cursor)'
  BY <1>2
<1> QED BY <1>1, <1>3 DEF ValidInv

\* Nothing is under way, and the UTXO set of the database is as it was.
LEMMA ValidSettled ==
    ASSUME ChainInv, ValidInv, scars' = {} => scars = {},
           disk'.best = disk.best, disk'.utxo = disk.utxo, disk'.txindex = disk.txindex,
           view'.utxo = disk.utxo, view'.txindex = disk.txindex, Cursor' = disk.best
    PROVE  ValidInv'
<1>1. CASE scars = {}
  <2>1. /\ disk.utxo = Unspent(disk.best) /\ disk.txindex = Located(disk.best)
        /\ ValidChain(disk.best) /\ disk.best \in Block
    BY <1>1 DEF ValidInv, UtxoInv, ChainInv, IInv, TypeOK, Database
  <2> QED BY <2>1, ValidInvAt
<1>2. CASE scars # {}
  BY <1>2 DEF ValidInv
<1> QED BY <1>1, <1>2

\* Steps that do not connect or disconnect a block.
LEMMA ValidQuiet ==
    ASSUME ChainInv, ValidInv,
           \/ \E b \in Block : AcceptSideBlock(b) \/ AcceptBestBlock(b) \/ LoadBetterTip(b)
           \/ \E t \in Tx : AcceptToMemoryPool(t)
           \/ ExtendFails \/ ExtendCommitFails \/ ConnectBlockFails \/ ReorganizeIoError
           \/ SecondaryFails \/ SecondaryCommitFails
           \/ Restart \/ LoadNoBetterTip \/ SetHardenedCheckpoint
    PROVE  ValidInv'
<1> /\ TypeOK /\ disk \in Database /\ hashBestChain \in Block /\ op.ret \in {"idle", "startup"}
    /\ pc \in Busy => op.new \in Block
  BY DEF ChainInv, IInv, TypeOK, OpInv
<1>1. ASSUME pc' \notin Busy, view' = disk, disk' = disk, scars' = {} => scars = {} PROVE ValidInv'
  <2>1. Cursor' = disk.best
    BY <1>1 DEF Cursor
  <2> QED BY <1>1, <2>1, ValidSettled
<1>2. ASSUME NEW b \in Block, AcceptSideBlock(b) PROVE ValidInv'
  <2>1. disk' \in {WithIndex(b), disk} /\ view' = disk' /\ scars' = scars /\ pc' \notin Busy
    BY <1>2 DEF AcceptSideBlock, AddToBlockIndex, Busy
  <2>2. disk'.best = disk.best /\ disk'.utxo = disk.utxo /\ disk'.txindex = disk.txindex
    BY <2>1, WithIndexType
  <2>3. Cursor' = disk.best
    BY <2>1, <2>2 DEF Cursor
  <2> QED BY <2>1, <2>2, <2>3, ValidSettled
<1>3. ASSUME NEW b \in Block, NEW v \in {WithIndex(b), disk}, NEW ret \in {"idle", "startup"},
             SetBestChain(b, v, ret), disk' = disk, scars' = scars, pc \notin Busy
      PROVE  ValidInv'
  <2>1. v \in Database /\ v.utxo = disk.utxo /\ v.txindex = disk.txindex
    BY WithIndexType
  <2>2. view' \in {v, disk}
    BY <1>3, <2>1, SetBestChainStarts
  <2>3. CASE scars = {}
    <3>1. hashBestChain = disk.best
      BY <1>3, <2>3 DEF ChainInv, TipInv, Busy
    <3>2. pc' \in Busy => op'.at = hashBestChain
      BY <1>3 DEF SetBestChain, Busy
    <3>3. Cursor' = disk.best
      BY <1>3, <3>1, <3>2 DEF Cursor
    <3> QED BY <1>3, <2>1, <2>2, <3>3, ValidSettled
  <2>4. CASE scars # {}
    BY <1>3, <2>4 DEF ValidInv
  <2> QED BY <2>3, <2>4
<1>4. ASSUME NEW b \in Block, AcceptBestBlock(b) PROVE ValidInv'
  BY <1>3, <1>4 DEF AcceptBestBlock, AddToBlockIndex, Busy
<1>5. ASSUME NEW b \in Block, LoadBetterTip(b) PROVE ValidInv'
  BY <1>3, <1>5 DEF LoadBetterTip, Busy
<1>6. CASE LoadNoBetterTip \/ SetHardenedCheckpoint \/ \E t \in Tx : AcceptToMemoryPool(t)
  <2>1. UNCHANGED <<disk, view, scars>> /\ pc \notin Busy /\ pc' \notin Busy
    BY <1>6 DEF LoadNoBetterTip, SetHardenedCheckpoint, AcceptToMemoryPool, Busy
  <2>2. Cursor' = Cursor
    BY <2>1 DEF Cursor
  <2>3. CASE scars = {}
    <3>1. /\ disk.utxo = Unspent(disk.best) /\ disk.txindex = Located(disk.best)
          /\ view.utxo = Unspent(disk.best) /\ view.txindex = Located(disk.best)
          /\ ValidChain(disk.best) /\ Cursor' = disk.best
      BY <2>1, <2>3 DEF ValidInv, UtxoInv, Cursor
    <3> QED BY <2>1, <3>1, ValidInvAt DEF Database
  <2>4. CASE scars # {}
    BY <2>1, <2>4 DEF ValidInv
  <2> QED BY <2>3, <2>4
<1>7. CASE ExtendFails \/ ConnectBlockFails \/ ReorganizeIoError
  <2>1. Abort
    BY <1>7 DEF ExtendFails, ConnectBlockFails, ReorganizeIoError
  <2>2. scars' = {} => scars = {}
    BY <2>1 DEF Abort
  <2> QED BY <1>1, <2>1, <2>2 DEF Abort, Busy
<1>8. CASE ExtendCommitFails \/ SecondaryFails \/ SecondaryCommitFails
  <2>1. scars' # {}
    BY <1>8 DEF ExtendCommitFails, SecondaryFails, SecondaryCommitFails
  <2> QED BY <2>1 DEF ValidInv
<1>9. CASE Restart
  BY <1>1, <1>9 DEF Restart, Busy
<1> QED BY <1>2, <1>4, <1>5, <1>6, <1>7, <1>8, <1>9

\* Connecting and committing one block.
LEMMA ValidCommit ==
    ASSUME PlainTree, ChainInv, SideInv, ValidInv, scars = {}, pc \in Busy,
           NEW x \in Block \ {Genesis}, pprev[x] = op.at, ConnectAndCommit(x), Cursor' = x
    PROVE  ValidInv'
<1>1. view \in Database
  BY DEF ChainInv, IInv, TypeOK
<1>2. view' = WithBest(Connected(x), x) /\ disk' = view' /\ CheckConnect(x)
  BY DEF ConnectAndCommit
<1>3. /\ disk'.best = x /\ disk'.utxo = Connected(x).utxo /\ disk'.txindex = Connected(x).txindex
      /\ view'.utxo = Connected(x).utxo /\ view'.txindex = Connected(x).txindex
  BY <1>1, <1>2, ConnectedType, WithBestType
<1> QED BY <1>2, <1>3, ConnectInHand, ValidInvAt

\* Steps that connect or disconnect a block, or commit.
LEMMA ValidWork ==
    ASSUME PlainTree, ChainInv, SideInv, ValidInv, scars = {},
           Extend \/ DisconnectBlock \/ ConnectBlock \/ CommitReorganize \/ ConnectSecondary
    PROVE  ValidInv'
<1> /\ TypeOK /\ view \in Database /\ disk \in Database /\ disk.best \in Block
    /\ op \in OpType /\ op.ret \in {"idle", "startup"}
    /\ pc \in Busy => op.new \in Block /\ op.inter \in Block /\ op.at \in Block
    /\ "split" \notin scars
  BY DEF ChainInv, IInv, TypeOK, OpInv, OpType, Database
<1> /\ disk.utxo = Unspent(disk.best) /\ disk.txindex = Located(disk.best)
    /\ view.utxo = Unspent(Cursor) /\ view.txindex = Located(Cursor)
    /\ ValidChain(disk.best) /\ ValidChain(Cursor)
  BY DEF ValidInv, UtxoInv
<1>1. CASE Extend
  <2>1. pc = "extend" /\ ConnectAndCommit(op.new) /\ pc' = op.ret
    BY <1>1 DEF Extend, NewBestBlock
  <2>2. op.new \in Block \ {Genesis} /\ pprev[op.new] = op.at
    BY <2>1 DEF ChainInv, IInv, OpInv, Busy
  <2>3. disk'.best = op.new
    BY <2>1, <2>2, CommitMoves
  <2>4. Cursor' = op.new
    BY <2>1, <2>3 DEF Cursor, Busy
  <2> QED BY <2>1, <2>2, <2>4, ValidCommit DEF Busy
<1>2. CASE DisconnectBlock
  <2> DEFINE b == op.at
  <2>1. /\ pc = "disconnect" /\ pc' \in {"connect", "disconnect"} /\ disk' = disk
        /\ view' = Disconnected(b) /\ op' = [op EXCEPT !.at = pprev[b]]
    BY <1>2 DEF DisconnectBlock
  <2>2. b \in Block \ {Genesis}
    BY <2>1, BlockTree DEF ChainInv, IInv, OpInv, Busy
  <2>3. op'.at = pprev[b]
    BY <2>1 DEF OpType
  <2>4. Cursor = b /\ Cursor' = pprev[b]
    BY <2>1, <2>3 DEF Cursor, Busy
  <2>5. b \in chain[hashBestChain] /\ chain[hashBestChain] \subseteq mapBlockIndex /\ hashBestChain \in Block
    BY <2>1 DEF ChainInv, TipInv, StoredInv, TypeOK
  <2>6. chain[b] \subseteq mapBlockIndex
    BY <2>5, ChainTransitive
  <2>7. Valid(b) /\ ValidChain(pprev[b]) /\ pprev[b] \in Block
    BY <2>2, <2>4, ValidChainGrows, BlockTree
  <2>8. /\ view'.utxo = DisconnectUtxo(b, Unspent(b), Located(b))
        /\ view'.txindex = DisconnectTxIndex(b, Located(b))
    BY <2>1, <2>4 DEF Disconnected
  <2>9. view'.utxo = Unspent(pprev[b]) /\ view'.txindex = Located(pprev[b])
    BY <2>2, <2>6, <2>7, <2>8, DisconnectValid
  <2> QED BY <2>1, <2>4, <2>7, <2>9, ValidInvAt
<1>3. CASE ConnectBlock
  <2>1. PICK x \in NextTo(op.inter) :
          CheckConnect(x) /\ view' = Connected(x) /\ op' = [op EXCEPT !.at = x]
    BY <1>3 DEF ConnectBlock
  <2>2. pc \in Busy /\ pc' = pc /\ disk' = disk
    BY <1>3 DEF ConnectBlock, Busy
  <2>3. x \in Block \ {Genesis} /\ pprev[x] = op.at
    BY <2>2, NextToType DEF NextTo
  <2>4. op'.at = x
    BY <2>1 DEF OpType
  <2>5. Cursor' = x
    BY <2>2, <2>4 DEF Cursor
  <2> QED BY <2>1, <2>2, <2>3, <2>5, ConnectInHand, ValidInvAt
<1>4. CASE CommitReorganize
  <2>1. /\ pc = "connect" /\ op.at = op.inter
        /\ view' = WithBest(view, op.inter) /\ disk' = view'
    BY <1>4 DEF CommitReorganize
  <2>2. Cursor = op.inter /\ op.inter \in Block
    BY <2>1 DEF Cursor, Busy
  <2>3. /\ disk'.best = op.inter /\ disk'.utxo = view.utxo /\ disk'.txindex = view.txindex
        /\ view'.utxo = view.utxo /\ view'.txindex = view.txindex
    BY <2>1, <2>2, WithBestType
  <2>4. pc' \in {"idle", "startup"} \/ (pc' = "secondary" /\ op' = op)
    BY <1>4 DEF CommitReorganize, NewBestBlock
  <2>5. Cursor' = op.inter
    BY <2>1, <2>3, <2>4 DEF Cursor, Busy
  <2> QED BY <2>2, <2>3, <2>5, ValidInvAt
<1>5. CASE ConnectSecondary
  <2>1. PICK x \in NextTo(op.new) :
          /\ ConnectAndCommit(x)
          /\ IF x = op.new
             THEN NewBestBlock(op.new)
             ELSE /\ op' = [op EXCEPT !.at = x]
                  /\ UNCHANGED <<hashBestChain, nAssumeValidThreshold, pc>>
    BY <1>5 DEF ConnectSecondary
  <2>2. pc = "secondary" /\ pc \in Busy
    BY <1>5 DEF ConnectSecondary, Busy
  <2>3. x \in Block \ {Genesis} /\ pprev[x] = op.at
    BY <2>2, NextToType DEF NextTo
  <2>4. disk'.best = x
    BY <2>1, <2>3, CommitMoves
  <2>5. pc' \in {"idle", "startup"} \/ op'.at = x
    BY <2>1 DEF NewBestBlock, OpType
  <2>6. Cursor' = x
    BY <2>4, <2>5 DEF Cursor, Busy
  <2> QED BY <2>1, <2>2, <2>3, <2>6, ValidCommit
<1> QED BY <1>1, <1>2, <1>3, <1>4, <1>5

\* A new node starts on Genesis.
LEMMA ValidInvInit == ASSUME PlainTree PROVE Init => ValidInv
<1> SUFFICES ASSUME Init PROVE ValidInv
  OBVIOUS
<1>1. Cursor = Genesis /\ disk.best = Genesis /\ view = disk
  BY DEF Init, Cursor, Busy
<1>2. \A t \in Tx : MakerIn(Genesis, t) = {} /\ ~SpentIn(Genesis, t)
  BY BlockTree, Transactions DEF MakerIn, SpentIn, Spends, TxsOf
<1>3. disk.utxo = Unspent(Genesis)
  BY <1>2 DEF Init, Unspent, PlainTree
<1>4. disk.txindex = Located(Genesis)
  BY <1>2 DEF Init, Located
<1>5. ValidChain(Genesis)
  BY BlockTree DEF ValidChain
<1> QED BY <1>1, <1>3, <1>4, <1>5 DEF ValidInv, UtxoInv

\* Scars stay.
LEMMA ScarsStay == ASSUME [Next]_vars, scars # {} PROVE scars' # {}
  BY DEF Next, vars, SetBestChainStep, AcceptSideBlock, AcceptBestBlock, AddToBlockIndex,
     LoadBetterTip, AcceptToMemoryPool, Extend, ExtendFails, ExtendCommitFails,
     DisconnectBlock, ConnectBlock, ConnectBlockFails, ReorganizeIoError, CommitReorganize,
     ConnectSecondary, SecondaryFails, SecondaryCommitFails, Abort, Restart,
     LoadNoBetterTip, SetHardenedCheckpoint

\* Every step keeps the stored chain valid.
LEMMA ValidInvStep ==
    ASSUME PlainTree, ChainInv, SideInv, ValidInv, [Next]_vars
    PROVE  ValidInv'
<1>1. CASE scars = {}
  <2>1. CASE Extend \/ DisconnectBlock \/ ConnectBlock \/ CommitReorganize \/ ConnectSecondary
    BY <1>1, <2>1, ValidWork
  <2>2. CASE UNCHANGED vars
    <3>1. /\ Cursor' = Cursor /\ UNCHANGED <<disk, view>> /\ Cursor \in Block /\ disk.best \in Block
      BY <2>2 DEF vars, memory, Cursor, ChainInv, IInv, OpInv, TypeOK, Database
    <3> QED BY <1>1, <3>1, ValidInvAt DEF ValidInv, UtxoInv
  <2> QED BY <2>1, <2>2, ValidQuiet DEF Next, SetBestChainStep
<1>2. CASE scars # {}
  BY <1>2, ScarsStay DEF ValidInv
<1> QED BY <1>1, <1>2

\* For every tree in which the shortcuts of ConnectBlock let no invalid block
\* through, whatever blocks peers send, whatever fails and whenever the process
\* dies: until a batch with UTXO writes is dropped or a postponed connect fails,
\* every block of the stored best chain above the last checkpoint is valid.
THEOREM BestChainIsValid ==
    ASSUME PlainTree
    PROVE  Spec => []BestChainValid
<1>1. Init => ChainInv /\ SideInv /\ ValidInv
  BY ChainInvInit, SideInvInit, ValidInvInit
<1>2. ChainInv /\ SideInv /\ ValidInv /\ [Next]_vars => (ChainInv /\ SideInv /\ ValidInv)'
  BY ChainInvStep, SideInvStep, ValidInvStep DEF ChainInv
<1>3. ChainInv /\ ValidInv => BestChainValid
  <2> SUFFICES ASSUME ChainInv, ValidInv, scars = {}, NEW b \in chain[disk.best],
                      nHeight[b] > LastCheckpointHeight
               PROVE  Valid(b)
    BY DEF BestChainValid
  <2>1. ValidChain(disk.best) /\ disk.best \in Block
    BY DEF ValidInv, ChainInv, IInv, TypeOK, Database
  <2>2. CASE b # Genesis
    BY <2>1, <2>2 DEF ValidChain
  <2>3. CASE b = Genesis
    <3>1. nHeight[Genesis] <= LastCheckpointHeight /\ LastCheckpointHeight \in Nat
      BY CheckpointHeights, BlockTree
    <3> QED BY <2>3, <3>1, BlockTree
  <2> QED BY <2>2, <2>3
<1> QED BY <1>1, <1>2, <1>3, PTL DEF Spec

-----------------------------------------------------------------------------
(* Chains that lose                                                        *)

\* The chain of s is not to replace that of a: it is invalid, or it forks off
\* below height h, the height of the checkpoint that Reorganize protects.
Lost(a, h, s) == ~ValidChain(s) \/ nHeight[Fork(a, s)] < h

\* Past a block that is not on the chain of a, all chains fork off at one block.
LEMMA ForkSame ==
    ASSUME NEW a \in Block, NEW b \in Block, NEW s \in chain[b], s \notin chain[a]
    PROVE  Fork(a, b) = Fork(a, s)
<1>1. s \in Block /\ chain[s] \subseteq chain[b]
  BY ChainTransitive
<1>2. ASSUME NEW y \in chain[a], y \in chain[b] PROVE y \in chain[s]
  <2>1. y \in Block /\ nHeight[y] \in Nat /\ nHeight[s] \in Nat
    BY <1>1, BlockTree
  <2>2. CASE nHeight[y] <= nHeight[s]
    BY <1>2, <2>2, OnOneChain
  <2>3. CASE nHeight[s] <= nHeight[y]
    <3>1. s \in chain[y]
      BY <1>2, <2>3, OnOneChain
    <3> QED BY <3>1, ChainTransitive
  <2> QED BY <2>1, <2>2, <2>3
<1>3. chain[a] \cap chain[b] = chain[a] \cap chain[s]
  BY <1>1, <1>2
<1> QED BY <1>3 DEF Fork

\* What is built on a chain that loses, and is not on that of a, loses.
LEMMA LostBelow ==
    ASSUME NEW a \in Block, NEW h, NEW b \in Block, NEW s \in chain[b], s \notin chain[a],
           Lost(a, h, s)
    PROVE  Lost(a, h, b)
<1>1. Fork(a, b) = Fork(a, s)
  BY ForkSame
<1>2. ~ValidChain(s) => ~ValidChain(b)
  BY ValidChainPart
<1> QED BY <1>1, <1>2 DEF Lost

\* A loser still loses when the best chain is extended, unless the new block is
\* at height h.
LEMMA LostAfterExtend ==
    ASSUME NEW n \in Block \ {Genesis}, NEW h \in Nat, NEW s \in Block,
           Lost(pprev[n], h, s), nHeight[n] # h
    PROVE  Lost(n, h, s)
<1> pprev[n] \in Block
  BY BlockTree
<1>1. CASE n \notin chain[s]
  <2>1. chain[n] \cap chain[s] = chain[pprev[n]] \cap chain[s]
    BY <1>1, BlockTree
  <2>2. Fork(n, s) = Fork(pprev[n], s)
    BY <2>1 DEF Fork
  <2> QED BY <2>2 DEF Lost
<1>2. CASE n \in chain[s] /\ nHeight[Fork(pprev[n], s)] < h
  <2>1. pprev[n] \in chain[s]
    BY <1>2, ChainTransitive, ChainEnds, BlockTree
  <2>2. pprev[n] \in chain[Fork(pprev[n], s)]
    BY <2>1, ForkExists, ChainEnds
  <2>3. nHeight[pprev[n]] <= nHeight[Fork(pprev[n], s)]
    BY <2>2, ForkExists, LowerOnChain
  <2>4. nHeight[Fork(n, s)] <= nHeight[n]
    BY ForkExists, LowerOnChain
  <2>5. /\ nHeight[n] = nHeight[pprev[n]] + 1 /\ nHeight[pprev[n]] \in Nat
        /\ nHeight[Fork(n, s)] \in Nat /\ nHeight[Fork(pprev[n], s)] \in Nat
    BY ForkExists, BlockTree
  <2>6. nHeight[Fork(n, s)] < h
    BY <1>2, <2>3, <2>4, <2>5
  <2> QED BY <2>6 DEF Lost
<1> QED BY <1>1, <1>2 DEF Lost

\* A loser still loses after a reorganization that kept the chain up to height h.
LEMMA LostAfterReorganize ==
    ASSUME NEW a \in Block, NEW n \in Block, NEW h \in Nat, NEW s \in Block,
           Lost(a, h, s), nHeight[Fork(a, n)] >= h
    PROVE  Lost(n, h, s)
<1> DEFINE f == Fork(a, n)
           g == Fork(n, s)
           e == Fork(a, s)
<1>1. /\ f \in Block /\ f \in chain[a] /\ f \in chain[n]
      /\ g \in Block /\ g \in chain[n] /\ g \in chain[s]
      /\ e \in Block /\ chain[e] = chain[a] \cap chain[s]
  BY ForkExists
<1>2. nHeight[f] \in Nat /\ nHeight[g] \in Nat /\ nHeight[e] \in Nat /\ nHeight[f] >= h
  BY <1>1, BlockTree
<1>3. ASSUME nHeight[e] < h, nHeight[g] >= h PROVE FALSE
  <2>1. CASE nHeight[f] <= nHeight[g]
    <3>1. f \in chain[g]
      BY <1>1, <2>1, OnOneChain
    <3>2. f \in chain[e]
      BY <1>1, <3>1, ChainTransitive
    <3>3. nHeight[f] <= nHeight[e]
      BY <1>1, <3>2, LowerOnChain
    <3> HIDE DEF f, e
    <3> QED BY <1>2, <1>3, <3>3
  <2>2. CASE nHeight[g] <= nHeight[f]
    <3>1. g \in chain[f]
      BY <1>1, <2>2, OnOneChain
    <3>2. g \in chain[e]
      BY <1>1, <3>1, ChainTransitive
    <3>3. nHeight[g] <= nHeight[e]
      BY <1>1, <3>2, LowerOnChain
    <3> HIDE DEF g, e
    <3> QED BY <1>2, <1>3, <3>3
  <2> QED BY <1>2, <2>1, <2>2
<1>4. CASE ~ValidChain(s)
  BY <1>4 DEF Lost
<1>5. CASE nHeight[e] < h
  <2>1. ~(nHeight[g] >= h)
    BY <1>3, <1>5
  <2>2. nHeight[g] < h
    <3> HIDE DEF g
    <3> QED BY <1>2, <2>1
  <2> QED BY <2>2 DEF Lost
<1> QED BY <1>4, <1>5 DEF Lost

-----------------------------------------------------------------------------
(* The chain of greatest trust                                             *)

\* What LoadBlockIndex will have in its index: the stored entries and their parents.
Known == disk.index \cup {pprev[b] : b \in disk.index \ {Genesis}}

\* LoadBlockIndex has run and AppInit2 has not yet chosen the checkpoint.
AtStartup == pc \in {"load", "startup"} \/ (pc \in Busy /\ op.ret = "startup")

\* The checkpoint that AppInit2 has chosen or will choose.
Pin == IF pindexLastHardenedCheckpoint = NoBlock
       THEN GetLastCheckpoint(mapBlockIndex) ELSE pindexLastHardenedCheckpoint

\* No stored entry has more trust than the stored best block, the open batch adds
\* only entries of the chains in hand, and no stub is stored.
IndexInv ==
    /\ \A b \in disk.index : nChainTrust[b] <= nChainTrust[disk.best]
    /\ disk.index \subseteq view.index
    /\ \A b \in view.index : \/ b \in disk.index \/ b \in chain[hashBestChain]
                             \/ pc \in Busy /\ b \in chain[op.new]
    /\ stubs \cap disk.index = {}
    /\ Known \subseteq mapBlockIndex

\* A restart would find the pinned checkpoint again, or a higher one.
PinInv ==
    /\ AtStartup => /\ pindexLastHardenedCheckpoint = NoBlock
                    /\ mapBlockIndex \subseteq Known /\ mapBlockIndex \ stubs \subseteq disk.index
    /\ ~AtStartup => pindexLastHardenedCheckpoint \in Checkpoint \cap Known

\* An entry that is not stored is on a chain that loses, or is in hand.
LostInv ==
    \A s \in mapBlockIndex \ disk.index :
        (pc \in Busy /\ s = op.new) \/ Lost(hashBestChain, nHeight[Pin], s)

\* Of the operation under way: no postponed connects, unless those before them
\* fail; the new block is new or stored; it leaves the checkpoint alone.
HandInv ==
    /\ pc # "secondary"
    /\ pc \in Busy => /\ op.new \notin Known \/ op.new \in disk.index
                      /\ chain[op.new] \cap stubs = {}
    /\ pc = "extend" => nHeight[op.new] # nHeight[Pin]
    /\ pc \in {"disconnect", "connect"} =>
          /\ op.inter = op.new \/ ~ValidChain(op.inter)
          /\ nHeight[Fork(hashBestChain, op.inter)] >= nHeight[Pin]

TrustInv == scars = {} => IndexInv /\ PinInv /\ LostInv /\ HandInv

NodeInv == ChainInv /\ MoveInv /\ SideInv /\ ValidInv /\ TrustInv

\* What NodeInv says before the first scar, in one place.
LEMMA NodeFacts ==
    ASSUME NodeInv, scars = {}
    PROVE  /\ TypeOK /\ disk \in Database /\ view \in Database /\ op \in OpType
           /\ disk.best \in Block /\ hashBestChain \in Block /\ hashBestChain = disk.best
           /\ hashBestChain \notin stubs /\ Trust(hashBestChain) = nChainTrust[hashBestChain]
           /\ chain[disk.best] \subseteq disk.index
           /\ disk.index \subseteq Block /\ mapBlockIndex \subseteq Block /\ stubs \subseteq mapBlockIndex
           /\ IndexClosed /\ IndexInv /\ PinInv /\ LostInv /\ HandInv
           /\ pc \in Busy => op.new \in Block /\ op.inter \in Block /\ op.at \in Block
           /\ pc \in Busy => chain[op.new] \subseteq mapBlockIndex
<1>1. "split" \notin scars
  OBVIOUS
<1>2. TypeOK /\ OpInv /\ IndexClosed /\ TipInv /\ StoredInv
  BY <1>1 DEF NodeInv, ChainInv, IInv
<1>3. IndexInv /\ PinInv /\ LostInv /\ HandInv
  BY DEF NodeInv, TrustInv
<1>4. hashBestChain = disk.best
  BY <1>2, <1>3 DEF HandInv, TipInv
<1>5. /\ disk \in Database /\ view \in Database /\ op \in OpType
      /\ disk.best \in Block /\ hashBestChain \in Block
      /\ disk.index \subseteq Block /\ mapBlockIndex \subseteq Block /\ stubs \subseteq mapBlockIndex
  BY <1>2 DEF TypeOK, OpType, Database
<1>6. hashBestChain \notin stubs /\ Trust(hashBestChain) = nChainTrust[hashBestChain]
  BY DEF NodeInv, MoveInv, Trust
<1>7. chain[disk.best] \subseteq disk.index /\ (pc \in Busy => chain[op.new] \subseteq mapBlockIndex)
  BY <1>2 DEF StoredInv
<1>8. pc \in Busy => op.new \in Block /\ op.inter \in Block /\ op.at \in Block
  BY <1>2 DEF OpInv
<1> QED BY <1>2, <1>3, <1>4, <1>5, <1>6, <1>7, <1>8

\* The pin is a checkpoint that a restart finds again.
LEMMA PinFound ==
    ASSUME NodeInv, scars = {}
    PROVE  /\ Pin \in Checkpoint \cap Known /\ Pin \in Block /\ nHeight[Pin] \in Nat
           /\ nHeight[Pin] <= LastCheckpointHeight /\ nHeight[Pin] <= HardenedCheckpointHeight
<1> /\ PinInv /\ IndexInv /\ chain[disk.best] \subseteq disk.index /\ disk.best \in Block
  BY NodeFacts
<1>1. CASE AtStartup
  <2>1. Genesis \in mapBlockIndex \cap Checkpoint
    BY ChainEnds, BlockTree DEF IndexInv, Known
  <2>2. pindexLastHardenedCheckpoint = NoBlock /\ mapBlockIndex \subseteq Known
    BY <1>1 DEF PinInv
  <2>3. Pin = GetLastCheckpoint(mapBlockIndex)
    BY <2>2 DEF Pin
  <2>4. Pin \in Checkpoint \cap Known
    BY <2>1, <2>2, <2>3, LastCheckpointFound
  <2>5. HardenedCheckpointHeight = LastCheckpointHeight
    BY <2>2 DEF HardenedCheckpointHeight
  <2> QED BY <2>4, <2>5, CheckpointHeights
<1>2. CASE ~AtStartup
  <2>1. pindexLastHardenedCheckpoint \in Checkpoint \cap Known /\ pindexLastHardenedCheckpoint # NoBlock
    BY <1>2, BlockTree DEF PinInv
  <2>2. Pin = pindexLastHardenedCheckpoint /\ HardenedCheckpointHeight = nHeight[Pin]
    BY <2>1 DEF Pin, HardenedCheckpointHeight
  <2> QED BY <2>1, <2>2, CheckpointHeights
<1> QED BY <1>1, <1>2

\* The pin stays, unless the node restarts.
LEMMA PinStays ==
    ASSUME UNCHANGED pindexLastHardenedCheckpoint,
           pindexLastHardenedCheckpoint # NoBlock \/ mapBlockIndex' = mapBlockIndex
    PROVE  Pin' = Pin
<1>1. CASE pindexLastHardenedCheckpoint # NoBlock
  BY <1>1 DEF Pin
<1>2. CASE mapBlockIndex' = mapBlockIndex
  BY <1>2 DEF Pin, GetLastCheckpoint
<1> QED BY <1>1, <1>2

\* pindexIntermediate is the new block or has more trust than the best block.
LEMMA IntermediateIs ==
    ASSUME NEW b \in Block
    PROVE  Intermediate(b) = b \/ Trust(Intermediate(b)) > Trust(hashBestChain)
<1> DEFINE M == {y \in chain[b] : Trust(y) > Trust(hashBestChain)}
           P(x) == /\ x = b \/ Trust(x) > Trust(hashBestChain)
                   /\ \A y \in chain[b] : Trust(y) > Trust(hashBestChain) => nHeight[x] <= nHeight[y]
<1>1. \E x \in chain[b] : P(x)
  <2>1. CASE M = {}
    BY <2>1, ChainEnds
  <2>2. CASE M # {}
    <3>1. M \subseteq Block
      BY BlockTree
    <3>2. PICK x \in M : \A y \in M : nHeight[x] <= nHeight[y]
      <4> HIDE DEF M
      <4> QED BY <2>2, <3>1, LowestExists
    <3> QED BY <3>2
  <2> QED BY <2>1, <2>2
<1>2. Intermediate(b) = CHOOSE x \in chain[b] : P(x)
  BY DEF Intermediate
<1> QED BY <1>1, <1>2

\* The three ways SetBestChain sets out.
LEMMA SetBestChainWays ==
    ASSUME NEW b, NEW v, NEW ret \in {"idle", "startup"}, SetBestChain(b, v, ret)
    PROVE  \/ /\ b # Genesis /\ pprev[b] = hashBestChain
              /\ pc' = "extend" /\ op'.new = b /\ op'.ret = ret /\ view' = v
           \/ /\ ReorganizeRefused(b)
              /\ pc' = ret /\ view' = disk
           \/ /\ ~ReorganizeRefused(b)
              /\ pc' \in {"disconnect", "connect"} /\ view' = v
              /\ op'.new = b /\ op'.inter = Intermediate(b) /\ op'.ret = ret
  BY DEF SetBestChain

\* A block that Reorganize refuses at once loses.
LEMMA RefusedLoses ==
    ASSUME NodeInv, scars = {}, pc = "idle", NEW b \in Block, ReorganizeRefused(b)
    PROVE  Lost(hashBestChain, nHeight[Pin], b)
<1> /\ hashBestChain \in Block /\ hashBestChain = disk.best /\ LostInv
    /\ chain[disk.best] \subseteq disk.index /\ PinInv /\ stubs \subseteq mapBlockIndex
    /\ Trust(hashBestChain) = nChainTrust[hashBestChain] /\ IndexInv
  BY NodeFacts
<1>1. CASE chain[b] \cap stubs # {}
  <2>1. PICK s \in chain[b] : s \in stubs
    BY <1>1
  <2>2. s \in mapBlockIndex \ disk.index
    BY <2>1 DEF IndexInv
  <2>3. Lost(hashBestChain, nHeight[Pin], s) /\ s \notin chain[hashBestChain]
    BY <2>2 DEF LostInv, Busy
  <2> QED BY <2>3, LostBelow
<1>2. CASE nHeight[Fork(hashBestChain, Intermediate(b))] < HardenedCheckpointHeight
  <2> DEFINE i == Intermediate(b)
  <2>1. HardenedCheckpointHeight = nHeight[Pin]
    BY BlockTree DEF PinInv, AtStartup, Busy, Pin, HardenedCheckpointHeight
  <2>2. i \in chain[b] /\ i \in Block
    BY IntermediateExists
  <2>3. Lost(hashBestChain, nHeight[Pin], i)
    BY <1>2, <2>1 DEF Lost
  <2>4. CASE i = b
    BY <2>3, <2>4
  <2>5. CASE i # b
    <3>1. Trust(i) > Trust(hashBestChain)
      BY <2>5, IntermediateIs
    <3>2. nChainTrust[i] > nChainTrust[hashBestChain]
      BY <2>2, <3>1, BlockTree DEF Trust
    <3>3. i \notin chain[hashBestChain]
      <4> SUFFICES ASSUME i \in chain[hashBestChain] PROVE FALSE
        OBVIOUS
      <4>1. nChainTrust[i] <= nChainTrust[hashBestChain]
        BY LowerOnChain
      <4>2. nChainTrust[i] \in Nat /\ nChainTrust[hashBestChain] \in Nat
        BY <2>2, BlockTree
      <4> HIDE DEF i
      <4> QED BY <3>2, <4>1, <4>2
    <3> QED BY <2>2, <2>3, <3>3, LostBelow
  <2> QED BY <2>4, <2>5
<1> QED BY <1>1, <1>2 DEF ReorganizeRefused

\* Accepting a block that does not become the best block.
LEMMA TrustAcceptSide ==
    ASSUME ~IoErrors, NodeInv, scars = {}, NEW b \in Block, AcceptSideBlock(b)
    PROVE  TrustInv'
<1> /\ disk \in Database /\ hashBestChain \in Block /\ hashBestChain = disk.best
    /\ Trust(hashBestChain) = nChainTrust[hashBestChain]
    /\ IndexInv /\ PinInv /\ LostInv /\ HandInv /\ stubs \subseteq mapBlockIndex
  BY NodeFacts
<1>1. /\ pc = "idle" /\ pc' = "idle" /\ ~MoreTrust(b)
      /\ b \notin mapBlockIndex /\ pprev[b] \in mapBlockIndex /\ b # Genesis
      /\ mapBlockIndex' = mapBlockIndex \cup {b}
      /\ UNCHANGED <<stubs, hashBestChain, pindexLastHardenedCheckpoint>>
      /\ disk' = WithIndex(b) /\ view' = disk'
  BY DEF AcceptSideBlock, AddToBlockIndex, Acceptable
<1>2. disk'.index = disk.index \cup {b} /\ disk'.best = disk.best /\ view'.index = disk'.index
  BY <1>1, WithIndexType
<1>3. nChainTrust[b] <= nChainTrust[hashBestChain]
  <2>1. Trust(b) = nChainTrust[b] /\ nChainTrust[b] \in Nat /\ nChainTrust[hashBestChain] \in Nat
    BY <1>1, BlockTree DEF Trust
  <2> QED BY <1>1, <2>1 DEF MoreTrust
<1>4. ~AtStartup /\ ~AtStartup'
  BY <1>1 DEF AtStartup, Busy
<1>5. Known \subseteq Known' /\ Known' \subseteq mapBlockIndex'
  <2>1. Known' = Known \cup {b, pprev[b]}
    BY <1>1, <1>2 DEF Known
  <2> QED BY <1>1, <2>1 DEF IndexInv
<1>6. Pin' = Pin
  BY <1>1, <1>4, BlockTree, PinStays DEF PinInv
<1>7. IndexInv'
  BY <1>1, <1>2, <1>3, <1>5 DEF IndexInv
<1>8. PinInv'
  BY <1>1, <1>4, <1>5 DEF PinInv
<1>9. LostInv'
  BY <1>1, <1>2, <1>6 DEF LostInv, Busy
<1>10. HandInv'
  BY <1>1 DEF HandInv, Busy
<1> QED BY <1>7, <1>8, <1>9, <1>10 DEF TrustInv

\* Accepting a block that SetBestChain tries.
LEMMA TrustAcceptBest ==
    ASSUME NodeInv, scars = {}, NEW b \in Block, AcceptBestBlock(b)
    PROVE  TrustInv'
<1> /\ disk \in Database /\ hashBestChain \in Block /\ hashBestChain = disk.best
    /\ Trust(hashBestChain) = nChainTrust[hashBestChain]
    /\ IndexInv /\ PinInv /\ LostInv /\ HandInv /\ IndexClosed /\ stubs \subseteq mapBlockIndex
    /\ chain[disk.best] \subseteq disk.index /\ mapBlockIndex \subseteq Block
  BY NodeFacts
<1> /\ Pin \in Checkpoint \cap Known /\ nHeight[Pin] \in Nat
    /\ nHeight[Pin] <= HardenedCheckpointHeight
  BY PinFound
<1>1. /\ pc = "idle" /\ SetBestChain(b, WithIndex(b), "idle") /\ CheckHardened(b)
      /\ b \notin mapBlockIndex /\ pprev[b] \in mapBlockIndex /\ b # Genesis
      /\ mapBlockIndex' = mapBlockIndex \cup {b}
      /\ UNCHANGED <<stubs, hashBestChain, pindexLastHardenedCheckpoint, disk>>
  BY DEF AcceptBestBlock, AddToBlockIndex, Acceptable
<1>2. WithIndex(b).index = disk.index \cup {b}
  BY WithIndexType
<1>3. ~AtStartup
  BY <1>1 DEF AtStartup, Busy
<1>4. Pin' = Pin /\ Known' = Known
  <2>1. Known' = Known
    BY <1>1 DEF Known
  <2> QED BY <1>1, <1>3, <2>1, BlockTree, PinStays DEF PinInv
<1>5. b \notin Known /\ Pin # b /\ b \notin stubs /\ b \in chain[b]
  BY <1>1, ChainEnds DEF IndexInv
<1>6. ASSUME pc' = "idle", view' = disk, Lost(hashBestChain, nHeight[Pin], b) PROVE TrustInv'
  <2>1. IndexInv'
    BY <1>1, <1>4, <1>6 DEF IndexInv, Busy
  <2>2. PinInv'
    BY <1>1, <1>3, <1>4, <1>6 DEF PinInv, AtStartup, Busy
  <2>3. LostInv'
    BY <1>1, <1>4, <1>6 DEF LostInv, Busy
  <2>4. HandInv'
    BY <1>6 DEF HandInv, Busy
  <2> QED BY <2>1, <2>2, <2>3, <2>4 DEF TrustInv
<1>7. ASSUME pc' \in {"extend", "disconnect", "connect"}, view' = WithIndex(b), op'.new = b,
             op'.ret = "idle", chain[b] \cap stubs = {},
             pc' = "extend" => nHeight[b] # nHeight[Pin],
             pc' \in {"disconnect", "connect"} =>
                /\ op'.inter = b \/ ~ValidChain(op'.inter)
                /\ nHeight[Fork(hashBestChain, op'.inter)] >= nHeight[Pin]
      PROVE  TrustInv'
  <2>1. IndexInv'
    BY <1>1, <1>2, <1>4, <1>5, <1>7 DEF IndexInv, Busy
  <2>2. PinInv'
    <3>1. ~AtStartup'
      BY <1>7 DEF AtStartup, Busy
    <3> QED BY <1>1, <1>3, <1>4, <3>1 DEF PinInv
  <2>3. LostInv'
    <3>1. pc' \in Busy
      BY <1>7 DEF Busy
    <3> QED BY <1>1, <1>4, <1>7, <3>1 DEF LostInv, Busy
  <2>4. HandInv'
    <3>1. pc' # "secondary"
      BY <1>7
    <3>2. op'.new \notin Known' /\ chain[op'.new] \cap stubs' = {}
      BY <1>1, <1>4, <1>5, <1>7
    <3>3. pc' = "extend" => nHeight[op'.new] # nHeight[Pin']
      BY <1>4, <1>7
    <3>4. pc' \in {"disconnect", "connect"} =>
             /\ op'.inter = op'.new \/ ~ValidChain(op'.inter)
             /\ nHeight[Fork(hashBestChain', op'.inter)] >= nHeight[Pin']
      BY <1>1, <1>4, <1>7
    <3> QED BY <3>1, <3>2, <3>3, <3>4 DEF HandInv
  <2> QED BY <2>1, <2>2, <2>3, <2>4 DEF TrustInv
<1>8. CASE pprev[b] = hashBestChain /\ pc' = "extend" /\ op'.new = b /\ op'.ret = "idle" /\ view' = WithIndex(b)
  <2>1. nHeight[b] # nHeight[Pin]
    BY <1>1, <1>5 DEF CheckHardened
  <2>2. chain[b] \cap stubs = {}
    <3>1. chain[b] = chain[hashBestChain] \cup {b}
      BY <1>1, <1>8, BlockTree
    <3> QED BY <1>5, <3>1 DEF IndexInv
  <2> QED BY <1>7, <1>8, <2>1, <2>2
<1>9. CASE ReorganizeRefused(b) /\ pc' = "idle" /\ view' = disk
  BY <1>1, <1>6, <1>9, RefusedLoses
<1>10. CASE /\ ~ReorganizeRefused(b) /\ pc' \in {"disconnect", "connect"} /\ view' = WithIndex(b)
            /\ op'.new = b /\ op'.inter = Intermediate(b) /\ op'.ret = "idle"
  <2> DEFINE i == Intermediate(b)
             f == Fork(hashBestChain, i)
  <2>1. i \in chain[b] /\ i \in Block
    BY IntermediateExists
  <2>2. chain[b] \cap stubs = {} /\ ~(nHeight[f] < HardenedCheckpointHeight)
    BY <1>10 DEF ReorganizeRefused
  <2>3. nHeight[f] >= nHeight[Pin]
    <3>1. nHeight[f] \in Nat
      BY <2>1, ForkExists, BlockTree
    <3>2. HardenedCheckpointHeight \in Nat
      BY <1>3, CheckpointHeights, BlockTree DEF HardenedCheckpointHeight, PinInv
    <3> HIDE DEF f
    <3> QED BY <2>2, <3>1, <3>2
  <2>4. i = b \/ ~ValidChain(i)
    <3> SUFFICES ASSUME i # b PROVE ~ValidChain(i)
      OBVIOUS
    <3>1. chain[b] \subseteq mapBlockIndex \cup {b}
      <4>1. \A c \in (mapBlockIndex \cup {b}) \ (stubs \cup {Genesis}) : pprev[c] \in mapBlockIndex \cup {b}
        BY <1>1 DEF IndexClosed
      <4> QED BY <2>2, <4>1, WalkDown
    <3>2. i \in mapBlockIndex
      BY <2>1, <3>1
    <3>3. Trust(i) > Trust(hashBestChain)
      BY IntermediateIs
    <3>4. nChainTrust[i] \in Nat /\ nChainTrust[hashBestChain] \in Nat
      BY <2>1, BlockTree
    <3>5. Trust(i) \in {0, nChainTrust[i]}
      BY DEF Trust
    <3>6. i \notin disk.index
      <4> SUFFICES ASSUME i \in disk.index PROVE FALSE
        OBVIOUS
      <4>1. nChainTrust[i] <= nChainTrust[hashBestChain]
        BY DEF IndexInv
      <4> HIDE DEF i
      <4> QED BY <3>3, <3>4, <3>5, <4>1
    <3>7. Lost(hashBestChain, nHeight[Pin], i)
      BY <1>1, <3>2, <3>6 DEF LostInv, Busy
    <3>8. ~(nHeight[f] < nHeight[Pin])
      <4>1. nHeight[f] \in Nat
        BY <2>1, ForkExists, BlockTree
      <4> HIDE DEF f
      <4> QED BY <2>3, <4>1
    <3> QED BY <3>7, <3>8 DEF Lost
  <2> QED BY <1>7, <1>10, <2>2, <2>3, <2>4
<1> QED BY <1>1, <1>8, <1>9, <1>10, SetBestChainWays

\* LoadBlockIndex tries a better tip: it can only be one of equal trust.
LEMMA TrustLoad ==
    ASSUME NodeInv, scars = {}, NEW b \in Block, LoadBetterTip(b)
    PROVE  TrustInv'
<1> /\ disk \in Database /\ hashBestChain \in Block /\ hashBestChain = disk.best
    /\ Trust(hashBestChain) = nChainTrust[hashBestChain]
    /\ IndexInv /\ PinInv /\ LostInv /\ HandInv
  BY NodeFacts
<1> /\ Pin \in Block /\ nHeight[Pin] \in Nat /\ nHeight[Pin] <= HardenedCheckpointHeight
    /\ nHeight[Pin] <= LastCheckpointHeight
  BY PinFound
<1>1. /\ pc = "load" /\ SetBestChain(b, disk, "startup") /\ b \in BetterTips
      /\ UNCHANGED <<mapBlockIndex, stubs, hashBestChain, pindexLastHardenedCheckpoint, disk>>
  BY DEF LoadBetterTip, memory
<1>2. AtStartup
  BY <1>1 DEF AtStartup
<1>3. Pin' = Pin /\ Known' = Known
  BY <1>1, PinStays DEF Known
<1>4. b \in mapBlockIndex /\ Trust(b) >= Trust(hashBestChain)
  <2>1. Trust(b) \in Nat /\ Trust(hashBestChain) \in Nat
    BY BlockTree DEF Trust
  <2> QED BY <1>1, <2>1 DEF BetterTips, MoreTrust
<1>5. b \in disk.index
  <2>1. Trust(b) > 0
    <3>1. nChainTrust[hashBestChain] > 0 /\ nChainTrust[hashBestChain] \in Nat /\ Trust(b) \in Nat
      BY TrustPositive, BlockTree DEF Trust
    <3> QED BY <1>4, <3>1
  <2>2. b \notin stubs
    BY <2>1, TrustPositive
  <2> QED BY <1>2, <1>4, <2>2 DEF PinInv
<1>6. nChainTrust[b] <= nChainTrust[hashBestChain]
  BY <1>5 DEF IndexInv
<1>7. ASSUME view' = disk, AtStartup',
             pc' \notin Busy \/ (pc' \in {"disconnect", "connect"} /\ op'.new = b /\ op'.inter = b
                                  /\ chain[b] \cap stubs = {}
                                  /\ nHeight[Fork(hashBestChain, b)] >= nHeight[Pin])
      PROVE  TrustInv'
  <2>1. IndexInv'
    BY <1>1, <1>3, <1>7 DEF IndexInv
  <2>2. PinInv'
    BY <1>1, <1>2, <1>3, <1>7 DEF PinInv
  <2>3. LostInv'
    BY <1>1, <1>3, <1>7 DEF LostInv, Busy
  <2>4. HandInv'
    <3>1. pc' # "secondary" /\ pc' # "extend"
      BY <1>7 DEF Busy
    <3>2. pc' \in Busy => op'.new \in disk'.index /\ chain[op'.new] \cap stubs' = {}
      BY <1>1, <1>5, <1>7
    <3>3. pc' \in {"disconnect", "connect"} =>
             /\ op'.inter = op'.new
             /\ nHeight[Fork(hashBestChain', op'.inter)] >= nHeight[Pin']
      BY <1>1, <1>3, <1>7 DEF Busy
    <3> QED BY <3>1, <3>2, <3>3 DEF HandInv
  <2> QED BY <2>1, <2>2, <2>3, <2>4 DEF TrustInv
<1>8. CASE b # Genesis /\ pprev[b] = hashBestChain
  <2>1. nChainTrust[b] > nChainTrust[hashBestChain] /\ nChainTrust[b] \in Nat /\ nChainTrust[hashBestChain] \in Nat
    BY <1>8, BlockTree
  <2> QED BY <1>6, <2>1
<1>9. CASE pc' = "startup" /\ view' = disk
  BY <1>7, <1>9 DEF AtStartup, Busy
<1>10. CASE /\ ~ReorganizeRefused(b) /\ pc' \in {"disconnect", "connect"} /\ view' = disk
            /\ op'.new = b /\ op'.inter = Intermediate(b) /\ op'.ret = "startup"
  <2> DEFINE i == Intermediate(b)
  <2>1. i = b
    <3> SUFFICES ASSUME i # b PROVE FALSE
      OBVIOUS
    <3>1. Trust(i) > Trust(hashBestChain) /\ i \in chain[b] /\ i \in Block
      BY IntermediateIs, IntermediateExists
    <3>2. nChainTrust[i] <= nChainTrust[b]
      BY <3>1, LowerOnChain
    <3>3. /\ nChainTrust[i] \in Nat /\ nChainTrust[b] \in Nat /\ nChainTrust[hashBestChain] \in Nat
          /\ Trust(i) \in {0, nChainTrust[i]}
      BY <3>1, BlockTree DEF Trust
    <3> HIDE DEF i
    <3> QED BY <1>6, <3>1, <3>2, <3>3
  <2>2. chain[b] \cap stubs = {} /\ ~(nHeight[Fork(hashBestChain, b)] < HardenedCheckpointHeight)
    BY <1>10, <2>1 DEF ReorganizeRefused
  <2>3. nHeight[Fork(hashBestChain, b)] >= nHeight[Pin]
    <3>1. nHeight[Fork(hashBestChain, b)] \in Nat
      BY ForkExists, BlockTree
    <3>2. HardenedCheckpointHeight = LastCheckpointHeight /\ LastCheckpointHeight \in Nat
      BY <1>2, CheckpointHeights DEF PinInv, HardenedCheckpointHeight
    <3> QED BY <2>2, <3>1, <3>2
  <2>4. AtStartup'
    BY <1>10 DEF AtStartup, Busy
  <2> QED BY <1>7, <1>10, <2>1, <2>2, <2>3, <2>4
<1> QED BY <1>1, <1>8, <1>9, <1>10, SetBestChainWays

\* A crash: what is not stored is forgotten, and the checkpoint found again.
LEMMA TrustRestart ==
    ASSUME NodeInv, scars = {}, Restart
    PROVE  TrustInv'
<1> /\ disk \in Database /\ hashBestChain \in Block /\ hashBestChain = disk.best
    /\ IndexInv /\ PinInv /\ LostInv /\ HandInv /\ chain[disk.best] \subseteq disk.index
  BY NodeFacts
<1> Pin \in Checkpoint \cap Known /\ nHeight[Pin] \in Nat
  BY PinFound
<1> DEFINE parents == {pprev[b] : b \in disk.index \ {Genesis}}
<1>1. /\ mapBlockIndex' = disk.index \cup parents /\ stubs' = parents \ disk.index
      /\ hashBestChain' = disk.best /\ view' = disk /\ disk' = disk
      /\ pc' = "load" /\ pindexLastHardenedCheckpoint' = NoBlock
  BY DEF Restart
<1>2. Known' = Known /\ mapBlockIndex' = Known
  BY <1>1 DEF Known
<1>3. AtStartup' /\ pc' \notin Busy
  BY <1>1 DEF AtStartup, Busy
<1>4. Pin' \in Checkpoint /\ nHeight[Pin] <= nHeight[Pin']
  <2>1. Pin' = GetLastCheckpoint(mapBlockIndex)'
    BY <1>1 DEF Pin
  <2>2. Pin' = GetLastCheckpoint(Known)
    BY <1>2, <2>1 DEF GetLastCheckpoint
  <2> QED BY <2>2, LastCheckpointFound
<1>5. IndexInv'
  BY <1>1, <1>2, <1>3 DEF IndexInv
<1>6. PinInv'
  BY <1>1, <1>2, <1>3 DEF PinInv
<1>7. LostInv'
  <2> SUFFICES ASSUME NEW s \in Known, s \notin disk.index
               PROVE  Lost(hashBestChain, nHeight[Pin'], s)
    BY <1>1, <1>2, <1>3 DEF LostInv
  <2>1. s \in mapBlockIndex /\ s \in Block
    BY NodeFacts DEF IndexInv
  <2>2. Lost(hashBestChain, nHeight[Pin], s)
    BY <2>1 DEF LostInv, HandInv
  <2>3. nHeight[Fork(hashBestChain, s)] \in Nat /\ nHeight[Pin'] \in Nat
    BY <1>4, <2>1, ForkExists, BlockTree
  <2>4. nHeight[Fork(hashBestChain, s)] < nHeight[Pin] => nHeight[Fork(hashBestChain, s)] < nHeight[Pin']
    BY <1>4, <2>3
  <2> QED BY <2>2, <2>4 DEF Lost
<1>8. HandInv'
  BY <1>3 DEF HandInv, Busy
<1> QED BY <1>5, <1>6, <1>7, <1>8 DEF TrustInv

\* AppInit2 chooses the checkpoint; and steps that touch none of this.
LEMMA TrustQuiet ==
    ASSUME NodeInv, scars = {},
           \/ SetHardenedCheckpoint \/ LoadNoBetterTip \/ UNCHANGED vars
           \/ \E t \in Tx : AcceptToMemoryPool(t)
    PROVE  TrustInv'
<1> IndexInv /\ PinInv /\ LostInv /\ HandInv
  BY NodeFacts
<1> Pin \in Checkpoint \cap Known
  BY PinFound
<1>1. /\ UNCHANGED <<mapBlockIndex, stubs, hashBestChain, disk, view, op>>
      /\ pc' = pc \/ (pc \notin Busy /\ pc' \notin Busy)
      /\ \/ UNCHANGED pindexLastHardenedCheckpoint /\ AtStartup' = AtStartup
         \/ AtStartup /\ ~AtStartup' /\ pindexLastHardenedCheckpoint' = GetLastCheckpoint(mapBlockIndex)
  BY DEF SetHardenedCheckpoint, LoadNoBetterTip, AcceptToMemoryPool, vars, memory, AtStartup, Busy
<1>2. Known' = Known
  BY <1>1 DEF Known
<1>3. Pin' = Pin /\ PinInv'
  <2>1. CASE UNCHANGED pindexLastHardenedCheckpoint /\ AtStartup' = AtStartup
    <3>1. Pin' = Pin
      BY <1>1, <2>1, PinStays
    <3> QED BY <1>1, <1>2, <2>1, <3>1 DEF PinInv
  <2>2. CASE AtStartup /\ ~AtStartup' /\ pindexLastHardenedCheckpoint' = GetLastCheckpoint(mapBlockIndex)
    <3>1. pindexLastHardenedCheckpoint' = Pin
      BY <2>2 DEF PinInv, Pin
    <3>2. Pin' = Pin
      BY <3>1, BlockTree DEF Pin
    <3> QED BY <1>2, <2>2, <3>1, <3>2 DEF PinInv
  <2> QED BY <1>1, <2>1, <2>2
<1>4. IndexInv'
  BY <1>1, <1>2 DEF IndexInv
<1>5. LostInv'
  BY <1>1, <1>3 DEF LostInv, Busy
<1>6. HandInv'
  BY <1>1, <1>2, <1>3 DEF HandInv, Busy
<1> QED BY <1>3, <1>4, <1>5, <1>6 DEF TrustInv

\* A commit that makes the new block the best block.
LEMMA TrustCommit ==
    ASSUME NodeInv, scars = {}, pc \in Busy,
           disk.index \subseteq disk'.index, op.new \in disk'.index,
           \A x \in disk'.index : x \in disk.index \/ x \in chain[hashBestChain] \/ x \in chain[op.new],
           disk'.best = op.new, view' = disk', hashBestChain' = op.new, pc' = op.ret,
           UNCHANGED <<mapBlockIndex, stubs, pindexLastHardenedCheckpoint>>,
           nChainTrust[op.new] >= nChainTrust[hashBestChain],
           \A s \in mapBlockIndex : Lost(hashBestChain, nHeight[Pin], s) => Lost(op.new, nHeight[Pin], s)
    PROVE  TrustInv'
<1> DEFINE n == op.new
<1> /\ hashBestChain \in Block /\ hashBestChain = disk.best /\ op \in OpType
    /\ IndexInv /\ PinInv /\ LostInv /\ HandInv /\ chain[disk.best] \subseteq disk.index
    /\ disk.index \subseteq Block /\ n \in Block /\ chain[n] \subseteq mapBlockIndex
  BY NodeFacts
<1>1. op.ret \in {"idle", "startup"}
  BY DEF OpType
<1>2. pc' \notin Busy /\ (AtStartup' <=> AtStartup)
  BY <1>1 DEF AtStartup, Busy
<1>3. Pin' = Pin
  BY PinStays
<1>4. Known \subseteq Known'
  BY DEF Known
<1>5. Known' \subseteq mapBlockIndex
  <2>1. disk'.index \subseteq disk.index \cup chain[n]
    OBVIOUS
  <2>2. \A x \in chain[n] \ {Genesis} : pprev[x] \in chain[n]
    BY ChainTransitive, ChainEnds, BlockTree
  <2>3. Known' \subseteq Known \cup chain[n]
    BY <2>1, <2>2 DEF Known
  <2> QED BY <2>3 DEF IndexInv
<1>6. \A x \in disk'.index : nChainTrust[x] <= nChainTrust[n]
  <2> SUFFICES ASSUME NEW x \in disk'.index PROVE nChainTrust[x] <= nChainTrust[n]
    OBVIOUS
  <2>1. x \in Block /\ nChainTrust[x] \in Nat /\ nChainTrust[n] \in Nat /\ nChainTrust[hashBestChain] \in Nat
    BY BlockTree
  <2>2. nChainTrust[x] <= nChainTrust[hashBestChain] \/ nChainTrust[x] <= nChainTrust[n]
    BY LowerOnChain DEF IndexInv
  <2> QED BY <2>1, <2>2
<1>7. stubs \cap disk'.index = {}
  BY DEF IndexInv, HandInv
<1>8. IndexInv'
  BY <1>2, <1>5, <1>6, <1>7 DEF IndexInv
<1>9. PinInv'
  BY <1>2, <1>4 DEF PinInv
<1>10. LostInv'
  BY <1>2, <1>3 DEF LostInv
<1>11. HandInv'
  BY <1>2 DEF HandInv, Busy
<1> QED BY <1>8, <1>9, <1>10, <1>11 DEF TrustInv

\* SetBestChain gives the new block up: its chain is invalid.
LEMMA TrustAbort ==
    ASSUME NodeInv, scars = {}, pc \in Busy, Abort, ~ValidChain(op.new)
    PROVE  TrustInv'
<1> /\ op \in OpType /\ IndexInv /\ PinInv /\ LostInv /\ HandInv
    /\ hashBestChain = disk.best /\ chain[disk.best] \subseteq disk.index
  BY NodeFacts
<1>1. /\ UNCHANGED <<mapBlockIndex, stubs, hashBestChain, pindexLastHardenedCheckpoint, disk>>
      /\ view' = disk /\ pc' = op.ret /\ op.ret \in {"idle", "startup"}
  BY DEF Abort, memory, OpType
<1>2. pc' \notin Busy /\ (AtStartup' <=> AtStartup)
  BY <1>1 DEF AtStartup, Busy
<1>3. Pin' = Pin /\ Known' = Known
  BY <1>1, PinStays DEF Known
<1>4. IndexInv'
  BY <1>1, <1>2, <1>3 DEF IndexInv
<1>5. PinInv'
  BY <1>1, <1>2, <1>3 DEF PinInv
<1>6. LostInv'
  <2>1. \A s : ~ValidChain(s) => Lost(hashBestChain, nHeight[Pin], s)
    BY DEF Lost
  <2> QED BY <1>1, <1>2, <1>3, <2>1 DEF LostInv
<1>7. HandInv'
  BY <1>2 DEF HandInv, Busy
<1> QED BY <1>4, <1>5, <1>6, <1>7 DEF TrustInv

\* The plain extension.
LEMMA TrustExtend ==
    ASSUME PlainTree, NodeInv, scars = {}, Extend \/ ExtendFails
    PROVE  TrustInv'
<1> DEFINE n == op.new
<1>1. pc = "extend" /\ pc \in Busy
  BY DEF Extend, ExtendFails, Busy
<1>2. n \in Block \ {Genesis} /\ pprev[n] = op.at /\ op.at = hashBestChain
  BY <1>1 DEF NodeInv, ChainInv, IInv, OpInv, MoveInv, Busy
<1>3. CASE Extend
  <2>1. /\ view' = WithBest(Connected(n), n) /\ disk' = view' /\ hashBestChain' = n /\ pc' = op.ret
        /\ UNCHANGED <<mapBlockIndex, stubs, pindexLastHardenedCheckpoint>>
    BY <1>3 DEF Extend, ConnectAndCommit, NewBestBlock
  <2>2. view \in Database /\ IndexInv /\ HandInv /\ mapBlockIndex \subseteq Block
    BY NodeFacts
  <2>3. disk'.best = n /\ disk'.index = Connected(n).index
    BY <1>2, <2>1, <2>2, ConnectedType, WithBestType
  <2>4. disk'.index = view.index \cup {n, hashBestChain}
    BY <1>2, <2>3 DEF Connected
  <2>5. n \in chain[n] /\ hashBestChain \in chain[hashBestChain]
    BY <1>2, NodeFacts, ChainEnds
  <2>6. \A x \in disk'.index : x \in disk.index \/ x \in chain[hashBestChain] \/ x \in chain[n]
    BY <2>2, <2>4, <2>5 DEF IndexInv
  <2>7. disk.index \subseteq disk'.index
    BY <2>2, <2>4 DEF IndexInv
  <2>8. nChainTrust[n] >= nChainTrust[hashBestChain]
    <3>1. nChainTrust[n] > nChainTrust[hashBestChain] /\ nChainTrust[n] \in Nat /\ nChainTrust[hashBestChain] \in Nat
      BY <1>2, BlockTree
    <3> QED BY <3>1
  <2>9. nHeight[n] # nHeight[Pin] /\ nHeight[Pin] \in Nat
    BY <1>1, <2>2, PinFound DEF HandInv
  <2>10. \A s \in mapBlockIndex : Lost(hashBestChain, nHeight[Pin], s) => Lost(n, nHeight[Pin], s)
    BY <1>2, <2>2, <2>9, LostAfterExtend
  <2> QED BY <1>1, <2>1, <2>3, <2>4, <2>6, <2>7, <2>8, <2>10, TrustCommit
<1>4. CASE ExtendFails
  <2>1. ~CheckConnect(n) /\ Abort
    BY <1>4 DEF ExtendFails
  <2>2. ~Valid(n)
    BY <1>1, <1>2, <2>1, ConnectInHand DEF NodeInv
  <2>3. ~ValidChain(n)
    BY <1>2, <2>2, ValidChainGrows
  <2> QED BY <1>1, <2>1, <2>3, TrustAbort
<1> QED BY <1>3, <1>4

\* Reorganize before its commit.
LEMMA TrustReorganize ==
    ASSUME PlainTree, NodeInv, scars = {}, DisconnectBlock \/ ConnectBlock \/ ConnectBlockFails
    PROVE  TrustInv'
<1> /\ hashBestChain \in Block /\ op \in OpType /\ view \in Database
    /\ IndexInv /\ PinInv /\ LostInv /\ HandInv
  BY NodeFacts
<1>1. pc \in {"disconnect", "connect"} /\ pc \in Busy
  BY DEF DisconnectBlock, ConnectBlock, ConnectBlockFails, Busy
<1>2. op.new \in Block /\ op.inter \in Block /\ op.at \in Block /\ op.inter \in chain[op.new]
  BY <1>1, NodeFacts DEF NodeInv, MoveInv
<1>3. ASSUME NEW at, op' = [op EXCEPT !.at = at], pc' \in {"disconnect", "connect"},
             view.index \subseteq view'.index,
             \A x \in view'.index : x \in view.index \/ x \in chain[hashBestChain] \/ x \in chain[op.new],
             UNCHANGED <<mapBlockIndex, stubs, hashBestChain, pindexLastHardenedCheckpoint, disk>>
      PROVE  TrustInv'
  <2>1. op'.new = op.new /\ op'.inter = op.inter /\ op'.ret = op.ret
    BY <1>3 DEF OpType
  <2>2. pc' \in Busy /\ (AtStartup' <=> AtStartup)
    BY <1>1, <1>3, <2>1 DEF AtStartup, Busy
  <2>3. Pin' = Pin /\ Known' = Known
    BY <1>3, PinStays DEF Known
  <2>4. IndexInv'
    BY <1>1, <1>3, <2>1, <2>2, <2>3 DEF IndexInv
  <2>5. PinInv'
    BY <1>3, <2>2, <2>3 DEF PinInv
  <2>6. LostInv'
    BY <1>1, <1>3, <2>1, <2>2, <2>3 DEF LostInv
  <2>7. HandInv'
    BY <1>1, <1>3, <2>1, <2>2, <2>3 DEF HandInv
  <2> QED BY <2>4, <2>5, <2>6, <2>7 DEF TrustInv
<1>4. CASE DisconnectBlock
  <2> DEFINE b == op.at
  <2>1. /\ pc = "disconnect" /\ op' = [op EXCEPT !.at = pprev[b]] /\ view' = Disconnected(b)
        /\ pc' \in {"disconnect", "connect"}
        /\ UNCHANGED <<mapBlockIndex, stubs, hashBestChain, pindexLastHardenedCheckpoint, disk>>
    BY <1>4 DEF DisconnectBlock
  <2>2. b \in Block \ {Genesis} /\ b \in chain[hashBestChain]
    <3>1. op.fork \in chain[b] /\ b # op.fork
      BY <2>1 DEF NodeInv, ChainInv, IInv, OpInv
    <3>2. b # Genesis
      BY <3>1, BlockTree
    <3> QED BY <1>2, <2>1, <3>2 DEF NodeInv, ChainInv, TipInv
  <2>3. pprev[b] \in chain[hashBestChain]
    BY <2>2, ChainTransitive, ChainEnds, BlockTree
  <2>4. view'.index = view.index \cup {pprev[b]}
    BY <2>1 DEF Disconnected
  <2> QED BY <1>3, <2>1, <2>3, <2>4
<1>5. CASE ConnectBlock
  <2>1. PICK x \in NextTo(op.inter) : op' = [op EXCEPT !.at = x] /\ view' = Connected(x)
    BY <1>5 DEF ConnectBlock
  <2>2. /\ pc' = pc
        /\ UNCHANGED <<mapBlockIndex, stubs, hashBestChain, pindexLastHardenedCheckpoint, disk>>
    BY <1>5 DEF ConnectBlock
  <2>3. x \in Block \ {Genesis} /\ x \in chain[op.inter]
    BY <1>2, NextToType DEF NextTo
  <2>4. x \in chain[op.new] /\ pprev[x] \in chain[op.new]
    BY <1>2, <2>3, ChainTransitive, ChainEnds, BlockTree
  <2>5. view'.index = view.index \cup {x, pprev[x]}
    BY <2>1 DEF Connected
  <2> QED BY <1>1, <1>3, <2>1, <2>2, <2>4, <2>5
<1>6. CASE ConnectBlockFails
  <2>1. PICK x \in NextTo(op.inter) : ~CheckConnect(x)
    BY <1>6 DEF ConnectBlockFails
  <2>2. x \in Block \ {Genesis} /\ x \in chain[op.inter] /\ pprev[x] = op.at
    BY <1>2, <2>1, NextToType DEF NextTo
  <2>3. ~Valid(x)
    BY <1>1, <2>1, <2>2, ConnectInHand DEF NodeInv
  <2>4. x \in chain[op.new]
    BY <1>2, <2>2, ChainTransitive
  <2>5. ~ValidChain(op.new)
    BY <2>2, <2>3, <2>4 DEF ValidChain
  <2> QED BY <1>1, <1>6, <2>5, TrustAbort DEF ConnectBlockFails
<1> QED BY <1>4, <1>5, <1>6

\* The commit of Reorganize: it has reached the new block, as an intermediate
\* block would be on an invalid chain.
LEMMA TrustCommitReorganize ==
    ASSUME PlainTree, NodeInv, scars = {}, CommitReorganize
    PROVE  TrustInv'
<1> DEFINE n == op.new
<1> /\ hashBestChain \in Block /\ view \in Database /\ IndexInv /\ HandInv
    /\ mapBlockIndex \subseteq Block
  BY NodeFacts
<1>1. /\ pc = "connect" /\ pc \in Busy /\ op.at = op.inter
      /\ view' = WithBest(view, op.inter) /\ disk' = view'
      /\ UNCHANGED <<mapBlockIndex, stubs, pindexLastHardenedCheckpoint>>
  BY DEF CommitReorganize, Busy
<1>2. n \in Block /\ op.inter \in Block
  BY <1>1, NodeFacts
<1>3. op.inter = n
  <2>1. ValidChain(op.inter)
    BY <1>1 DEF NodeInv, ValidInv, Cursor
  <2> QED BY <1>1, <2>1 DEF HandInv
<1>4. hashBestChain' = n /\ pc' = op.ret
  BY <1>3 DEF CommitReorganize, NewBestBlock
<1>5. disk'.best = n /\ disk'.index = view.index
  BY <1>1, <1>2, <1>3, WithBestType
<1>6. n \in view.index /\ nChainTrust[n] >= nChainTrust[hashBestChain]
  BY <1>1, <1>3 DEF NodeInv, MoveInv
<1>7. \A x \in disk'.index : x \in disk.index \/ x \in chain[hashBestChain] \/ x \in chain[n]
  BY <1>5 DEF IndexInv
<1>8. disk.index \subseteq disk'.index
  BY <1>5 DEF IndexInv
<1>9. nHeight[Fork(hashBestChain, n)] >= nHeight[Pin] /\ nHeight[Pin] \in Nat
  BY <1>1, <1>3, PinFound DEF HandInv
<1>10. \A s \in mapBlockIndex : Lost(hashBestChain, nHeight[Pin], s) => Lost(n, nHeight[Pin], s)
  BY <1>2, <1>9, LostAfterReorganize
<1> QED BY <1>1, <1>4, <1>5, <1>6, <1>7, <1>8, <1>10, TrustCommit

\* A new node knows Genesis only.
LEMMA TrustInvInit == Init => TrustInv
<1> SUFFICES ASSUME Init PROVE TrustInv
  OBVIOUS
<1>1. /\ mapBlockIndex = {Genesis} /\ disk.index = {Genesis} /\ view.index = {Genesis}
      /\ disk.best = Genesis /\ stubs = {} /\ pc = "idle"
      /\ pindexLastHardenedCheckpoint = Genesis
  BY DEF Init
<1>2. nChainTrust[Genesis] \in Nat /\ Genesis \in Checkpoint
  BY BlockTree
<1>3. Known = {Genesis}
  BY <1>1 DEF Known
<1>4. IndexInv
  BY <1>1, <1>2, <1>3 DEF IndexInv
<1>5. PinInv
  BY <1>1, <1>2, <1>3 DEF PinInv, AtStartup, Busy
<1>6. LostInv
  BY <1>1 DEF LostInv
<1>7. HandInv
  BY <1>1 DEF HandInv, Busy
<1> QED BY <1>4, <1>5, <1>6, <1>7 DEF TrustInv

\* Without I/O errors every step keeps NodeInv.
LEMMA NodeInvStep ==
    ASSUME PlainTree, ~IoErrors, NodeInv, [Next]_vars
    PROVE  NodeInv'
<1>1. ChainInv' /\ MoveInv' /\ SideInv' /\ ValidInv'
  BY ChainInvStep, MoveInvStep, SideInvStep, ValidInvStep DEF NodeInv, ChainInv
<1>2. CASE scars = {}
  <2>1. pc # "secondary"
    BY <1>2, NodeFacts DEF HandInv
  <2>2. ~(ExtendCommitFails \/ ReorganizeIoError \/ ConnectSecondary \/ SecondaryFails \/ SecondaryCommitFails)
    BY <2>1 DEF ExtendCommitFails, ConnectAndLose, ReorganizeIoError, ConnectSecondary,
                SecondaryFails, SecondaryCommitFails
  <2>3. TrustInv'
    BY <1>2, <2>2, TrustAcceptSide, TrustAcceptBest, TrustLoad, TrustRestart, TrustQuiet,
       TrustExtend, TrustReorganize, TrustCommitReorganize DEF Next, SetBestChainStep
  <2> QED BY <1>1, <2>3 DEF NodeInv
<1>3. CASE scars # {}
  BY <1>1, <1>3, ScarsStay DEF NodeInv, TrustInv
<1> QED BY <1>2, <1>3

\* For every tree in which the shortcuts of ConnectBlock let no invalid block
\* through, on a machine without I/O errors: until a batch with UTXO writes is
\* dropped, whatever blocks arrive in whatever order and whenever the process
\* dies, the best chain of the idle node has the greatest trust of the valid
\* chains in the index that fork off at or above the last checkpoint.
THEOREM ValidChainOfGreatestTrust ==
    ASSUME PlainTree, ~IoErrors
    PROVE  Spec => [](scars = {} => GreatestTrustWins)
<1>1. Init => NodeInv
  BY ChainInvInit, MoveInvInit, SideInvInit, ValidInvInit, TrustInvInit DEF NodeInv
<1>2. NodeInv /\ [Next]_vars => NodeInv'
  BY NodeInvStep
<1>3. NodeInv => (scars = {} => GreatestTrustWins)
  <2> SUFFICES ASSUME NodeInv, scars = {}, pc = "idle", NEW b \in mapBlockIndex, ValidChain(b),
                      nHeight[Fork(hashBestChain, b)] >= LastCheckpointHeight
               PROVE  Trust(b) <= Trust(hashBestChain)
    BY DEF GreatestTrustWins
  <2>1. /\ hashBestChain \in Block /\ hashBestChain = disk.best /\ b \in Block
        /\ Trust(hashBestChain) = nChainTrust[hashBestChain] /\ IndexInv /\ LostInv
    BY NodeFacts
  <2>2. b \in disk.index
    <3> SUFFICES ASSUME b \notin disk.index PROVE FALSE
      OBVIOUS
    <3>1. Lost(hashBestChain, nHeight[Pin], b)
      BY <2>1 DEF LostInv, Busy
    <3>2. nHeight[Fork(hashBestChain, b)] < nHeight[Pin]
      BY <3>1 DEF Lost
    <3>3. nHeight[Fork(hashBestChain, b)] \in Nat
      BY <2>1, ForkExists, BlockTree
    <3>4. nHeight[Pin] \in Nat /\ nHeight[Pin] <= LastCheckpointHeight /\ LastCheckpointHeight \in Nat
      BY PinFound, CheckpointHeights
    <3> QED BY <3>2, <3>3, <3>4
  <2>3. nChainTrust[b] <= nChainTrust[hashBestChain] /\ nChainTrust[hashBestChain] \in Nat
    BY <2>1, <2>2, BlockTree DEF IndexInv
  <2> QED BY <2>1, <2>3 DEF Trust
<1> QED BY <1>1, <1>2, <1>3, PTL DEF Spec

=============================================================================
