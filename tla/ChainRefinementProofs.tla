----------------------- MODULE ChainRefinementProofs ------------------------
(***************************************************************************)
(* How the best chain moves: the trust of the stored chain never goes      *)
(* down, the checkpoint found at startup is never left, and, for every     *)
(* tree of well-formed chains, ChainState implements Ledger.               *)
(***************************************************************************)
EXTENDS ChainRefinement, ChainStateUtxoProofs

\* The checkpoint that Reorganize protects.
Pinned(b) == pindexLastHardenedCheckpoint \in chain[b]

\* What holds of the two best blocks, in memory and on disk, also after a
\* postponed connect has failed; and of the branch that SetBestChain moves to.
MoveInv ==
    /\ hashBestChain \in mapBlockIndex \ stubs
    /\ disk.best \in disk.index
    /\ pc # "secondary" => disk.best \in chain[hashBestChain]
    /\ pc \in Busy => op.new \in mapBlockIndex \ stubs
    /\ pc = "extend" => op.at = hashBestChain
    /\ pc \in {"disconnect", "connect"} =>
          /\ op.inter \in chain[op.new] /\ op.inter # hashBestChain
          /\ nChainTrust[op.inter] >= nChainTrust[hashBestChain]
          /\ Pinned(hashBestChain) => Pinned(op.inter)
          /\ op.at \in view.index \cup {hashBestChain}
    /\ pc = "secondary" => op.at = disk.best /\ op.at \in chain[op.new]

-----------------------------------------------------------------------------
(* Chains                                                                  *)

\* Along a chain neither height nor trust goes down.
LEMMA LowerOnChain ==
    \A b \in Block : \A c \in chain[b] :
        c \in Block /\ nHeight[c] <= nHeight[b] /\ nChainTrust[c] <= nChainTrust[b]
<1> DEFINE S == {b \in Block : \A c \in chain[b] :
                    nHeight[c] <= nHeight[b] /\ nChainTrust[c] <= nChainTrust[b]}
<1>1. Genesis \in S
  BY BlockTree
<1>2. ASSUME NEW b \in Block \ {Genesis}, pprev[b] \in S PROVE b \in S
  <2>1. \A c \in chain[b] : c = b \/ c \in chain[pprev[b]]
    BY BlockTree
  <2>2. \A c \in chain[b] : /\ c \in Block /\ nHeight[c] \in Nat /\ nChainTrust[c] \in Nat
                            /\ nHeight[pprev[b]] \in Nat /\ nChainTrust[pprev[b]] \in Nat
    BY BlockTree
  <2>3. /\ nHeight[b] = nHeight[pprev[b]] + 1 /\ nChainTrust[b] > nChainTrust[pprev[b]]
        /\ nHeight[b] \in Nat /\ nChainTrust[b] \in Nat
    BY BlockTree
  <2> QED BY <1>2, <2>1, <2>2, <2>3
<1>3. \A b \in Block : b \in S
  <2> HIDE DEF S
  <2>1. S \subseteq Block  BY DEF S
  <2> QED BY <1>1, <1>2, <2>1, TreeInduction
<1> QED BY <1>3, BlockTree

\* Of two blocks on one chain the lower is on the chain of the higher.
LEMMA OnOneChain ==
    \A b \in Block : \A x, y \in chain[b] : nHeight[y] <= nHeight[x] => y \in chain[x]
<1> DEFINE S == {b \in Block : \A x, y \in chain[b] : nHeight[y] <= nHeight[x] => y \in chain[x]}
<1>1. Genesis \in S
  BY BlockTree
<1>2. ASSUME NEW b \in Block \ {Genesis}, pprev[b] \in S PROVE b \in S
  <2> SUFFICES ASSUME NEW x \in chain[b], NEW y \in chain[b], nHeight[y] <= nHeight[x]
               PROVE  y \in chain[x]
    OBVIOUS
  <2>1. chain[b] = chain[pprev[b]] \cup {b} /\ pprev[b] \in Block
    BY BlockTree
  <2>2. CASE x = b
    BY <2>2
  <2>3. CASE x # b /\ y = b
    <3>1. nHeight[x] <= nHeight[pprev[b]]
      BY <2>1, <2>3, LowerOnChain
    <3>2. /\ nHeight[b] = nHeight[pprev[b]] + 1 /\ x \in Block
          /\ nHeight[x] \in Nat /\ nHeight[b] \in Nat /\ nHeight[pprev[b]] \in Nat
      BY <2>1, BlockTree
    <3> QED BY <2>3, <3>1, <3>2
  <2>4. CASE x # b /\ y # b
    BY <1>2, <2>1, <2>4
  <2> QED BY <2>2, <2>3, <2>4
<1>3. \A b \in Block : b \in S
  <2> HIDE DEF S
  <2>1. S \subseteq Block  BY DEF S
  <2> QED BY <1>1, <1>2, <2>1, TreeInduction
<1> QED BY <1>3

\* A chain that forks off at or above a block keeps the block.
LEMMA ForkAbove ==
    ASSUME NEW a \in Block, NEW b \in Block, NEW c \in chain[a],
           nHeight[c] <= nHeight[Fork(a, b)]
    PROVE  c \in chain[b]
<1>1. Fork(a, b) \in Block /\ Fork(a, b) \in chain[a] /\ Fork(a, b) \in chain[b]
  BY ForkExists
<1>2. c \in chain[Fork(a, b)]
  BY <1>1, OnOneChain
<1> QED BY <1>1, <1>2, ChainTransitive

\* The intermediate block has no less trust than the best block if the new block
\* has no less, and is not the best block.
LEMMA IntermediateTrust ==
    ASSUME NEW b \in Block, hashBestChain \in Block \ stubs,
           Trust(b) >= Trust(hashBestChain), b # hashBestChain
    PROVE  /\ Intermediate(b) # hashBestChain
           /\ nChainTrust[Intermediate(b)] >= nChainTrust[hashBestChain]
<1> DEFINE P(x) == /\ x = b \/ Trust(x) > Trust(hashBestChain)
                   /\ \A y \in chain[b] : Trust(y) > Trust(hashBestChain) => nHeight[x] <= nHeight[y]
           i == Intermediate(b)
<1>1. \E x \in chain[b] : P(x)
  <2> DEFINE M == {y \in chain[b] : Trust(y) > Trust(hashBestChain)}
  <2>1. CASE M = {}
    BY <2>1, ChainEnds
  <2>2. CASE M # {}
    <3>1. M \subseteq Block
      BY BlockTree
    <3>2. PICK x \in M : \A y \in M : nHeight[x] <= nHeight[y]
      <4> HIDE DEF M
      <4> QED BY <2>2, <3>1, LowestExists
    <3> QED BY <3>2
  <2> QED BY <2>1, <2>2
<1>2. P(i) /\ i \in Block
  <2>1. i = CHOOSE x \in chain[b] : P(x)
    BY DEF Intermediate
  <2> QED BY <1>1, <2>1, IntermediateExists
<1> HIDE DEF i
<1>3. /\ \A x \in Block : Trust(x) \in Nat /\ Trust(x) <= nChainTrust[x] /\ nChainTrust[x] \in Nat
      /\ Trust(hashBestChain) = nChainTrust[hashBestChain]
  BY BlockTree DEF Trust
<1>4. i = b \/ Trust(i) > Trust(hashBestChain)
  BY <1>2
<1>5. nChainTrust[i] >= nChainTrust[hashBestChain]
  BY <1>2, <1>3, <1>4
<1>6. i # hashBestChain
  BY <1>2, <1>3, <1>4
<1> QED BY <1>5, <1>6 DEF i

\* Every block has some trust, a stub in the index has none.
LEMMA TrustPositive ==
    \A b \in Block : nChainTrust[b] > 0 /\ (Trust(b) > 0 => b \notin stubs)
<1>1. \A b \in Block : nChainTrust[Genesis] <= nChainTrust[b]
  BY ChainEnds, LowerOnChain
<1>2. nChainTrust[Genesis] > 0 /\ nChainTrust[Genesis] \in Nat /\ \A b \in Block : nChainTrust[b] \in Nat
  BY BlockTree
<1>3. \A b \in Block : nChainTrust[b] > 0
  BY <1>1, <1>2
<1> QED BY <1>3 DEF Trust

-----------------------------------------------------------------------------
(* SetBestChain keeps the pinned checkpoint and the order of trust         *)

\* Where SetBestChain sets out from and where it goes: to a block that is no
\* stub, over an intermediate block of no less trust, and not below the pin.
LEMMA SetBestChainMoves ==
    ASSUME TypeOK, hashBestChain \notin stubs,
           NEW b \in Block, NEW v, NEW ret \in {"idle", "startup"},
           SetBestChain(b, v, ret), Trust(b) >= Trust(hashBestChain), b # hashBestChain
    PROVE  /\ pc' # "secondary"
           /\ pc' \in Busy => op'.new = b /\ op'.at = hashBestChain /\ b \notin stubs
           /\ pc' \in {"disconnect", "connect"} =>
                 /\ op'.inter \in chain[b] /\ op'.inter # hashBestChain
                 /\ nChainTrust[op'.inter] >= nChainTrust[hashBestChain]
                 /\ Pinned(hashBestChain) => Pinned(op'.inter)
<1> hashBestChain \in Block
  BY DEF TypeOK
<1>1. CASE b # Genesis /\ pprev[b] = hashBestChain
  <2>1. pc' = "extend" /\ op'.new = b /\ op'.at = hashBestChain
    BY <1>1 DEF SetBestChain
  <2>2. Trust(hashBestChain) = nChainTrust[hashBestChain] /\ nChainTrust[hashBestChain] > 0
    BY TrustPositive DEF Trust
  <2>3. Trust(b) \in Nat /\ nChainTrust[hashBestChain] \in Nat
    BY BlockTree DEF Trust
  <2>4. b \notin stubs
    BY <2>2, <2>3, TrustPositive
  <2> QED BY <2>1, <2>4
<1>2. CASE ~(b # Genesis /\ pprev[b] = hashBestChain) /\ ReorganizeRefused(b)
  BY <1>2 DEF SetBestChain, Busy
<1>3. CASE ~(b # Genesis /\ pprev[b] = hashBestChain) /\ ~ReorganizeRefused(b)
  <2> DEFINE i == Intermediate(b)
             f == Fork(hashBestChain, i)
  <2>1. /\ pc' \in {"disconnect", "connect"} /\ op'.new = b /\ op'.at = hashBestChain
        /\ op'.inter = i
    BY <1>3 DEF SetBestChain
  <2>2. i \in chain[b] /\ i \in Block
    BY IntermediateExists
  <2>3. i # hashBestChain /\ nChainTrust[i] >= nChainTrust[hashBestChain]
    BY IntermediateTrust
  <2>4. b \notin stubs
    BY <1>3, ChainEnds DEF ReorganizeRefused
  <2>5. (f \in Block /\ HardenedCheckpointHeight <= nHeight[f]) \/ ~Pinned(hashBestChain)
    <3>1. f \in Block
      BY <2>2, ForkExists
    <3>2. ~(nHeight[f] < HardenedCheckpointHeight)
      BY <1>3 DEF ReorganizeRefused
    <3>3. ASSUME Pinned(hashBestChain) PROVE HardenedCheckpointHeight = nHeight[pindexLastHardenedCheckpoint]
      BY <3>3, BlockTree DEF Pinned, HardenedCheckpointHeight
    <3>4. ASSUME Pinned(hashBestChain) PROVE nHeight[pindexLastHardenedCheckpoint] \in Nat
      BY <3>4, BlockTree DEF Pinned
    <3>5. nHeight[f] \in Nat
      BY <3>1, BlockTree
    <3> QED BY <3>1, <3>2, <3>3, <3>4, <3>5
  <2>6. ASSUME Pinned(hashBestChain) PROVE Pinned(i)
    <3>1. nHeight[pindexLastHardenedCheckpoint] <= nHeight[f]
      BY <2>5, <2>6, BlockTree DEF Pinned, HardenedCheckpointHeight
    <3> QED BY <2>2, <2>6, <3>1, ForkAbove DEF Pinned
  <2> QED BY <2>1, <2>2, <2>3, <2>4, <2>6
<1> QED BY <1>1, <1>2, <1>3

\* A new node.
LEMMA MoveInvInit == Init => MoveInv
  BY BlockTree DEF Init, MoveInv, Busy

\* A step that leaves index, best blocks and pin alone and ends an operation.
LEMMA EndMoves ==
    ASSUME MoveInv, pc # "secondary", pc' \notin Busy,
           UNCHANGED <<mapBlockIndex, stubs, hashBestChain, disk>>
    PROVE  MoveInv'
  BY DEF MoveInv, Busy

\* Accepting a block.
LEMMA AcceptMoves ==
    ASSUME ChainInv, MoveInv, NEW b \in Block, AcceptSideBlock(b) \/ AcceptBestBlock(b)
    PROVE  MoveInv'
<1> /\ pc = "idle" /\ AddToBlockIndex(b) /\ Acceptable(b) /\ disk \in Database
    /\ TypeOK
  BY DEF AcceptSideBlock, AcceptBestBlock, ChainInv, IInv, TypeOK
<1>1. /\ mapBlockIndex' = mapBlockIndex \cup {b} /\ stubs' = stubs
      /\ hashBestChain' = hashBestChain
      /\ pindexLastHardenedCheckpoint' = pindexLastHardenedCheckpoint
  BY DEF AddToBlockIndex
<1>2. b \notin mapBlockIndex /\ b \notin stubs
  BY DEF Acceptable, TypeOK
<1>3. CASE AcceptSideBlock(b)
  <2>1. disk' \in {WithIndex(b), disk} /\ pc' = "idle"
    BY <1>3 DEF AcceptSideBlock
  <2>2. disk'.best = disk.best /\ disk.index \subseteq disk'.index
    BY <2>1, WithIndexType
  <2> QED BY <1>1, <2>1, <2>2 DEF MoveInv, Busy
<1>4. CASE AcceptBestBlock(b)
  <2>1. disk' = disk /\ SetBestChain(b, WithIndex(b), "idle")
    BY <1>4 DEF AcceptBestBlock
  <2>2. Trust(b) \in Nat /\ Trust(hashBestChain) \in Nat
    BY BlockTree DEF Trust, TypeOK
  <2>3. Trust(b) >= Trust(hashBestChain)
    BY <1>4, <2>2 DEF AcceptBestBlock, MoreTrust, TieBreak
  <2>4. hashBestChain \notin stubs /\ b # hashBestChain
    BY <1>2 DEF MoveInv
  <2>5. /\ pc' # "secondary"
        /\ pc' \in Busy => op'.new = b /\ op'.at = hashBestChain
        /\ pc' \in {"disconnect", "connect"} =>
              /\ op'.inter \in chain[b] /\ op'.inter # hashBestChain
              /\ nChainTrust[op'.inter] >= nChainTrust[hashBestChain]
              /\ Pinned(hashBestChain) => Pinned(op'.inter)
    BY <2>1, <2>3, <2>4, SetBestChainMoves
  <2> QED BY <1>1, <1>2, <2>1, <2>5 DEF MoveInv, Pinned, Busy
<1> QED BY <1>3, <1>4

\* Crash and startup.
LEMMA StartupMoves ==
    ASSUME ChainInv, MoveInv,
           \/ Restart \/ LoadNoBetterTip \/ SetHardenedCheckpoint
           \/ \E b \in Block : LoadBetterTip(b)
    PROVE  MoveInv'
<1> TypeOK
  BY DEF ChainInv, IInv
<1>1. CASE Restart
  <2>1. /\ hashBestChain' = disk.best /\ disk' = disk /\ pc' = "load"
        /\ disk.index \subseteq mapBlockIndex' /\ stubs' \cap disk.index = {}
    BY <1>1 DEF Restart
  <2>2. disk.best \in chain[disk.best]
    BY ChainEnds DEF TypeOK, Database
  <2> QED BY <2>1, <2>2 DEF MoveInv, Busy
<1>2. CASE LoadNoBetterTip \/ SetHardenedCheckpoint
  BY <1>2, EndMoves DEF LoadNoBetterTip, SetHardenedCheckpoint, memory, Busy
<1>3. ASSUME NEW b \in Block, LoadBetterTip(b) PROVE MoveInv'
  <2>1. /\ SetBestChain(b, disk, "startup") /\ b \in BetterTips /\ pc = "load"
        /\ UNCHANGED <<memory, disk>>
    BY <1>3 DEF LoadBetterTip
  <2>2. Trust(b) \in Nat /\ Trust(hashBestChain) \in Nat
    BY BlockTree DEF Trust, TypeOK
  <2>3. b \in mapBlockIndex /\ Trust(b) >= Trust(hashBestChain) /\ b # hashBestChain
    BY <2>1, <2>2 DEF BetterTips, MoreTrust
  <2>4. hashBestChain \notin stubs
    BY DEF MoveInv
  <2>5. /\ pc' # "secondary"
        /\ pc' \in Busy => op'.new = b /\ op'.at = hashBestChain /\ b \notin stubs
        /\ pc' \in {"disconnect", "connect"} =>
              /\ op'.inter \in chain[b] /\ op'.inter # hashBestChain
              /\ nChainTrust[op'.inter] >= nChainTrust[hashBestChain]
              /\ Pinned(hashBestChain) => Pinned(op'.inter)
    BY <2>1, <2>3, <2>4, SetBestChainMoves
  <2> QED BY <2>1, <2>3, <2>5 DEF MoveInv, Pinned, Busy, memory
<1> QED BY <1>1, <1>2, <1>3

-----------------------------------------------------------------------------
(* The steps of SetBestChain                                               *)

\* Connecting and committing one block.
LEMMA CommitMoves ==
    ASSUME TypeOK, NEW x \in Block \ {Genesis}, ConnectAndCommit(x)
    PROVE  disk'.best = x /\ x \in disk'.index
<1>1. Connected(x) \in Database /\ x \in Connected(x).index
  BY ConnectedType DEF TypeOK, Connected
<1>2. disk' = WithBest(Connected(x), x)
  BY DEF ConnectAndCommit
<1> QED BY <1>1, <1>2, WithBestType

\* Plain extension.
LEMMA ExtendMoves ==
    ASSUME ChainInv, MoveInv, Extend \/ ExtendFails \/ ExtendCommitFails
    PROVE  MoveInv'
<1> /\ pc = "extend" /\ op.new \in Block \ {Genesis} /\ op.ret \in {"idle", "startup"} /\ TypeOK
  BY DEF Extend, ExtendFails, ExtendCommitFails, ChainInv, IInv, OpInv, TypeOK, Busy
<1>1. CASE Extend
  <2>1. disk'.best = op.new /\ op.new \in disk'.index
    BY <1>1, CommitMoves DEF Extend
  <2>2. hashBestChain' = op.new /\ pc' = op.ret /\ UNCHANGED <<mapBlockIndex, stubs>>
    BY <1>1 DEF Extend, NewBestBlock, ConnectAndCommit
  <2>3. op.new \in chain[op.new]
    BY ChainEnds
  <2> QED BY <2>1, <2>2, <2>3 DEF MoveInv, Busy
<1>2. CASE ExtendFails
  BY <1>2, EndMoves DEF ExtendFails, Abort, memory, Busy
<1>3. CASE ExtendCommitFails
  BY <1>3, EndMoves DEF ExtendCommitFails, ConnectAndLose, Busy
<1> QED BY <1>1, <1>2, <1>3

\* Reorganize up to its commit: every block it stands on is in the batch.
LEMMA ReorganizeMoves ==
    ASSUME ChainInv, MoveInv,
           DisconnectBlock \/ ConnectBlock \/ ConnectBlockFails \/ ReorganizeIoError
    PROVE  MoveInv'
<1> /\ pc \in {"disconnect", "connect"} /\ op.ret \in {"idle", "startup"} /\ op \in OpType
  BY DEF DisconnectBlock, ConnectBlock, ConnectBlockFails, ReorganizeIoError,
         ChainInv, IInv, TypeOK, OpType
<1>1. ASSUME NEW x, op' = [op EXCEPT !.at = x], x \in view'.index,
             pc' \in {"disconnect", "connect"},
             UNCHANGED <<mapBlockIndex, stubs, hashBestChain, disk, pindexLastHardenedCheckpoint>>
      PROVE  MoveInv'
  <2>1. op'.at = x /\ op'.new = op.new /\ op'.inter = op.inter
    BY <1>1 DEF OpType
  <2> QED BY <1>1, <2>1 DEF MoveInv, Pinned, Busy
<1>2. CASE DisconnectBlock
  <2>1. /\ op' = [op EXCEPT !.at = pprev[op.at]] /\ view' = Disconnected(op.at)
        /\ pc' \in {"disconnect", "connect"}
        /\ UNCHANGED <<mapBlockIndex, stubs, hashBestChain, disk, pindexLastHardenedCheckpoint>>
    BY <1>2 DEF DisconnectBlock
  <2>2. pprev[op.at] \in view'.index
    BY <2>1 DEF Disconnected
  <2> QED BY <1>1, <2>1, <2>2
<1>3. CASE ConnectBlock
  <2>1. PICK x : op' = [op EXCEPT !.at = x] /\ view' = Connected(x)
    BY <1>3 DEF ConnectBlock
  <2>2. x \in view'.index
    BY <2>1 DEF Connected
  <2>3. /\ pc' = pc
        /\ UNCHANGED <<mapBlockIndex, stubs, hashBestChain, disk, pindexLastHardenedCheckpoint>>
    BY <1>3 DEF ConnectBlock
  <2> QED BY <1>1, <2>1, <2>2, <2>3
<1>4. CASE ConnectBlockFails \/ ReorganizeIoError
  BY <1>4, EndMoves DEF ConnectBlockFails, ReorganizeIoError, Abort, memory, Busy
<1> QED BY <1>2, <1>3, <1>4

\* The commit of Reorganize.
LEMMA CommitReorganizeMoves ==
    ASSUME ChainInv, MoveInv, CommitReorganize
    PROVE  MoveInv' /\ disk'.best = op.inter
<1> /\ pc = "connect" /\ op.at = op.inter /\ op.ret \in {"idle", "startup"}
    /\ op.inter \in Block /\ op.new \in Block /\ view \in Database
  BY DEF CommitReorganize, ChainInv, IInv, OpInv, TypeOK, Busy
<1>1. disk'.best = op.inter /\ disk'.index = view.index
  BY WithBestType DEF CommitReorganize
<1>2. op.inter \in disk'.index
  BY <1>1 DEF MoveInv
<1>3. UNCHANGED <<mapBlockIndex, stubs>>
  BY DEF CommitReorganize
<1>4. CASE op.inter = op.new
  <2>1. hashBestChain' = op.new /\ pc' = op.ret
    BY <1>4 DEF CommitReorganize, NewBestBlock
  <2>2. op.new \in chain[op.new]
    BY ChainEnds
  <2> QED BY <1>1, <1>2, <1>3, <1>4, <2>1, <2>2 DEF MoveInv, Busy
<1>5. CASE op.inter # op.new
  <2>1. pc' = "secondary" /\ UNCHANGED <<hashBestChain, op>>
    BY <1>5 DEF CommitReorganize
  <2> QED BY <1>1, <1>2, <1>3, <2>1 DEF MoveInv, Busy
<1> QED BY <1>1, <1>4, <1>5

\* "Connect further blocks": from the stored best block towards the new one.
LEMMA SecondaryMoves ==
    ASSUME ChainInv, MoveInv, ConnectSecondary \/ SecondaryFails \/ SecondaryCommitFails
    PROVE  MoveInv'
<1> /\ pc = "secondary" /\ op.ret \in {"idle", "startup"} /\ op \in OpType
    /\ op.new \in Block /\ TypeOK
  BY DEF ConnectSecondary, SecondaryFails, SecondaryCommitFails,
         ChainInv, IInv, OpInv, TypeOK, OpType, Busy
<1>1. CASE ConnectSecondary
  <2>1. PICK x \in NextTo(op.new) :
          /\ ConnectAndCommit(x)
          /\ IF x = op.new
             THEN NewBestBlock(op.new)
             ELSE /\ op' = [op EXCEPT !.at = x]
                  /\ UNCHANGED <<hashBestChain, nAssumeValidThreshold, pc>>
    BY <1>1 DEF ConnectSecondary
  <2>2. x \in Block \ {Genesis} /\ x \in chain[op.new]
    BY NextToType DEF NextTo
  <2>3. disk'.best = x /\ x \in disk'.index
    BY <2>1, <2>2, CommitMoves
  <2>4. UNCHANGED <<mapBlockIndex, stubs>>
    BY <2>1 DEF ConnectAndCommit
  <2>5. CASE x = op.new
    <3>1. hashBestChain' = op.new /\ pc' = op.ret
      BY <2>1, <2>5 DEF NewBestBlock
    <3> QED BY <2>2, <2>3, <2>4, <2>5, <3>1 DEF MoveInv, Busy
  <2>6. CASE x # op.new
    <3>1. pc' = pc /\ hashBestChain' = hashBestChain /\ op' = [op EXCEPT !.at = x]
      BY <2>1, <2>6
    <3>2. op'.at = x /\ op'.new = op.new
      BY <3>1 DEF OpType
    <3> QED BY <2>2, <2>3, <2>4, <3>1, <3>2 DEF MoveInv, Busy
  <2> QED BY <2>5, <2>6
<1>2. CASE SecondaryFails \/ SecondaryCommitFails
  <2>1. /\ hashBestChain' = op.new /\ pc' = op.ret
        /\ UNCHANGED <<mapBlockIndex, stubs, disk>>
    BY <1>2 DEF SecondaryFails, SecondaryCommitFails, NewBestBlock, ConnectAndLose
  <2> QED BY <2>1 DEF MoveInv, Busy
<1> QED BY <1>1, <1>2

\* Every step of the node keeps the invariant.
LEMMA MoveInvStep ==
    ASSUME ChainInv, MoveInv, [Next]_vars
    PROVE  MoveInv'
<1>1. ASSUME NEW b \in Block, AcceptSideBlock(b) \/ AcceptBestBlock(b) PROVE MoveInv'
  BY <1>1, AcceptMoves
<1>2. ASSUME NEW t \in Tx, AcceptToMemoryPool(t) PROVE MoveInv'
  BY <1>2, EndMoves DEF AcceptToMemoryPool, Busy
<1>3. CASE Extend \/ ExtendFails \/ ExtendCommitFails
  BY <1>3, ExtendMoves
<1>4. CASE DisconnectBlock \/ ConnectBlock \/ ConnectBlockFails \/ ReorganizeIoError
  BY <1>4, ReorganizeMoves
<1>5. CASE CommitReorganize
  BY <1>5, CommitReorganizeMoves
<1>6. CASE ConnectSecondary \/ SecondaryFails \/ SecondaryCommitFails
  BY <1>6, SecondaryMoves
<1>7. CASE Restart \/ LoadNoBetterTip \/ SetHardenedCheckpoint \/ \E b \in Block : LoadBetterTip(b)
  BY <1>7, StartupMoves
<1>8. CASE UNCHANGED vars
  BY <1>8 DEF vars, memory, MoveInv, Pinned
<1> QED BY <1>1, <1>2, <1>3, <1>4, <1>5, <1>6, <1>7, <1>8 DEF Next, SetBestChainStep

\* MoveInv, with ChainInv, is an invariant of the node.
LEMMA MovesInductive == Spec => [](ChainInv /\ MoveInv)
  BY ChainInvInit, MoveInvInit, ChainInvStep, MoveInvStep, PTL DEF Spec

-----------------------------------------------------------------------------
(* How the stored best chain moves                                         *)

\* The three commits that move the best block of the database go to a block
\* of no less trust and keep the pinned checkpoint; no other step moves it.
LEMMA DiskMoves ==
    ASSUME ChainInv, MoveInv, [Next]_vars
    PROVE  /\ disk'.best \in Block
           /\ nChainTrust[disk'.best] >= nChainTrust[disk.best]
           /\ Pinned(disk.best) => pindexLastHardenedCheckpoint \in chain[disk'.best]
<1> TypeOK /\ disk \in Database /\ disk.best \in Block /\ hashBestChain \in Block
  BY DEF ChainInv, IInv, TypeOK, Database
<1> nChainTrust[disk.best] \in Nat /\ nChainTrust[hashBestChain] \in Nat
  BY BlockTree
<1> DEFINE Goal == /\ disk'.best \in Block
                   /\ nChainTrust[disk'.best] >= nChainTrust[disk.best]
                   /\ Pinned(disk.best) => pindexLastHardenedCheckpoint \in chain[disk'.best]
<1> SUFFICES Goal
  OBVIOUS
<1>1. ASSUME disk'.best = disk.best PROVE Goal
  BY <1>1 DEF Pinned
<1>2. ASSUME NEW x \in Block \ {Genesis}, NEW y \in Block, disk'.best = x, pprev[x] = y,
             disk.best \in chain[y]
      PROVE  Goal
  <2>1. nChainTrust[x] > nChainTrust[y] /\ chain[x] = chain[y] \cup {x}
        /\ nChainTrust[x] \in Nat /\ nChainTrust[y] \in Nat
    BY <1>2, BlockTree
  <2>2. nChainTrust[disk.best] <= nChainTrust[y] /\ chain[disk.best] \subseteq chain[y]
    BY <1>2, LowerOnChain, ChainTransitive
  <2>3. nChainTrust[x] >= nChainTrust[disk.best]
    BY <2>1, <2>2
  <2> QED BY <1>2, <2>1, <2>2, <2>3 DEF Pinned
<1>3. CASE Extend
  <2>1. /\ op.new \in Block \ {Genesis} /\ pprev[op.new] = hashBestChain
        /\ disk.best \in chain[hashBestChain]
    BY <1>3 DEF Extend, ChainInv, IInv, OpInv, MoveInv, Busy
  <2>2. disk'.best = op.new
    BY <1>3, <2>1, CommitMoves DEF Extend
  <2> QED BY <1>2, <2>1, <2>2
<1>4. CASE CommitReorganize
  <2>1. disk'.best = op.inter
    BY <1>4, CommitReorganizeMoves
  <2>2. /\ op.inter \in Block /\ nChainTrust[op.inter] >= nChainTrust[hashBestChain]
        /\ Pinned(hashBestChain) => Pinned(op.inter)
        /\ disk.best \in chain[hashBestChain]
    BY <1>4 DEF CommitReorganize, MoveInv, ChainInv, IInv, OpInv, Busy
  <2>3. nChainTrust[disk.best] <= nChainTrust[hashBestChain] /\ chain[disk.best] \subseteq chain[hashBestChain]
    BY <2>2, LowerOnChain, ChainTransitive
  <2>4. nChainTrust[op.inter] \in Nat
    BY <2>2, BlockTree
  <2>5. nChainTrust[op.inter] >= nChainTrust[disk.best]
    BY <2>2, <2>3, <2>4
  <2> QED BY <2>1, <2>2, <2>3, <2>5 DEF Pinned
<1>5. CASE ConnectSecondary
  <2>1. PICK x \in NextTo(op.new) : ConnectAndCommit(x)
    BY <1>5 DEF ConnectSecondary
  <2>2. x \in Block \ {Genesis} /\ pprev[x] = op.at /\ op.at = disk.best
    BY <1>5, NextToType DEF ConnectSecondary, NextTo, MoveInv, ChainInv, IInv, OpInv, Busy
  <2>3. disk'.best = x /\ disk.best \in chain[disk.best]
    BY <2>1, <2>2, CommitMoves, ChainEnds
  <2> QED BY <1>2, <2>2, <2>3
<1>6. ASSUME NEW b \in Block, AcceptSideBlock(b) PROVE Goal
  <2>1. disk' \in {WithIndex(b), disk}
    BY <1>6 DEF AcceptSideBlock
  <2> QED BY <1>1, <2>1, WithIndexType
<1>7. CASE disk' = disk
  BY <1>1, <1>7
<1>8. \/ Extend \/ CommitReorganize \/ ConnectSecondary
      \/ \E b \in Block : AcceptSideBlock(b)
      \/ disk' = disk
  BY DEF Next, vars, SetBestChainStep, AcceptBestBlock, LoadBetterTip, AcceptToMemoryPool,
         ExtendFails, ExtendCommitFails, DisconnectBlock, ConnectBlock, ConnectBlockFails,
         ReorganizeIoError, SecondaryFails, SecondaryCommitFails, ConnectAndLose, Abort,
         Restart, LoadNoBetterTip, SetHardenedCheckpoint
<1> HIDE DEF Goal
<1> QED BY <1>3, <1>4, <1>5, <1>6, <1>7, <1>8

\* For every block tree: the trust of the best chain in the database never goes
\* down, through reorganizations, failed commits, postponed connects that fail
\* (SetBestChain then leaves memory ahead of the database), crashes and the
\* choice of a better tip by LoadBlockIndex.
THEOREM TrustNeverFalls == Spec => DiskTrustGrows
<1>1. ChainInv /\ MoveInv /\ [Next]_vars => [nChainTrust[disk.best'] >= nChainTrust[disk.best]]_vars
  BY DiskMoves
<1> QED BY <1>1, MovesInductive, PTL DEF Spec, DiskTrustGrows

\* For every block tree: once AppInit2 has set pindexLastHardenedCheckpoint to a
\* block of the stored best chain, no Reorganize takes that block off the chain.
THEOREM CheckpointHolds == Spec => StartupCheckpointHolds
<1>1. ASSUME ChainInv, MoveInv, [Next]_vars
      PROVE  \A c \in chain[disk.best] :
                c = pindexLastHardenedCheckpoint => c \in chain[disk.best']
  BY <1>1, DiskMoves DEF Pinned
<1>2. ChainInv /\ MoveInv /\ [Next]_vars
        => [\A c \in chain[disk.best] :
               c = pindexLastHardenedCheckpoint => c \in chain[disk.best']]_vars
  BY <1>1
<1> QED BY <1>2, MovesInductive, PTL DEF Spec, StartupCheckpointHolds

-----------------------------------------------------------------------------
(* Refinement                                                              *)

\* What the steps of the node are to a reader of the database: a move of the
\* best block, a damage, a choice of the pin, or nothing.
LEMMA LedgerStep ==
    ASSUME HonestTree, HonestInv, MoveInv, [Next]_vars
    PROVE  [L!Next]_(L!vars)
<1> ChainInv /\ disk \in Database
  BY DEF HonestInv, ChainInv, IInv, TypeOK
<1>1. HonestInv'
  BY ChainInvStep
<1>2. /\ disk'.best \in Block
      /\ nChainTrust[disk'.best] >= nChainTrust[disk.best]
      /\ pindexLastHardenedCheckpoint \in chain[disk.best]
            => pindexLastHardenedCheckpoint \in chain[disk'.best]
  BY DiskMoves DEF Pinned
<1>3. CASE Extend \/ CommitReorganize \/ ConnectSecondary
  <2>1. UNCHANGED <<pindexLastHardenedCheckpoint, scars>>
    BY <1>3 DEF Extend, CommitReorganize, ConnectSecondary, ConnectAndCommit
  <2>2. CASE "split" \in scars
    <3>1. L!SwitchDamaged(disk'.best)
      BY <1>2, <2>1, <2>2 DEF L!SwitchDamaged, L!MayReplace
    <3> QED BY <1>2, <3>1 DEF L!Next
  <2>3. CASE "split" \notin scars
    <3>1. disk'.utxo = Unspent(disk'.best) /\ disk'.txindex = Located(disk'.best)
      BY <1>1, <2>1, <2>3 DEF HonestInv, UtxoInv, Unspent, Located, MakerIn, SpentIn
    <3>2. L!Switch(disk'.best)
      BY <1>2, <2>1, <2>3, <3>1 DEF L!Switch, L!MayReplace
    <3> QED BY <1>2, <3>2 DEF L!Next
  <2> QED BY <2>2, <2>3
<1>4. CASE SecondaryFails \/ SecondaryCommitFails
  <2>1. UNCHANGED <<disk, pindexLastHardenedCheckpoint>> /\ "split" \in scars'
    BY <1>4 DEF SecondaryFails, SecondaryCommitFails, ConnectAndLose
  <2>2. L!Damage
    BY <2>1 DEF L!Damage, L!ledger
  <2> QED BY <2>2 DEF L!Next
<1>5. CASE Restart \/ SetHardenedCheckpoint
  <2>1. UNCHANGED <<disk, scars>> /\ pindexLastHardenedCheckpoint' \in Block \cup {NoBlock}
    BY <1>1, <1>5 DEF Restart, SetHardenedCheckpoint, HonestInv, ChainInv, IInv, TypeOK
  <2>2. L!Pin(pindexLastHardenedCheckpoint')
    BY <2>1 DEF L!Pin, L!ledger
  <2> QED BY <2>1, <2>2 DEF L!Next
<1>6. ASSUME disk'.best = disk.best, disk'.utxo = disk.utxo, disk'.txindex = disk.txindex,
             pindexLastHardenedCheckpoint' = pindexLastHardenedCheckpoint,
             "split" \in scars' <=> "split" \in scars
      PROVE  UNCHANGED L!vars
  <2>1. ("split" \in scars') = ("split" \in scars)
    BY <1>6
  <2> QED BY <1>6, <2>1 DEF L!vars, L!ledger
<1>7. ASSUME NEW b \in Block, AcceptSideBlock(b) PROVE UNCHANGED L!vars
  <2>1. /\ disk' \in {WithIndex(b), disk}
        /\ UNCHANGED <<pindexLastHardenedCheckpoint, scars>>
    BY <1>7 DEF AcceptSideBlock, AddToBlockIndex
  <2> QED BY <1>6, <2>1, WithIndexType
<1>8. ASSUME NEW b \in Block, AcceptBestBlock(b) \/ LoadBetterTip(b) PROVE UNCHANGED L!vars
  BY <1>6, <1>8 DEF AcceptBestBlock, LoadBetterTip, AddToBlockIndex, memory
<1>9. ASSUME NEW t \in Tx, AcceptToMemoryPool(t) PROVE UNCHANGED L!vars
  BY <1>6, <1>9 DEF AcceptToMemoryPool
<1>10. CASE ExtendFails \/ ConnectBlockFails \/ ReorganizeIoError
  <2>1. Abort
    BY <1>10 DEF ExtendFails, ConnectBlockFails, ReorganizeIoError
  <2>2. UNCHANGED <<disk, pindexLastHardenedCheckpoint>> /\ ("split" \in scars' <=> "split" \in scars)
    BY <2>1 DEF Abort, memory
  <2> QED BY <1>6, <2>2
<1>11. CASE ExtendCommitFails \/ DisconnectBlock \/ ConnectBlock \/ LoadNoBetterTip
  <2>1. UNCHANGED <<disk, pindexLastHardenedCheckpoint>> /\ ("split" \in scars' <=> "split" \in scars)
    BY <1>11 DEF ExtendCommitFails, ConnectAndLose, DisconnectBlock, ConnectBlock,
                 LoadNoBetterTip, memory
  <2> QED BY <1>6, <2>1
<1>12. CASE UNCHANGED vars
  BY <1>6, <1>12 DEF vars, memory
<1> QED
  BY <1>3, <1>4, <1>5, <1>7, <1>8, <1>9, <1>10, <1>11, <1>12 DEF Next, SetBestChainStep

\* For every tree whose chains are well formed: the chain database implements
\* Ledger.  Through the block-by-block work of Reorganize, failing checks and
\* commits, crashes and startup, a reader of the database sees the ledger of
\* one block replaced, in one step, by that of another of no less trust.
THEOREM DatabaseIsLedger ==
    ASSUME HonestTree
    PROVE  Spec => ImplementsLedger
<1>1. Init => HonestInv /\ MoveInv
  BY ChainInvInit, MoveInvInit
<1>2. HonestInv /\ MoveInv /\ [Next]_vars => (HonestInv /\ MoveInv)'
  BY ChainInvStep, MoveInvStep DEF HonestInv
<1>3. Init => L!Init
  <2> SUFFICES ASSUME Init PROVE L!Init
    OBVIOUS
  <2>1. disk.utxo = Unspent(disk.best) /\ disk.txindex = Located(disk.best)
    BY <1>1 DEF HonestInv, UtxoInv, Init
  <2> QED BY <2>1 DEF Init, L!Init
<1>4. HonestInv /\ MoveInv /\ [Next]_vars => [L!Next]_(L!vars)
  BY LedgerStep
<1> QED BY <1>1, <1>2, <1>3, <1>4, PTL DEF Spec, ImplementsLedger, L!Spec

=============================================================================
