---------------------------- MODULE MCChainState ----------------------------
(***************************************************************************)
(* Block trees for model checking ChainState.  A tree lists, in the order  *)
(* of their hashes, blocks with parent, transactions and trust, and the    *)
(* outputs each transaction spends; "G" is the genesis block, and a        *)
(* transaction whose name starts a block's list is its coinstake.          *)
(***************************************************************************)
EXTENDS ChainRefinement, SequencesExt, TLC

CONSTANT Scenario

Blk(name, prev, txs) == [name |-> name, prev |-> prev, txs |-> txs, trust |-> 1, time |-> 1, stake |-> name]

Tree(blocks, spends) ==
    [blocks |-> blocks, spends |-> spends, unsound |-> {}, checkpoint |-> {"G"},
     snapshot |-> {}, relayed |-> {}, viaOrphan |-> {}]

\* Two branches over the checkpoint P.  x is in A and again in B2; y in B2 spends
\* what z in A2 spends; w spends an output of its own block B3.  A and A2 tie with
\* B and B2, which are earlier: B can replace A and leaves cP unspent.  H forks
\* below the checkpoint and has more trust than all of them.
Honest ==
    [Tree(<<Blk("O", "G", <<"cO">>),
            Blk("P", "O", <<"cP">>),
            [Blk("A", "P", <<"cA", "x">>) EXCEPT !.time = 2],
            Blk("B", "P", <<"cB">>),
            [Blk("A2", "A", <<"cA2", "z">>) EXCEPT !.time = 2],
            Blk("B2", "B", <<"cB2", "x", "y">>),
            Blk("B3", "B2", <<"cB3", "v", "w">>),
            [Blk("H", "G", <<"cH">>) EXCEPT !.trust = 10]>>,
          "x" :> {"cP"} @@ "z" :> {"x", "cA"} @@ "y" :> {"x"} @@ "v" :> {"y"} @@ "w" :> {"v"})
     EXCEPT !.relayed = {"x"}, !.checkpoint = {"G", "P"}]

\* A2 and the heavier branch B2, B3, B4 over P, with every way to be invalid:
\* S3 is unsound, D3 spends cP a second time, I3 spends its own coinstake, R3
\* repeats the unspent transaction u, B3 is unsound in the middle of a branch.
Invalid ==
    [Tree(<<Blk("P", "G", <<"cP", "u">>),
            Blk("A2", "P", <<"cA2", "x">>),
            Blk("B2", "P", <<"cB2">>),
            Blk("S3", "A2", <<"cS3">>),
            Blk("D3", "A2", <<"cD3", "d">>),
            Blk("I3", "A2", <<"cI3", "i">>),
            Blk("R3", "A2", <<"u">>),
            Blk("B3", "B2", <<"cB3", "y">>),
            Blk("C3", "B2", <<"cC3", "y">>),
            Blk("B4", "B3", <<"cB4">>)>>,
          "x" :> {"cP"} @@ "d" :> {"cP"} @@ "i" :> {"cI3"} @@ "y" :> {"cP"})
     EXCEPT !.unsound = {"S3", "B3"}]

\* Two transactions of A2 spend the same output of A1.
TwiceInBlock ==
    Tree(<<Blk("A1", "G", <<"a1">>), Blk("A2", "A1", <<"a2", "s", "t">>)>>,
         "s" :> {"a1"} @@ "t" :> {"a1"})

TheTree ==
    CASE Scenario = "honest" -> Honest
      [] Scenario = "invalid" -> Invalid
      [] Scenario = "twice in block" -> TwiceInBlock

-----------------------------------------------------------------------------

Entry(b) == CHOOSE e \in ToSet(TheTree.blocks) : e.name = b
Names == {e.name : e \in ToSet(TheTree.blocks)}

MCBlock == {"G"} \cup Names
MCTx == UNION {ToSet(e.txs) : e \in ToSet(TheTree.blocks)} \cup TheTree.snapshot \cup TheTree.relayed
MCpprev == [b \in Names |-> Entry(b).prev]
MCnHeight == LET h[b \in MCBlock] == IF b = "G" THEN 0 ELSE h[MCpprev[b]] + 1 IN h
MCnChainTrust == LET s[b \in MCBlock] == IF b = "G" THEN 1 ELSE s[MCpprev[b]] + Entry(b).trust IN s
MCchain == LET c[b \in MCBlock] == IF b = "G" THEN {"G"} ELSE c[MCpprev[b]] \cup {b} IN c
MCnTime == [b \in MCBlock |-> IF b = "G" THEN 0 ELSE Entry(b).time]
MCblockHash == [b \in MCBlock |-> IF b = "G" THEN 0
                                  ELSE CHOOSE i \in DOMAIN TheTree.blocks : TheTree.blocks[i].name = b]
MCprevoutStake == [b \in MCBlock |-> IF b = "G" THEN "none" ELSE Entry(b).stake]
MCvtx == [b \in MCBlock |-> IF b = "G" THEN <<>> ELSE Entry(b).txs]
MCvin == [t \in MCTx |-> IF t \in DOMAIN TheTree.spends THEN TheTree.spends[t] ELSE {}]
MCGenerated == {e.txs[1] : e \in ToSet(TheTree.blocks)}
MCSound == MCBlock \ TheTree.unsound
MCCheckpoint == TheTree.checkpoint
MCSnapshotTx == TheTree.snapshot
MCRelayed == TheTree.relayed
MCViaOrphan == TheTree.viaOrphan

ASSUME HonestScenario == Scenario = "honest" => HonestTree
ASSUME PlainScenario == Scenario = "invalid" => PlainTree

=============================================================================
