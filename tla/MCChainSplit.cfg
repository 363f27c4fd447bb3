\* A postponed connect fails.
CONSTANTS
    Scenario = "honest"
    Block <- MCBlock
    Genesis = "G"
    NoBlock = "null"
    Tx <- MCTx
    pprev <- MCpprev
    nHeight <- MCnHeight
    nChainTrust <- MCnChainTrust
    chain <- MCchain
    nTime <- MCnTime
    blockHash <- MCblockHash
    prevoutStake <- MCprevoutStake
    NoStake = "none"
    vtx <- MCvtx
    vin <- MCvin
    Generated <- MCGenerated
    Staked <- MCBlock
    Sound <- MCSound
    Checkpoint <- MCCheckpoint
    SnapshotTx <- MCSnapshotTx
    Relayed <- MCRelayed
    ViaOrphan <- MCViaOrphan
    nCoinbaseMaturity = 1
    ASSUME_VALID_BUFFER = 100
    nStakeSeenDepth = 500
    IoErrors = TRUE
SPECIFICATION Spec
INVARIANT UtxoAlwaysUnspent
