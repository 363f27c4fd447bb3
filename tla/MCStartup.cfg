\* New and old nodes, every command line, two faults anywhere.
CONSTANTS
    Top = 2
    SnapshotHeight = 1
    CheckpointHeight = 1
    Options <- MCOptions
    SnapshotFiles = {"none", "good"}
    Legacy = {TRUE, FALSE}
    MaxFaults = 2
SPECIFICATION Spec
INVARIANTS TypeOK KeysNeverLost RunsOnWhole UpgradeKeepsChain
PROPERTY ComesUp
