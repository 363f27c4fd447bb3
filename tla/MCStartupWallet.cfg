\* One crash while the wallet of an old version is converted.
CONSTANTS
    Top = 2
    SnapshotHeight = 1
    CheckpointHeight = 1
    Options <- MCDefault
    SnapshotFiles = {"none"}
    Legacy = {TRUE}
    MaxFaults = 1
SPECIFICATION Spec
INVARIANT WalletNeverMissing
