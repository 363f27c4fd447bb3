\* One fault while the LevelDB chain of an old version is copied.
CONSTANTS
    Top = 2
    SnapshotHeight = 1
    CheckpointHeight = 1
    Options <- MCDefault
    SnapshotFiles = {"none"}
    Legacy = {TRUE}
    MaxFaults = 1
SPECIFICATION Spec
INVARIANT UpgradeTransparent
