\* Two peers and one disconnect: a window of one block, which one lost request fills.
CONSTANTS
    Peer = {p1, p2}
    Top = 3
    Window = 1
    LowWater = 0
    MaxAhead = 1
    HeadersLimit = 1
    InvLimit = 2
    MaxOrphans = 1
    PipelineBlocks = 3
    MaxLosses = 1
SPECIFICATION Spec
PROPERTY SyncCompletes
