\* Two peers and one disconnect: a window of three blocks, the header front at most
\* three blocks ahead of a chain of four, one orphan block kept.
CONSTANTS
    Peer = {p1, p2}
    Top = 4
    Window = 3
    LowWater = 0
    MaxAhead = 1
    HeadersLimit = 2
    InvLimit = 2
    MaxOrphans = 1
    PipelineBlocks = 4
    MaxLosses = 1
SPECIFICATION Spec
SYMMETRY Symmetry
INVARIANTS TypeOK InFlightExact HeadersBridge FrontBounded 
