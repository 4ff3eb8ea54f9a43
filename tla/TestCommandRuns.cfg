CONSTANTS
    PreviewSize = 2
    ChunkSize = 2
    Capacity = 2
    MaxBytes = 6
    None = None
SPECIFICATION FairSpec
INVARIANTS TypeOK ResultIsExact TimeoutIsFinal
PROPERTIES OutputNeverBlocks RunEnds
