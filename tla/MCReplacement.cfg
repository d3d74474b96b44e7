SPECIFICATION BothSpec
CONSTANTS
    num_cores = 2
    NUM_BLOCKS = 8
    L1_NUM_SETS = 2
    LLC_NUM_SETS = 1
    L1_SET_ASSOCIATIVITY = 2
    Addrs <- LRUAddrs
    Values = {1}
    magic_memory <- LRUMagic
    speculation_percent = 100
    margin_of_error = 500
    MaxTime = 0
CHECK_DEADLOCK FALSE
VIEW ReplacementView
INVARIANTS
    DistinctStamps
    WithinAssociativity
    SameProtocol
PROPERTIES
    EvictsLeastRecent
    DiesOfUnwrittenReads
