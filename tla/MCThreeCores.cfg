SPECIFICATION BothSpec
CONSTANTS
    num_cores = 3
    NUM_BLOCKS = 16
    L1_NUM_SETS = 1
    LLC_NUM_SETS = 1
    L1_SET_ASSOCIATIVITY = 1
    Addrs <- TwoLineAddrs
    Values = {0, 1}
    magic_memory <- FirstWord
    speculation_percent = 100
    margin_of_error = 500
    MaxTime = 0
CHECK_DEADLOCK FALSE
VIEW SimView
INVARIANTS
    SingleWriter
    Inclusion
PROPERTIES
    SimCoherenceLoss
