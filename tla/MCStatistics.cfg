SPECIFICATION TimedBothSpec
CONSTANTS
    num_cores = 2
    NUM_BLOCKS = 16
    L1_NUM_SETS = 1
    LLC_NUM_SETS = 1
    L1_SET_ASSOCIATIVITY = 1
    Addrs <- TwoLineAddrs
    Values = {100, 104}
    magic_memory <- FirstWord
    speculation_percent = 50
    margin_of_error = 500
    MaxTime = 5
CHECK_DEADLOCK FALSE
INVARIANTS
    VictimsAccounted
    SpeculationCounted
    EachCallCountedOnce
    TalliesAgree
    SameCounters
