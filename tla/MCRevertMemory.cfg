SPECIFICATION PinSpec
CONSTANTS
    num_cores = 2
    NUM_BLOCKS = 8
    L1_NUM_SETS = 1
    LLC_NUM_SETS = 1
    L1_SET_ASSOCIATIVITY = 1
    Addrs <- IntAddrs
    Values = {0, 1, 2, 3}
    magic_memory <- FirstInt
    speculation_percent = 100
    margin_of_error = 500
    element_size = 4
    Base = 2
    bounds <- FirstInt
    Kinds = {"load", "store"}
    MaxTime = 0
VIEW PinView
INVARIANTS
    RevertRestoresMemory
