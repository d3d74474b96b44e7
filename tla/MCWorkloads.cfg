SPECIFICATION WorkloadsSpec
CONSTANTS
    NUM_CORES = 3
    n = 4
    ITERATIONS = 2
    THREAD_COUNT = 3
    ELEMENT_COUNT = 7
    THREAD_AMOUNT = 3
    INCREMENTS = 2
    num_cores = 3
    NUM_BLOCKS = 8
    L1_NUM_SETS = 1
    LLC_NUM_SETS = 1
    L1_SET_ASSOCIATIVITY = 1
    Addrs <- OneAddr
    Values = {1}
    magic_memory <- Approximate
    speculation_percent = 100
    margin_of_error = 500
    MaxRecorded = 4
    MaxDirect = 1
CHECK_DEADLOCK FALSE
INVARIANTS
    MatrixTypeOK
    NoRace
    MatricesInStep
    SumTypeOK
    SumAccounts
    SeenIsFinal
    LostUpdatesBounded
    ReplayTypeOK
    RoundRobin
PROPERTIES
    NoLostUpdate
    MatrixProgramEnds
    SumProgramEnds
    MultithreadProgramEnds
    PrintsWhatWasRecorded
    ReplayReturns
