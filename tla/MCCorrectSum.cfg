SPECIFICATION SumSpec
CONSTANTS
    THREAD_COUNT = 2
    ELEMENT_COUNT = 4
CHECK_DEADLOCK FALSE
INVARIANTS
    PrintsCorrectSum
