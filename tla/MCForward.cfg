SPECIFICATION Spec
CONSTANT Sources <- OddBeforeEven
INVARIANT MutualRecursionFails
CHECK_DEADLOCK FALSE
