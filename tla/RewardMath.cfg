SPECIFICATION MathSpec
CONSTANTS
    PRECISION = 2
    U64Max = 4
    U128Max = 11
    I64Max = 7
    MaxInput = 4
INVARIANTS SplitAccrual SplitCheckpoint SplitDeposit DepositStreamsOut
CHECK_DEADLOCK FALSE
