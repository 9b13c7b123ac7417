SPECIFICATION WalkSpec
CONSTANTS
    alice = alice
    admin = admin
    gold = gold
    silver = silver
    NoKey = NoKey
    NoMint = NoMint
    Owners = {alice}
    Keys = {admin}
    Mints = {gold, silver}
    MAX_REWARDS = 2
    PRECISION = 1
    U64Max = 10
    U128Max = 1000
    I64Max = 6
    MaxClock = 2
    StakeSupply = 1
    RewardSupply = 2
    StakeAmounts = {1}
    RewardAmounts = {1}
    Durations = {1}
    MaxPairs = 3
INVARIANTS OwnPairsSucceed
PROPERTIES ClaimIsOneStep
SYMMETRY MintSymmetry
