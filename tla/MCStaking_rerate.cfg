SPECIFICATION Spec
CONSTANTS
    alice = alice
    bob = bob
    admin = admin
    keeper = keeper
    gold = gold
    silver = silver
    bronze = bronze
    NoKey = NoKey
    NoMint = NoMint
    Owners = {alice}
    Keys = {admin, keeper}
    Mints = {gold}
    MAX_REWARDS = 1
    PRECISION = 2
    U64Max = 10
    U128Max = 1000
    I64Max = 8
    MaxClock = 4
    StakeSupply = 2
    RewardSupply = 2
    StakeAmounts = {1, 2}
    RewardAmounts = {1, 2}
    Durations = {1, 3}
INVARIANTS RewardSolvent
PROPERTIES StrandedOnlyDust
SYMMETRY KeySymmetry
