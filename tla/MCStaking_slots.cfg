SPECIFICATION Spec
CONSTANTS
    alice = alice
    bob = bob
    admin = admin
    keeper = keeper
    gold = gold
    silver = silver
    bronze = bronze
    NoKey = NoKey
    NoMint = NoMint
    Owners = {alice}
    Keys = {admin}
    Mints = {gold, silver, bronze}
    MAX_REWARDS = 2
    PRECISION = 2
    U64Max = 10
    U128Max = 1000
    I64Max = 6
    MaxClock = 2
    StakeSupply = 1
    RewardSupply = 1
    StakeAmounts = {1}
    RewardAmounts = {1}
    Durations = {1, 2}
INVARIANTS SlotTable RewardSolvent
PROPERTIES RewardsAreCovered SlotKeepsMint
SYMMETRY MintSymmetry
