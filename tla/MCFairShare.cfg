SPECIFICATION FairSpec
CONSTANTS
    alice = alice
    bob = bob
    admin = admin
    gold = gold
    NoKey = NoKey
    NoMint = NoMint
    Owners = {alice, bob}
    Keys = {admin}
    Mints = {gold}
    MAX_REWARDS = 1
    PRECISION = 2
    U64Max = 10
    U128Max = 1000
    I64Max = 6
    MaxClock = 3
    StakeSupply = 3
    RewardSupply = 2
    StakeAmounts = {1, 2}
    RewardAmounts = {1, 2}
    Durations = {2}
    SharesPerUnit = 6
INVARIANTS NeverAboveShare
PROPERTIES ShortByRounding
SYMMETRY OwnerSymmetry
