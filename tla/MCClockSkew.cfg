SPECIFICATION SkewSpec
CONSTANTS
    alice = alice
    bob = bob
    admin = admin
    gold = gold
    NoKey = NoKey
    NoMint = NoMint
    Owners = {alice, bob}
    Keys = {admin}
    Mints = {gold}
    MAX_REWARDS = 1
    PRECISION = 2
    U64Max = 1000
    U128Max = 1000000
    I64Max = 1000
    MaxClock = 2
    StakeSupply = 2
    RewardSupply = 2
    StakeAmounts = {1}
    RewardAmounts = {1, 2}
    Durations = {2}
    MaxStepBack = 1
    MaxSkews = 2
INVARIANTS PrincipalExits ShortByReplay
SYMMETRY OwnerSymmetry
