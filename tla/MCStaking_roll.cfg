SPECIFICATION Spec
CONSTANTS
    alice = alice
    bob = bob
    admin = admin
    keeper = keeper
    gold = gold
    silver = silver
    bronze = bronze
    NoKey = NoKey
    NoMint = NoMint
    Owners = {alice, bob}
    Keys = {admin}
    Mints = {gold}
    MAX_REWARDS = 1
    PRECISION = 2
    U64Max = 10
    U128Max = 1000
    I64Max = 6
    MaxClock = 4
    StakeSupply = 3
    RewardSupply = 2
    StakeAmounts = {0, 1, 2}
    RewardAmounts = {0, 1, 2}
    Durations = {0, 2}
PROPERTIES IdleRewardsRollForward
