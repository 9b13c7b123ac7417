SPECIFICATION LiveSpec
CONSTANTS
    alice = alice
    bob = bob
    admin = admin
    keeper = keeper
    gold = gold
    silver = silver
    bronze = bronze
    NoKey = NoKey
    NoMint = NoMint
    Owners = {alice, bob}
    Keys = {admin}
    Mints = {gold}
    MAX_REWARDS = 1
    PRECISION = 1
    U64Max = 10
    U128Max = 1000
    I64Max = 6
    MaxClock = 3
    StakeSupply = 2
    RewardSupply = 1
    StakeAmounts = {1}
    RewardAmounts = {1}
    Durations = {0, 1}
PROPERTIES PrincipalComesOut RewardsComeOut
