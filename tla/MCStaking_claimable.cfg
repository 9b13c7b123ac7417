SPECIFICATION Spec
CONSTANTS
    alice = alice
    bob = bob
    admin = admin
    keeper = keeper
    gold = gold
    silver = silver
    bronze = bronze
    NoKey = NoKey
    NoMint = NoMint
    Owners = {alice}
    Keys = {admin}
    Mints = {gold}
    MAX_REWARDS = 1
    PRECISION = 2
    U64Max = 10
    U128Max = 1000
    I64Max = 6
    MaxClock = 4
    StakeSupply = 1
    RewardSupply = 3
    StakeAmounts = {1}
    RewardAmounts = {1, 2}
    Durations = {2, 5}
INVARIANTS ClaimableAnyTime
