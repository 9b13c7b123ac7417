SPECIFICATION Spec
CONSTANTS
    alice = alice
    bob = bob
    admin = admin
    keeper = keeper
    gold = gold
    silver = silver
    bronze = bronze
    NoKey = NoKey
    NoMint = NoMint
    Owners = {alice, bob}
    Keys = {admin}
    Mints = {gold}
    MAX_REWARDS = 1
    PRECISION = 2
    U64Max = 3
    U128Max = 5
    I64Max = 5
    MaxClock = 3
    StakeSupply = 3
    RewardSupply = 2
    StakeAmounts = {0, 1, 2}
    RewardAmounts = {0, 1, 2}
    Durations = {0, 2, 4}
INVARIANTS TypeOK EmergencyAlwaysWorks
SYMMETRY OwnerSymmetry
