SPECIFICATION FairSpec
CONSTANT Cooldown = 1
CONSTANT RebootAfter = 1
CONSTANT RebootOn = TRUE
CONSTANT DriverOn = TRUE
CONSTANT WanHeal = TRUE
CONSTANT AuthKey = TRUE
CONSTANT MaxFaults = 2
INVARIANT OptOutStands
PROPERTY HeavyActsAreSpaced
PROPERTY HealKeepsLogin
PROPERTY HealsWhenNetworkIsBack
