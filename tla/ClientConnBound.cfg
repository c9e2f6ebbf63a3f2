CONSTANT MaxPingFailures = 3
SPECIFICATION FairSpec
PROPERTY ConnectBounded
