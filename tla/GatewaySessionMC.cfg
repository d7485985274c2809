SPECIFICATION FairSpec
CONSTANT MaxEvents = 5
INVARIANTS TypeOK OneTransport NewestCredentials NoSilentStall
PROPERTIES Recovers LinkedSocketKept
CHECK_DEADLOCK FALSE
