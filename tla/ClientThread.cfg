SPECIFICATION FairSpec
CONSTANTS
    MaxConnects = 3
INVARIANTS TypeOK ThreadIsStopped CleanConnectIsCurrent
PROPERTIES DisconnectReturns ConnectIsAnswered
CHECK_DEADLOCK FALSE
