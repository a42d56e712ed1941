SPECIFICATION FairSpec
CONSTANTS
    Ids = {i}
    MaxSize = 1
    ServerSends = 2
    ClientSends = 1
PROPERTIES IsChannel EverySentIsReceived
CHECK_DEADLOCK FALSE
