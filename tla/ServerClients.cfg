SPECIFICATION FairSpec
CONSTANTS
    Ips = {"a"}
    Maxima = {1}
    FirstId = 1
    IdModulus = 4
    IgnoredClients = {0, 1}
    Reentrant = TRUE
    MaxSockets = 4
    MaxStarts = 2
INVARIANTS
    TypeOK AdmissionBound AcceptPerStart IdIsFree BannedStaysOut EveryClientReached NextIsAClient
PROPERTIES ClosedIsRemoved StopReturns
CHECK_DEADLOCK FALSE
