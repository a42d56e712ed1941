SPECIFICATION Spec
CONSTANTS
    Ids = {a}
    Sizes = {0, 1}
    Outgoing <- MCOutgoing
    Incoming <- MCSilent
    Ssl = FALSE
    Starter = "user"
    FirstSend = "start"
    MaxSends = 1
    MaxReceives = 0
INVARIANT NoHandlerOnDestroyed
CHECK_DEADLOCK FALSE
