SPECIFICATION Spec
CONSTANTS
    Ids = {a}
    Sizes = {0, 1}
    Outgoing <- MCOutgoing
    Incoming <- MCSilent
    Ssl = TRUE
    Starter = "user"
    FirstSend = "start"
    MaxSends = 2
    MaxReceives = 0
INVARIANT OneWriteAtATime
CHECK_DEADLOCK FALSE
