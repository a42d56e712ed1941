SPECIFICATION Spec
CONSTANTS
    Ids = {a}
    Sizes = {0, 1}
    Outgoing <- MCOutgoing
    Incoming <- MCIncoming
    Ssl = TRUE
    Starter = "asio"
    FirstSend = "server_accept"
    MaxSends = 3
    MaxReceives = 3
INVARIANTS TypeOK OneWriteAtATime OutboundFifo NothingDropped InboundFifo AcceptedOnly AtMostOneLate
PROPERTY HandlersFindFront
CHECK_DEADLOCK FALSE
