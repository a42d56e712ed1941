SPECIFICATION FairSpec
CONSTANTS
    Ids = {a}
    Sizes = {0, 1}
    Outgoing <- MCOutgoing
    Incoming <- MCAccept
    Ssl = FALSE
    Starter = "asio"
    FirstSend = "server_accept"
    MaxSends = 2
    MaxReceives = 1
PROPERTY EverySentIsWritten
CHECK_DEADLOCK FALSE
