SPECIFICATION FairSpec
CONSTANTS
    Queues = {"messages", "notifications", "connections"}
    Wait = TRUE
    Interval = 2
    TicksPerSecond = 2
    max_handled_items = 1
    MaxItems = 2
INVARIANTS TypeOK NothingLost HandledInOrder WaitIsBounded
PROPERTIES DueIsChecked InOrderIsHandled
