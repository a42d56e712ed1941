SPECIFICATION Spec
CONSTANTS
    Queues = {"messages", "notifications", "connections"}
    Wait = FALSE
    Interval = 0
    TicksPerSecond = 1
    max_handled_items = 2
    MaxItems = 2
INVARIANT MessagesInOrder
