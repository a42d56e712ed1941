SPECIFICATION Spec
CONSTANTS
    Queues = {"messages", "notifications", "connections"}
    Wait = TRUE
    Interval = 0
    TicksPerSecond = 1
    max_handled_items = 1
    MaxItems = 1
INVARIANT SleepsOnlyWhenEmpty
