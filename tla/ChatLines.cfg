SPECIFICATION Spec
CONSTANTS
    Clients = {"c1", "c2"}
    MaxLines = 2
INVARIANTS OneSender NameArrivesFirst
CHECK_DEADLOCK FALSE
