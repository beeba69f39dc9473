CONSTANTS
    MaxCommands = 3
    MaxRunners = 2
    MaxEvents = 3
    MaxDaemons = 3
    MaxCallers = 2
SPECIFICATION Spec
INVARIANTS ShownTrue AddressKept
PROPERTIES StrayEnds CallsEnd
CHECK_DEADLOCK FALSE
