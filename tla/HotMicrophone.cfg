CONSTANTS
    MaxTasks = 1
    MaxRooms = 1
    MaxUpsets = 1
    QueueBound = 2
SPECIFICATION Spec
INVARIANTS
    ReleasedPressIsSilent
CHECK_DEADLOCK FALSE
