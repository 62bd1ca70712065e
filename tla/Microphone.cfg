CONSTANTS
    MaxTasks = 2
    MaxRooms = 2
    MaxUpsets = 1
    QueueBound = 2
SPECIFICATION FairSpec
CHECK_DEADLOCK FALSE
INVARIANTS
    TypeOK
    HeardOnlyWhenMeant
    CapturedDeviceIsOwned
PROPERTIES
    ImplementsSwitch
    WishIsGranted
    DeviceIsReleased
