SPECIFICATION Spec
CONSTANTS
    v1 = v1
    v2 = v2
    Offline = Offline
    Empty = Empty
    Resumed = Resumed
    Vehicles = {v1, v2}
    Capable = {v1}
    UsbDirect = {v2}
    MaxEdits = 1
    MaxEvents = 5
CHECK_DEADLOCK FALSE
INVARIANT WholePlans
INVARIANT CompleteMeansAnswered
PROPERTY InitialPlanIsLoaded
PROPERTY AskedIsDone
INVARIANT NewVehiclesPlanIsShown
