SPECIFICATION FairSpec
CHECK_DEADLOCK FALSE
CONSTANTS
    Places = {here, there}
    Buttons = {"Triangle"}
    MaxWorld = 2
    Capacity = 2
    Generations = 128
    MaxEvents = 4
    MaxAhead = 1
    MaxEpochs = 2
    MaxFailures = 1
    Absent = Absent
    None = None
INVARIANTS
    PedIsInOnePlace
    PoolHoldsTheVehicle
PROPERTIES
    FailuresAreContained
    TasksEnd
