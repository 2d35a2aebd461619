SPECIFICATION FairClientSpec
CONSTANTS
    Centers = {c1}
    MaxSequence = 2
    NoWorld = NoWorld
    NoRequest = NoRequest
    MaxTickets <- JobTickets
    Peds = {p1, p2}
    Vehicles <- JobVehicles
    MaxAsked = 4
INVARIANTS
    WorkerIsSound
    SleepsWithoutWork
    TurnsAreFair
    SlotsKeepTheirWord
PROPERTIES
    WaitingJobsRun
    StopJoins
