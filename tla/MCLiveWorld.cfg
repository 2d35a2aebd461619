\* The frame loop, the scripts, the camera and the traffic: safety and liveness.
SPECIFICATION LiveSpec
CONSTANTS
    c1 = c1
    c2 = c2
    Centers = {c1, c2}
    MaxSequence = 1
    NoWorld = NoWorld
    NoRequest = NoRequest
    Origin = c1
    NoIdentity = NoIdentity
    MaxMoves = 1
    MaxCalls = 2
    MaxPopulation = 1
INVARIANTS
    SameGeneration
    OnlyATakeOverIsRefused
    WorldsFitTogether
PROPERTIES
    ScriptIsServed
    CameraGetsItsWorld
