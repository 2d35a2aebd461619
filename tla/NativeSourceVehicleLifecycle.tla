-------------------- MODULE NativeSourceVehicleLifecycle --------------------
(***************************************************************************)
(* One player and one vehicle: spawned, entered, driven, left, destroyed,  *)
(* and taken to the next world (NativeSourceVehicleLifecycle.h, .cpp).     *)
(*                                                                         *)
(* The class owns a vehicle pool, the vehicle and a camera, and shares     *)
(* with its caller the worlds in which the ped stands.  Every call changes *)
(* several of them one after the other and publishes a snapshot at the     *)
(* end; a call that fails on the way returns at once.  Its input comes     *)
(* through NativeSourcePad, its snapshots go to NativeSourceSliceFeedback. *)
(*                                                                         *)
(* Positions are members of Places, near is equal.  The clock of the       *)
(* caller does not go back; a camera transition has run its time whenever  *)
(* a frame says so.  Calls refused before they change anything are shown   *)
(* where their refusal matters (the frames), otherwise they do not occur.  *)
(***************************************************************************)
EXTENDS Integers, Sequences, FiniteSets

CONSTANTS
    Places,             \* where the ped and the vehicle can be
    Buttons,            \* of the pad: Triangle enters and leaves
    MaxWorld,           \* worlds have the generations 1..MaxWorld
    Capacity,           \* of the pool
    Generations,        \* of a slot of the pool
    MaxEvents,          \* bound on the journal: nothing optional after it
    MaxAhead,           \* bound on what the pool is ahead of the last snapshot
    MaxEpochs,          \* bound on spawns
    MaxFailures,        \* how often memory for a snapshot may be missing
    Absent, None        \* no ped, no value

ASSUME LifecycleAssumption ==
    /\ "Triangle" \in Buttons /\ Buttons \subseteq {"Square", "Cross", "Triangle"}
    /\ MaxWorld \in Nat \ {0} /\ MaxEvents \in Nat /\ MaxAhead \in Nat /\ MaxEpochs \in Nat
    /\ MaxFailures \in Nat
    /\ Capacity \in Nat \ {0} /\ Generations \in 1..256
    /\ Absent \notin Places

VARIABLES
    pool,               \* m_Pool
    m_Automobile,       \* the vehicle, None without one
    m_Camera,           \* the camera, None before the first spawn
    m_PedWorld,         \* generation of the ped's world, 0 before
    m_Ped,              \* the ped as the lifecycle last knew it
    pedWorlds,          \* where the ped stands in each world, or Absent
    m_Published,        \* the last snapshot, None before the first
    m_NextEvent,        \* sequence number of the next event
    m_NextEpoch,
    pad,                \* the buttons of the last sample
    status,             \* what the last call returned
    failures            \* how often memory was missing

owned == <<pool, m_Automobile, m_Camera, m_Ped>>
vars == <<owned, m_PedWorld, pedWorlds, m_Published, m_NextEvent, m_NextEpoch,
          pad, status, failures>>

Worlds == 1..MaxWorld
Controller == "NativeGameplayController"
VehicleStates == [Status : {"Simple", "Player", "Abandoned"}, Position : Places,
                  InWorld : BOOLEAN]

Pool == INSTANCE NativeVehiclePool
            WITH Producers <- {Controller}, States <- VehicleStates,
                 MaxUpdates <- MaxEvents, MaxFrames <- 0, snapshot <- [Frame |-> -1]

Automobiles == [Status : {"Simple", "Player", "Abandoned"}, Driver : BOOLEAN,
                Position : Places, Controls : SUBSET Buttons, Handbrake : BOOLEAN]
Cameras == [Mode : {"FollowPed", "CamOnAString"}, Active : BOOLEAN]
Phases == {"OnFoot", "Entering", "Driving", "Exiting", "Destroyed"}
Kinds == {"Spawn", "EnterRequested", "DoorOpened", "DoorClosed", "DriverAttached", "Drive",
          "ExitRequested", "DriverDetached", "Destroyed", "WorldEvicted"}
Snapshots ==
    [Epoch : Nat, WorldGeneration : Worlds, Phase : Phases, VehicleReference : Nat,
     PoolRevision : Nat, PoolAlive : Nat, PedPosition : Places, PedInWorld : BOOLEAN,
     InVehicle : BOOLEAN, DriverDoorOpen : BOOLEAN, PadButtons : SUBSET Buttons,
     PadPressed : SUBSET Buttons, Automobile : Automobiles \cup {None}, Camera : Cameras,
     Events : Seq([Sequence : Nat, Kind : Kinds, Phase : Phases])]

ASSUME NoneAssumption == None \notin Automobiles \cup Cameras \cup Snapshots

-----------------------------------------------------------------------------
(***************************************************************************)
(* The parts.                                                              *)
(***************************************************************************)
VehicleState(automobile, inWorld) ==
    [Status |-> automobile.Status, Position |-> automobile.Position, InWorld |-> inWorld]

Near(place, automobile) == place = automobile.Position

(* NativeSourceCamera: Initialize, Advance and Restore.  A transition that *)
(* is under way refuses another.                                           *)
InitialCamera == [Mode |-> "FollowPed", Active |-> FALSE]
Advanced(camera, elapsed) == [camera EXCEPT !.Active = @ /\ ~elapsed]
CanRestore(camera, mode) == mode = camera.Mode \/ ~camera.Active
Restored(camera, mode, elapsed) ==
    IF mode = camera.Mode THEN Advanced(camera, elapsed)
                          ELSE [Mode |-> mode, Active |-> TRUE]

Alive == Cardinality(DOMAIN pool.slots)

(* Append, and the fields every snapshot takes from the pool.              *)
Event(kind, phase) == [Sequence |-> m_NextEvent, Kind |-> kind, Phase |-> phase]
WithEvent(s, kind) == [s EXCEPT !.Events = Append(@, Event(kind, s.Phase))]
WithPool(s, p) == [s EXCEPT !.PoolRevision = p.revision,
                            !.PoolAlive = Cardinality(DOMAIN p.slots)]

NoMemory ==
    /\ failures < MaxFailures
    /\ failures' = failures + 1
    /\ status' = "Overflow"
    /\ UNCHANGED <<m_Published, m_NextEvent>>

\* Mutant: the event is counted although its snapshot is not published
Publish_CountsFirst(next, emitted) ==
    /\ m_NextEvent' = IF emitted THEN m_NextEvent + 1 ELSE m_NextEvent
    /\ \/ m_Published' = next /\ status' = "Ok" /\ UNCHANGED failures
       \/ /\ failures < MaxFailures
          /\ failures' = failures + 1 /\ status' = "Overflow"
          /\ UNCHANGED m_Published

(* Publish, the end of every call: all or nothing.  What the call did to   *)
(* its parts before stays done.                                            *)
Publish(next, emitted) ==
    \/ /\ m_Published' = next
       /\ m_NextEvent' = IF emitted THEN m_NextEvent + 1 ELSE m_NextEvent
       /\ status' = "Ok"
       /\ UNCHANGED failures
    \/ NoMemory

(* A call that returns an error, with its parts as they are by then.       *)
Fail(result) ==
    /\ status' = result
    /\ UNCHANGED <<m_Published, m_NextEvent, failures>>

Loaded == m_Published # None /\ m_Automobile # None
InPhase(phase) == m_Published # None /\ m_Published.Phase = phase
InTask == Loaded /\ m_Published.Phase \in {"Entering", "Exiting"}
RoomInJournal == /\ Len(m_Published.Events) < MaxEvents
                 /\ pool.revision <= m_Published.PoolRevision + MaxAhead

-----------------------------------------------------------------------------
EmptyPool == [Pool!EmptyPool EXCEPT !.owned = {Controller}, !.sealed = TRUE]

Init ==
    /\ pool = EmptyPool
    /\ m_Automobile = None /\ m_Camera = None
    /\ m_PedWorld = 0 /\ m_Ped = Absent
    /\ pedWorlds = [w \in Worlds |-> Absent]
    /\ m_Published = None
    /\ m_NextEvent = 1 /\ m_NextEpoch = 1
    /\ pad = {}
    /\ status = "Ok" /\ failures = 0

(* Spawn: the ped is in the world already, as the caller says, or is put   *)
(* there; then the vehicle, the pool, the camera.                          *)
Spawn(world, ped, place) ==
    /\ m_Published # None =>
          /\ m_Published.Phase = "Destroyed"
          /\ world >= m_Published.WorldGeneration
    /\ m_NextEpoch <= MaxEpochs
    /\ pedWorlds[world] \in {Absent, ped}
    /\ Pool!CanAllocate(pool, Controller)
    /\ LET automobile == [Status |-> "Simple", Driver |-> FALSE, Position |-> place,
                          Controls |-> {}, Handbrake |-> FALSE]
           p == Pool!Allocated(pool, Controller, VehicleState(automobile, TRUE))
           next == [Epoch |-> m_NextEpoch, WorldGeneration |-> world, Phase |-> "OnFoot",
                    VehicleReference |-> p.events[Len(p.events)].Reference,
                    PoolRevision |-> p.revision,
                    PoolAlive |-> Cardinality(DOMAIN p.slots),
                    PedPosition |-> ped, PedInWorld |-> TRUE, InVehicle |-> FALSE,
                    DriverDoorOpen |-> FALSE, PadButtons |-> {}, PadPressed |-> {},
                    Automobile |-> automobile, Camera |-> InitialCamera,
                    Events |-> <<[Sequence |-> 1, Kind |-> "Spawn", Phase |-> "OnFoot"]>>]
       IN /\ pool' = p
          /\ m_Automobile' = automobile
          /\ m_Camera' = InitialCamera
          /\ pedWorlds' = [pedWorlds EXCEPT ![world] = ped]
          /\ \/ /\ m_Published' = next /\ status' = "Ok"
                /\ m_PedWorld' = world /\ m_Ped' = ped
                /\ m_NextEvent' = 2 /\ m_NextEpoch' = m_NextEpoch + 1
                /\ UNCHANGED failures
             \/ /\ NoMemory
                /\ UNCHANGED <<m_PedWorld, m_Ped, m_NextEpoch>>
    /\ UNCHANGED pad

(* The player presses Triangle on foot: the task that enters begins, if    *)
(* the ped, where the last snapshot has it, is near the vehicle.           *)
TickEnter(next, elapsed) ==
    LET entering == WithEvent([next EXCEPT !.Phase = "Entering", !.DriverDoorOpen = FALSE],
                              "EnterRequested")
        camera == Restored(m_Camera, "CamOnAString", elapsed)
    IN IF ~Near(next.PedPosition, next.Automobile)
       THEN Fail("InvalidInput") /\ UNCHANGED owned
       ELSE IF ~CanRestore(m_Camera, "CamOnAString")
       THEN Fail("TransitionOutstanding") /\ UNCHANGED owned
       ELSE /\ RoomInJournal
            /\ m_Camera' = camera
            /\ Publish(WithPool([entering EXCEPT !.Camera = camera], pool), TRUE)
            /\ UNCHANGED <<pool, m_Automobile, m_Ped>>

(* Triangle at the wheel: handbrake first, then the camera, then the pool. *)
TickExit(next, elapsed) ==
    LET exiting == WithEvent([next EXCEPT !.Phase = "Exiting", !.DriverDoorOpen = FALSE],
                             "ExitRequested")
        camera == Restored(m_Camera, "FollowPed", elapsed)
        automobile == [m_Automobile EXCEPT !.Controls = {}, !.Handbrake = TRUE]
        p == Pool!Updated(pool, next.VehicleReference, VehicleState(automobile, TRUE))
    IN IF ~m_Automobile.Driver
       THEN Fail("AutomobileError") /\ UNCHANGED owned
       ELSE /\ m_Automobile' = automobile
            /\ UNCHANGED m_Ped
            /\ IF ~CanRestore(m_Camera, "FollowPed")
               THEN Fail("TransitionOutstanding") /\ UNCHANGED <<pool, m_Camera>>
               ELSE /\ m_Camera' = camera
                    /\ IF ~Pool!Resolves(pool, next.VehicleReference)
                       THEN Fail("PoolError") /\ UNCHANGED pool
                       ELSE /\ pool' = p
                            /\ Publish(WithPool([exiting EXCEPT !.Camera = camera,
                                                    !.Automobile = automobile], p), TRUE)

(* A step of driving: controls, physics, pool, camera.  The physics may    *)
(* refuse when the controls have been taken over.                          *)
TickDrive(next, place, elapsed) ==
    LET controlled == [m_Automobile EXCEPT !.Controls = next.PadButtons \ {"Triangle"},
                                           !.Handbrake = FALSE]
        moved == [controlled EXCEPT !.Position = place]
        p == Pool!Updated(pool, next.VehicleReference, VehicleState(moved, TRUE))
        camera == Restored(m_Camera, "CamOnAString", elapsed)
    IN /\ UNCHANGED m_Ped
       /\ IF ~m_Automobile.Driver
          THEN Fail("AutomobileError") /\ UNCHANGED <<pool, m_Automobile, m_Camera>>
          ELSE \/ /\ m_Automobile' = controlled
                  /\ Fail("AutomobileError")
                  /\ UNCHANGED <<pool, m_Camera>>
               \/ /\ RoomInJournal
                  /\ m_Automobile' = moved
                  /\ IF ~Pool!Resolves(pool, next.VehicleReference)
                     THEN Fail("PoolError") /\ UNCHANGED <<pool, m_Camera>>
                     ELSE /\ pool' = p
                          /\ IF ~CanRestore(m_Camera, "CamOnAString")
                             THEN Fail("TransitionOutstanding") /\ UNCHANGED m_Camera
                             ELSE /\ m_Camera' = camera
                                  /\ Publish(WithPool([WithEvent(next, "Drive") EXCEPT
                                                          !.Automobile = moved,
                                                          !.Camera = camera], p), TRUE)

\* Mutant: the camera does not move during a task
TickIdle_CameraWaits(next, elapsed) ==
    /\ Publish(WithPool(next, pool), FALSE)
    /\ UNCHANGED owned

TickIdle(next, elapsed) ==
    /\ m_Camera' = Advanced(m_Camera, elapsed)
    /\ Publish(WithPool([next EXCEPT !.Camera = Advanced(m_Camera, elapsed)], pool), FALSE)
    /\ UNCHANGED <<pool, m_Automobile, m_Ped>>

(* A frame: the pad forms its edges against its last sample, Tick tests    *)
(* them against the buttons of the last snapshot.                          *)
Frame(down, place, elapsed) ==
    LET pressed == down \ pad
        released == pad \ down
        held == m_Published.PadButtons
        next == [m_Published EXCEPT !.PadButtons = down, !.PadPressed = pressed]
        phase == m_Published.Phase
    IN /\ Loaded
       /\ pad' = down
       /\ IF pressed # down \ held \/ released # held \ down
          THEN Fail("InvalidInput") /\ UNCHANGED owned
          ELSE IF phase = "OnFoot" /\ "Triangle" \in pressed
          THEN TickEnter(next, elapsed)
          ELSE IF phase = "Driving" /\ "Triangle" \in pressed
          THEN TickExit(next, elapsed)
          ELSE IF phase = "Driving" THEN TickDrive(next, place, elapsed)
                                    ELSE TickIdle(next, elapsed)
       /\ UNCHANGED <<m_PedWorld, pedWorlds, m_NextEpoch>>

(* The animation of a task reports that the door moved.                    *)
ReportDriverDoor(open) ==
    /\ InTask
    /\ m_Published.DriverDoorOpen # open
    /\ RoomInJournal
    /\ Publish(WithEvent([m_Published EXCEPT !.DriverDoorOpen = open],
                         IF open THEN "DoorOpened" ELSE "DoorClosed"), TRUE)
    /\ UNCHANGED <<owned, m_PedWorld, pedWorlds, m_NextEpoch, pad>>

\* Mutant: the ped is not taken out of its world
CompleteEntry_PedStays ==
    LET reference == m_Published.VehicleReference
        automobile == [m_Automobile EXCEPT !.Driver = TRUE, !.Status = "Player"]
        p == Pool!Updated(pool, reference, VehicleState(automobile, TRUE))
        next == WithEvent([m_Published EXCEPT !.Phase = "Driving", !.PedInWorld = FALSE,
                               !.InVehicle = TRUE, !.Automobile = automobile],
                          "DriverAttached")
    IN /\ InTask /\ m_Published.Phase = "Entering"
       /\ ~m_Camera.Active
       /\ pedWorlds[m_PedWorld] = m_Ped
       /\ m_Automobile' = automobile
       /\ pool' = p /\ Publish(WithPool(next, p), TRUE)
       /\ UNCHANGED <<m_Camera, m_Ped, pedWorlds, m_PedWorld, m_NextEpoch, pad>>

(* The ped sits down: it must still be the one the lifecycle knows.        *)
CompleteEntry ==
    LET reference == m_Published.VehicleReference
        automobile == [m_Automobile EXCEPT !.Driver = TRUE, !.Status = "Player"]
        p == Pool!Updated(pool, reference, VehicleState(automobile, TRUE))
        next == WithEvent([m_Published EXCEPT !.Phase = "Driving", !.PedInWorld = FALSE,
                               !.InVehicle = TRUE, !.Automobile = automobile],
                          "DriverAttached")
    IN /\ InTask /\ m_Published.Phase = "Entering"
       /\ ~m_Camera.Active
       /\ IF pedWorlds[m_PedWorld] # m_Ped
          THEN Fail("InvalidPhase") /\ UNCHANGED <<owned, pedWorlds>>
          ELSE /\ m_Automobile' = automobile
               /\ pedWorlds' = [pedWorlds EXCEPT ![m_PedWorld] = Absent]
               /\ IF ~Pool!Resolves(pool, reference)
                  THEN Fail("PoolError") /\ UNCHANGED pool
                  ELSE pool' = p /\ Publish(WithPool(next, p), TRUE)
               /\ UNCHANGED <<m_Camera, m_Ped>>
       /\ UNCHANGED <<m_PedWorld, m_NextEpoch, pad>>

\* Mutant: the pool is not told that the vehicle is abandoned
CompleteExit_PoolNotTold(place) ==
    LET empty == [m_Automobile EXCEPT !.Status = "Abandoned", !.Driver = FALSE]
        next == WithEvent([m_Published EXCEPT !.Phase = "OnFoot", !.PedInWorld = TRUE,
                               !.InVehicle = FALSE, !.PedPosition = place,
                               !.Automobile = empty], "DriverDetached")
    IN /\ InTask /\ m_Published.Phase = "Exiting"
       /\ ~m_Camera.Active /\ Near(place, m_Automobile)
       /\ m_Automobile.Driver /\ pedWorlds[m_PedWorld] = Absent
       /\ m_Automobile' = empty /\ m_Ped' = place
       /\ pedWorlds' = [pedWorlds EXCEPT ![m_PedWorld] = place]
       /\ Publish(WithPool(next, pool), TRUE)
       /\ UNCHANGED <<pool, m_Camera, m_PedWorld, m_NextEpoch, pad>>

(* The ped gets out at a place near the vehicle: RemoveDriver sets the     *)
(* status before it clears the driver, the ped is put back into its world. *)
CompleteExit(place) ==
    LET reference == m_Published.VehicleReference
        abandoned == [m_Automobile EXCEPT !.Status = "Abandoned"]
        empty == [abandoned EXCEPT !.Driver = FALSE]
        p == Pool!Updated(pool, reference, VehicleState(empty, TRUE))
        next == WithEvent([m_Published EXCEPT !.Phase = "OnFoot", !.PedInWorld = TRUE,
                               !.InVehicle = FALSE, !.PedPosition = place,
                               !.Automobile = empty], "DriverDetached")
    IN /\ InTask /\ m_Published.Phase = "Exiting"
       /\ ~m_Camera.Active
       /\ Near(place, m_Automobile)
       /\ UNCHANGED m_Camera
       /\ IF ~m_Automobile.Driver
          THEN /\ Fail("AutomobileError")
               /\ m_Automobile' = abandoned
               /\ UNCHANGED <<pool, m_Ped, pedWorlds>>
          ELSE /\ m_Automobile' = empty
               /\ m_Ped' = place
               /\ IF pedWorlds[m_PedWorld] # Absent
                  THEN Fail("InvalidPhase") /\ UNCHANGED <<pool, pedWorlds>>
                  ELSE /\ pedWorlds' = [pedWorlds EXCEPT ![m_PedWorld] = place]
                       /\ IF ~Pool!Resolves(pool, reference)
                          THEN Fail("PoolError") /\ UNCHANGED pool
                          ELSE pool' = p /\ Publish(WithPool(next, p), TRUE)
       /\ UNCHANGED <<m_PedWorld, m_NextEpoch, pad>>

(* Destroy: out of the world, out of the pool, and only then the vehicle.  *)
Destroy ==
    LET reference == m_Published.VehicleReference
        p == Pool!Released(Pool!Updated(pool, reference, VehicleState(m_Automobile, FALSE)),
                           reference)
        next == WithEvent([m_Published EXCEPT !.Phase = "Destroyed",
                               !.Automobile = m_Automobile], "Destroyed")
    IN /\ Loaded /\ m_Published.Phase = "OnFoot" /\ ~m_Automobile.Driver
       /\ IF ~Pool!Resolves(pool, reference)
          THEN Fail("PoolError") /\ UNCHANGED <<pool, m_Automobile>>
          ELSE /\ pool' = p
               /\ Publish(WithPool(next, p), TRUE)
               /\ m_Automobile' = IF status' = "Ok" THEN None ELSE m_Automobile
       /\ UNCHANGED <<m_Camera, m_Ped, m_PedWorld, pedWorlds, m_NextEpoch, pad>>

\* Mutant: the old world stays the ped's
EvictWorld_KeepsWorld(world) ==
    LET ped == pedWorlds[m_PedWorld]
        next == WithEvent([m_Published EXCEPT !.WorldGeneration = world, !.Automobile = None],
                          "WorldEvicted")
    IN /\ InPhase("Destroyed") /\ Alive = 0
       /\ world > m_Published.WorldGeneration
       /\ ped # Absent /\ pedWorlds[world] = Absent
       /\ Publish(WithPool(next, pool), TRUE)
       /\ IF status' = "Ok"
          THEN /\ pedWorlds' = [pedWorlds EXCEPT ![world] = ped, ![m_PedWorld] = Absent]
               /\ m_Ped' = ped /\ UNCHANGED m_PedWorld
          ELSE UNCHANGED <<pedWorlds, m_PedWorld, m_Ped>>
       /\ UNCHANGED <<pool, m_Automobile, m_Camera, m_NextEpoch, pad>>

\* Mutant: a failure leaves the ped in both worlds
EvictWorld_NotUndone(world) ==
    LET ped == pedWorlds[m_PedWorld]
        next == WithEvent([m_Published EXCEPT !.WorldGeneration = world, !.Automobile = None],
                          "WorldEvicted")
    IN /\ InPhase("Destroyed") /\ Alive = 0
       /\ world > m_Published.WorldGeneration
       /\ ped # Absent /\ pedWorlds[world] = Absent
       /\ Publish(WithPool(next, pool), TRUE)
       /\ IF status' = "Ok"
          THEN /\ pedWorlds' = [pedWorlds EXCEPT ![world] = ped, ![m_PedWorld] = Absent]
               /\ m_PedWorld' = world /\ m_Ped' = ped
          ELSE pedWorlds' = [pedWorlds EXCEPT ![world] = ped] /\ UNCHANGED <<m_PedWorld, m_Ped>>
       /\ UNCHANGED <<pool, m_Automobile, m_Camera, m_NextEpoch, pad>>

(* EvictWorld: the ped goes to the next world, and back if the snapshot    *)
(* cannot be published.                                                    *)
EvictWorld(world) ==
    LET ped == pedWorlds[m_PedWorld]
        next == WithEvent([m_Published EXCEPT !.WorldGeneration = world, !.Automobile = None],
                          "WorldEvicted")
    IN /\ InPhase("Destroyed") /\ Alive = 0
       /\ world > m_Published.WorldGeneration
       /\ ped # Absent /\ pedWorlds[world] = Absent
       /\ Publish(WithPool(next, pool), TRUE)
       /\ IF status' = "Ok"
          THEN /\ pedWorlds' = [pedWorlds EXCEPT ![world] = ped, ![m_PedWorld] = Absent]
               /\ m_PedWorld' = world /\ m_Ped' = ped
          ELSE UNCHANGED <<pedWorlds, m_PedWorld, m_Ped>>
       /\ UNCHANGED <<pool, m_Automobile, m_Camera, m_NextEpoch, pad>>

(* The caller steps the lifecycle's world and the ped moves.  (BeginControl *)
(* and StepCollision of NativeSourcePedWorld.)                             *)
Walk(place) ==
    /\ m_PedWorld # 0
    /\ pedWorlds[m_PedWorld] \notin {Absent, place}
    /\ pedWorlds' = [pedWorlds EXCEPT ![m_PedWorld] = place]
    /\ UNCHANGED <<owned, m_PedWorld, m_Published, m_NextEvent, m_NextEpoch, pad,
                   status, failures>>

Frames == \E down \in SUBSET Buttons, place \in Places, elapsed \in BOOLEAN :
              Frame(down, place, elapsed)
CompleteTask == CompleteEntry \/ \E place \in Places : CompleteExit(place)

Next ==
    \/ \E world \in Worlds, ped, place \in Places : Spawn(world, ped, place)
    \/ Frames
    \/ \E open \in BOOLEAN : ReportDriverDoor(open)
    \/ CompleteTask
    \/ Destroy
    \/ \E world \in Worlds : EvictWorld(world)
    \/ \E place \in Places : Walk(place)

Spec == Init /\ [][Next]_vars

(* The frame loop goes on, time passes, and the animations of a task end:  *)
(* weak fairness of frames in which a transition has had its time, and of  *)
(* the hand-over.  Nothing else is promised.                               *)
LaterFrame == \E down \in SUBSET Buttons, place \in Places : Frame(down, place, TRUE)
Fairness == WF_vars(LaterFrame) /\ WF_vars(CompleteTask)
FairSpec == Spec /\ Fairness

-----------------------------------------------------------------------------
(***************************************************************************)
(* What NativeSourceSliceFeedback accepts (ValidateLifecycle, Initialize,  *)
(* Observe): a first snapshot, and a snapshot after another.               *)
(***************************************************************************)
Consistent(s) ==
    /\ \A i \in DOMAIN s.Events : s.Events[i].Sequence = i
    /\ CASE s.Phase \in {"Driving", "Exiting"} ->
                s.InVehicle /\ ~s.PedInWorld /\ s.Automobile # None
         [] s.Phase \in {"OnFoot", "Entering"} ->
                ~s.InVehicle /\ s.PedInWorld /\ s.Automobile # None
         [] s.Phase = "Destroyed" -> TRUE

Begins(s) ==
    /\ Consistent(s)
    /\ Len(s.Events) = 1 /\ s.Events[1].Kind = "Spawn"

Follows(s, t) ==
    /\ Consistent(t)
    /\ t.Epoch = s.Epoch
    /\ Len(t.Events) \in {Len(s.Events), Len(s.Events) + 1}
    /\ SubSeq(t.Events, 1, Len(s.Events)) = s.Events
    /\ \A i \in (Len(s.Events) + 1)..Len(t.Events) :
          /\ t.Events[i].Kind \in {"EnterRequested", "ExitRequested"}
                => "Triangle" \in t.PadPressed
          /\ t.Events[i].Kind \in {"DoorOpened", "DoorClosed"} => t.Automobile # None

-----------------------------------------------------------------------------
(***************************************************************************)
(* Properties.                                                             *)
(***************************************************************************)
TypeOK ==
    /\ m_Automobile \in Automobiles \cup {None}
    /\ m_Camera \in Cameras \cup {None}
    /\ m_PedWorld \in 0..MaxWorld
    /\ m_Ped \in Places \cup {Absent}
    /\ pedWorlds \in [Worlds -> Places \cup {Absent}]
    /\ m_Published \in Snapshots \cup {None}
    /\ m_Published # None => m_Published.WorldGeneration = m_PedWorld
    /\ m_NextEvent \in Nat /\ m_NextEpoch \in 1..(MaxEpochs + 1)
    /\ pad \subseteq Buttons /\ failures \in 0..MaxFailures

(* The ped stands in the lifecycle's world or sits at the wheel, never     *)
(* both or neither, as the snapshot says, and in no later world, through   *)
(* every hand-over between the two and from world to world, as long as     *)
(* there is memory (NativeSourceVehicleLifecycle.cpp:357, :369, :434).     *)
PlacesAgree ==
    m_Published # None =>
        LET driving == m_Published.Phase \in {"Driving", "Exiting"}
        IN /\ {w \in m_PedWorld..MaxWorld : pedWorlds[w] # Absent}
                 = IF driving THEN {} ELSE {m_PedWorld}
           /\ (m_Automobile # None /\ m_Automobile.Driver) <=> driving

PedIsInOnePlace == TypeOK /\ (failures = 0 => PlacesAgree)

(* The pool holds the vehicle of the last snapshot, as that shows it, and  *)
(* no other; a refused step of driving or a stale frame does not come      *)
(* between them (NativeSourceVehicleLifecycle.cpp:279, :374).              *)
PoolHoldsTheVehicle ==
    m_Published # None /\ failures = 0 =>
        /\ m_Published.PoolRevision = pool.revision
        /\ m_Published.PoolAlive = Alive
        /\ IF m_Published.Phase = "Destroyed"
           THEN Alive = 0
           ELSE /\ Alive = 1
                /\ Pool!Resolves(pool, m_Published.VehicleReference)
                /\ pool.slots[Pool!SlotOf(m_Published.VehicleReference)].State
                      = VehicleState(m_Published.Automobile, TRUE)

(* Who has observed one publication can observe the next: none is refused  *)
(* as stale, inconsistent or with an event missing, whatever failed        *)
(* between them (NativeSourceSliceFeedback.cpp:133).                       *)
NextIsObservable ==
    m_Published' # m_Published =>
        IF m_Published # None /\ m_Published'.Epoch = m_Published.Epoch
        THEN Follows(m_Published, m_Published')
        ELSE Begins(m_Published')

(* A way to the next world that fails is undone: between two snapshots the *)
(* ped of a vehicle that is gone stays in the worlds it was in             *)
(* (NativeSourceVehicleLifecycle.cpp:444).  A spawn puts the ped into its  *)
(* world before anything else.                                             *)
MigrationIsUndone ==
    InPhase("Destroyed") /\ m_Published' = m_Published /\ pool' = pool
        => \A w \in Worlds : pedWorlds'[w] = Absent <=> pedWorlds[w] = Absent

(* A call that fails at any of its steps is felt neither by the observer   *)
(* of the snapshots nor, on the way to the next world, by the worlds: but  *)
(* for a spawn that only its last Publish refuses (see pool' = pool).      *)
FailuresAreContained == [][NextIsObservable /\ MigrationIsUndone]_vars

(* A task that has begun ends: the ped sits, or stands again, unless       *)
(* memory was missing or the ped is not where it was last seen             *)
(* (NativeSourceVehicleLifecycle.cpp:326, :351).                           *)
Moved == m_PedWorld # 0 /\ pedWorlds[m_PedWorld] # m_Ped
TasksEnd ==
    /\ InPhase("Entering") ~> InPhase("Driving") \/ Moved \/ failures > 0
    /\ InPhase("Exiting") ~> InPhase("OnFoot") \/ failures > 0
=============================================================================
