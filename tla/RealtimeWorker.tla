--------------------------- MODULE RealtimeWorker ---------------------------
(***************************************************************************)
(* The parser thread of the Linux build: class Worker of                   *)
(* source/app/platform/linux/RealtimeStreaming.h with the vehicle mailbox  *)
(* of NativeVehicleAssetQueue.h.                                           *)
(*                                                                         *)
(* One mutex, one condition variable, one worker, one caller.  A step is   *)
(* one critical section.  `at` is the place of the worker: it holds the    *)
(* mutex at "Loop", where a job is finished and the next one chosen        *)
(* without letting go, and only there.  A notification wakes the worker    *)
(* only if it is "Asleep"; one that comes earlier is lost.                 *)
(*                                                                         *)
(* The module has the state and the actions of both sides.  The modules    *)
(* that extend it say what the caller does, and when.                      *)
(***************************************************************************)
EXTENDS Integers

CONSTANTS Centers,     \* where a world may be built (Center)
          MaxSequence, \* numeric_limits<uint64_t>::max() of m_Sequence
          NoWorld, NoRequest

\* A built world, or the error that came of it
BuiltWorlds == [Position : Centers, Generation : Nat, Error : BOOLEAN]

ASSUME NoWorldAssumption == NoWorld \notin BuiltWorlds
ASSUME SequenceAssumption == MaxSequence \in Nat

VARIABLES
    m_Stop,
    world,   \* m_Wanted, m_Busy, m_Building, m_Center, m_Generation and the
             \* worlds handed over: m_Ready, m_Retired, m_StopActive/Pending
    slots,   \* m_StaticModel*, m_ScriptTexture*: tickets, 0 for none
    ped,     \* m_PedAsset*
    vehicle, \* m_Vehicles
    turn,    \* m_LastWasVehicle, m_LastWasPed
    at,      \* where the worker is
    local,   \* the world it builds or destroys, the ticket it works on
    broken,  \* history: an assert() has failed
    passed   \* history: how many jobs were begun while one waited its turn

callerVars == <<m_Stop, world, slots, ped, vehicle, turn, local, broken, passed>>
vars == <<callerVars, at>>

Kinds == {"Static", "Texture"}
Turns == {"Ped", "Vehicle", "World"} \* the jobs that take turns

NoTicket == [Sequence |-> 0, Request |-> NoRequest]

Init ==
    /\ m_Stop = FALSE
    /\ \E c \in Centers :
           world = [Wanted |-> FALSE, Busy |-> FALSE, Building |-> FALSE,
                    Center |-> c, Generation |-> 1, Ready |-> NoWorld,
                    Retired |-> NoWorld, Stopped |-> {}]
    /\ slots = [k \in Kinds |-> [Waiting |-> 0, InFlight |-> 0, Ready |-> 0]]
    /\ ped = [Admitted |-> NoRequest, Waiting |-> NoRequest, Ready |-> NoRequest]
    /\ vehicle = [Sequence |-> 0, Ticket |-> NoTicket, Phase |-> "Missing",
                  Result |-> NoTicket]
    /\ turn = [LastWasVehicle |-> FALSE, LastWasPed |-> FALSE]
    /\ at = "Woken"
    /\ local = NoWorld
    /\ broken = FALSE
    /\ passed = [j \in Turns |-> 0]

-----------------------------------------------------------------------------
(* The caller: lock_guard lock(m_Mutex), the change, m_Wake.notify_one() *)

\* The caller may take the mutex; after Stop it waits in join()
Free == at # "Loop" /\ ~m_Stop

Notify == at' = IF at = "Asleep" THEN "Woken" ELSE at

Asserts(condition) == broken' = (broken \/ ~condition)

\* A mailbox, not a queue: the last center counts
Request(center, wanted) ==
    /\ Free
    /\ world' = [world EXCEPT !.Center = center, !.Wanted = wanted]
    /\ Notify
    /\ UNCHANGED <<m_Stop, slots, ped, vehicle, turn, local, broken, passed>>

\* Mutant: a job in flight no longer counts
SlotAdmits_NotInFlight(k, ticket) ==
    {slots[k].Waiting, slots[k].Ready} \subseteq {0, ticket}

\* What RequestStaticModel and RequestScriptTexture answer: the ticket is in
\* the slot, or may be put there
SlotAdmits(k, ticket) ==
    IF slots[k].InFlight # 0 THEN slots[k].InFlight = ticket
    ELSE {slots[k].Waiting, slots[k].Ready} \subseteq {0, ticket}

RequestSlot(k, ticket) ==
    /\ Free
    /\ IF SlotAdmits(k, ticket) /\ slots[k].InFlight # ticket
       THEN /\ slots' = IF slots[k].Ready = 0
                        THEN [slots EXCEPT ![k].Waiting = ticket] ELSE slots
            /\ Notify
       ELSE UNCHANGED <<slots, at>>
    /\ UNCHANGED <<m_Stop, world, ped, vehicle, turn, local, broken, passed>>

TakeSlot(k, ticket) ==
    /\ Free
    /\ slots[k].Ready = ticket
    /\ slots' = [slots EXCEPT ![k].Ready = 0]
    /\ UNCHANGED <<m_Stop, world, ped, vehicle, turn, at, local, broken, passed>>

PedAdmits(request) == ped.Admitted \in {NoRequest, request}

RequestPedAsset(request) ==
    /\ Free
    /\ IF PedAdmits(request) /\ ped.Admitted # request
       THEN /\ ped' = [ped EXCEPT !.Admitted = request, !.Waiting = request]
            /\ Notify
       ELSE UNCHANGED <<ped, at>>
    /\ UNCHANGED <<m_Stop, world, slots, vehicle, turn, local, broken, passed>>

TakePedAsset(request) ==
    /\ Free
    /\ ped.Ready = request
    /\ ped' = [ped EXCEPT !.Ready = NoRequest, !.Admitted = NoRequest]
    /\ UNCHANGED <<m_Stop, world, slots, vehicle, turn, at, local, broken, passed>>

\* Mutant: the sequence wraps
Submission_Unlimited(request) ==
    LET old   == vehicle.Ticket.Request
        known == old # NoRequest /\ old.Id = request.Id
    IN IF known /\ vehicle.Phase # "Cancelled" THEN "Existing"
       ELSE IF vehicle.Phase \notin {"Missing", "Cancelled"} THEN "Busy"
       ELSE "Accepted"

\* What NativeVehicleAssetQueue::Submit answers
Submission(request) ==
    LET old   == vehicle.Ticket.Request
        known == old # NoRequest /\ old.Id = request.Id
    IN IF known /\ old # request THEN "Conflict"
       ELSE IF known /\ vehicle.Phase # "Cancelled" THEN "Existing"
       ELSE IF vehicle.Phase \notin {"Missing", "Cancelled"} THEN "Busy"
       ELSE IF vehicle.Sequence = MaxSequence THEN "Invalid"
       ELSE "Accepted"

Submitted(request) ==
    IF Submission(request) = "Accepted"
    THEN [vehicle EXCEPT !.Sequence = @ + 1, !.Phase = "Waiting",
             !.Ticket = [Sequence |-> vehicle.Sequence + 1, Request |-> request]]
    ELSE vehicle

\* Mutant: the worker is not told
RequestVehicle_Silent(request) ==
    /\ Free
    /\ vehicle' = Submitted(request)
    /\ UNCHANGED <<m_Stop, world, slots, ped, turn, at, local, broken, passed>>

RequestVehicle(request) ==
    /\ Free
    /\ vehicle' = Submitted(request)
    /\ Notify
    /\ UNCHANGED <<m_Stop, world, slots, ped, turn, local, broken, passed>>

\* VehiclePhase, and what CancelVehicle and TakeVehicleReady ask
Phase(ticket) == IF ticket = vehicle.Ticket THEN vehicle.Phase ELSE "Missing"

\* Mutant: the cancelled slot is free at once
AfterCancel_AtOnce(phase) == "Cancelled"

\* The parser cannot be interrupted, nor its result be destroyed here
AfterCancel(phase) ==
    CASE phase = "Waiting"              -> "Cancelled"
      [] phase \in {"Running", "Ready"} -> "Cancelling"
      [] OTHER                          -> phase

CancelVehicle(ticket) ==
    /\ Free
    /\ vehicle' = [vehicle EXCEPT !.Phase =
                      IF ticket = vehicle.Ticket THEN AfterCancel(@) ELSE @]
    /\ Notify
    /\ UNCHANGED <<m_Stop, world, slots, ped, turn, local, broken, passed>>

TakeVehicleReady(ticket) ==
    /\ Free
    /\ Phase(ticket) = "Ready"
    /\ vehicle' = [vehicle EXCEPT !.Phase = "Missing", !.Ticket = NoTicket,
                                  !.Result = NoTicket]
    /\ UNCHANGED <<m_Stop, world, slots, ped, turn, at, local, broken, passed>>

TakeReady ==
    /\ Free
    /\ world.Ready # NoWorld
    /\ world' = [world EXCEPT !.Ready = NoWorld]
    /\ UNCHANGED <<m_Stop, slots, ped, vehicle, turn, at, local, broken, passed>>

\* A world that is not published after all goes back to be destroyed
Discard(w) ==
    /\ Free
    /\ Asserts(world.Busy /\ world.Retired = NoWorld /\ world.Ready = NoWorld)
    /\ world' = [world EXCEPT !.Retired = w, !.Busy = FALSE]
    /\ Notify
    /\ UNCHANGED <<m_Stop, slots, ped, vehicle, turn, local, passed>>

\* Mutant: the next world may be built before the release
Retire_Releases(w) ==
    /\ Free
    /\ Asserts(world.Busy /\ world.Retired = NoWorld)
    /\ world' = [world EXCEPT !.Retired = w, !.Busy = FALSE]
    /\ Notify
    /\ UNCHANGED <<m_Stop, slots, ped, vehicle, turn, local, passed>>

\* The world that was shown until now
Retire(w) ==
    /\ Free
    /\ Asserts(world.Busy /\ world.Retired = NoWorld)
    /\ world' = [world EXCEPT !.Retired = w]
    /\ Notify
    /\ UNCHANGED <<m_Stop, slots, ped, vehicle, turn, local, passed>>

\* Mutant: the worker is not told
Release_Silent ==
    /\ Free
    /\ Asserts(world.Busy /\ world.Ready = NoWorld)
    /\ world' = [world EXCEPT !.Busy = FALSE]
    /\ UNCHANGED <<m_Stop, slots, ped, vehicle, turn, at, local, passed>>

Release ==
    /\ Free
    /\ Asserts(world.Busy /\ world.Ready = NoWorld)
    /\ world' = [world EXCEPT !.Busy = FALSE]
    /\ Notify
    /\ UNCHANGED <<m_Stop, slots, ped, vehicle, turn, local, passed>>

\* Mutant: the worker is not told
Stop_Silent(worlds) ==
    /\ Free
    /\ m_Stop' = TRUE
    /\ world' = [world EXCEPT !.Stopped = worlds \ {NoWorld}]
    /\ UNCHANGED <<slots, ped, vehicle, turn, at, local, broken, passed>>

\* Stop, up to join()
Stop(worlds) ==
    /\ Free
    /\ m_Stop' = TRUE
    /\ world' = [world EXCEPT !.Stopped = worlds \ {NoWorld}]
    /\ Notify
    /\ UNCHANGED <<slots, ped, vehicle, turn, local, broken, passed>>

-----------------------------------------------------------------------------
(* The worker *)

VehicleWaiting == vehicle.Phase = "Waiting"
Retiring       == vehicle.Phase = "Cancelling" /\ vehicle.Result # NoTicket
WorldWanted    == ~world.Busy /\ world.Wanted

\* The predicate of m_Wake.wait
HasWork ==
    \/ m_Stop
    \/ world.Retired # NoWorld
    \/ Retiring
    \/ VehicleWaiting
    \/ \E k \in Kinds : slots[k].Waiting # 0
    \/ ped.Waiting # NoRequest
    \/ WorldWanted

\* Mutant: held back even when nobody else has work
PedsTurn_Strict == ped.Waiting # NoRequest /\ ~turn.LastWasPed

PedsTurn ==
    /\ ped.Waiting # NoRequest
    /\ (~VehicleWaiting /\ ~WorldWanted) \/ ~turn.LastWasPed

VehiclesTurn == VehicleWaiting /\ (~WorldWanted \/ ~turn.LastWasVehicle)

NextJob ==
    IF m_Stop THEN "Stop"
    ELSE IF world.Retired # NoWorld THEN "RetireWorld"
    ELSE IF Retiring THEN "RetireVehicle"
    ELSE IF slots["Static"].Waiting # 0 THEN "Static"
    ELSE IF slots["Texture"].Waiting # 0 THEN "Texture"
    ELSE IF PedsTurn THEN "Ped"
    ELSE IF VehiclesTurn THEN "Vehicle"
    ELSE "World"

\* It has the mutex and looks for work
Looks == at \in {"Woken", "Loop"}

Takes(job) == Looks /\ HasWork /\ NextJob = job

Sleep ==
    /\ Looks /\ ~HasWork
    /\ at' = "Asleep"
    /\ UNCHANGED callerVars

\* What waits while a job of another kind begins has been passed once more
Waits(j) ==
    CASE j = "Ped"     -> ped.Waiting # NoRequest
      [] j = "Vehicle" -> VehicleWaiting
      [] j = "World"   -> WorldWanted

TakesTurn(job) ==
    passed' = [j \in Turns |-> IF j # job /\ Waits(j) THEN passed[j] + 1 ELSE 0]

\* The end: what the worker has been given is destroyed with its locals
Quit ==
    /\ Takes("Stop")
    /\ world' = [world EXCEPT !.Ready = NoWorld, !.Retired = NoWorld, !.Stopped = {}]
    /\ vehicle' = [vehicle EXCEPT !.Phase = "Stopped", !.Ticket = NoTicket,
                                  !.Result = NoTicket]
    /\ ped' = [ped EXCEPT !.Ready = NoRequest]
    /\ at' = "Exited"
    /\ UNCHANGED <<m_Stop, slots, turn, local, broken, passed>>

RetireWorld ==
    /\ Takes("RetireWorld")
    /\ local' = world.Retired
    /\ world' = [world EXCEPT !.Retired = NoWorld]
    /\ at' = "RetireWorld"
    /\ UNCHANGED <<m_Stop, slots, ped, vehicle, turn, broken, passed>>

WorldRetired ==
    /\ at = "RetireWorld"
    /\ local' = NoWorld
    /\ at' = "Woken"
    /\ UNCHANGED <<m_Stop, world, slots, ped, vehicle, turn, broken, passed>>

RetireVehicle ==
    /\ Takes("RetireVehicle")
    /\ vehicle' = [vehicle EXCEPT !.Phase = "Cancelled", !.Result = NoTicket]
    /\ at' = "Woken"
    /\ UNCHANGED <<m_Stop, world, slots, ped, turn, local, broken, passed>>

LoadSlot(k) ==
    /\ Takes(k)
    /\ slots' = [slots EXCEPT ![k].Waiting = 0, ![k].InFlight = slots[k].Waiting]
    /\ at' = k
    /\ UNCHANGED <<m_Stop, world, ped, vehicle, turn, local, broken, passed>>

\* Loaded or failed: the completion has the ticket in any case
SlotLoaded(k) ==
    /\ at = k
    /\ slots' = [slots EXCEPT ![k].InFlight = 0, ![k].Ready = slots[k].InFlight]
    /\ at' = "Loop"
    /\ UNCHANGED <<m_Stop, world, ped, vehicle, turn, local, broken, passed>>

LoadPed ==
    /\ Takes("Ped")
    /\ ped' = [ped EXCEPT !.Waiting = NoRequest]
    /\ local' = ped.Waiting
    /\ turn' = [turn EXCEPT !.LastWasPed = TRUE]
    /\ TakesTurn("Ped")
    /\ at' = "Ped"
    /\ UNCHANGED <<m_Stop, world, slots, vehicle, broken>>

PedLoaded ==
    /\ at = "Ped"
    /\ ped' = [ped EXCEPT !.Ready = local]
    /\ local' = NoWorld
    /\ at' = "Loop"
    /\ UNCHANGED <<m_Stop, world, slots, vehicle, turn, broken, passed>>

\* Mutant: the ped parser is still taken for the last one
LoadVehicle_KeepsLastWasPed ==
    /\ Takes("Vehicle")
    /\ vehicle' = [vehicle EXCEPT !.Phase = "Running"]
    /\ local' = vehicle.Ticket
    /\ turn' = [turn EXCEPT !.LastWasVehicle = TRUE]
    /\ TakesTurn("Vehicle")
    /\ at' = "Vehicle"
    /\ UNCHANGED <<m_Stop, world, slots, ped, broken>>

LoadVehicle ==
    /\ Takes("Vehicle")
    /\ vehicle' = [vehicle EXCEPT !.Phase = "Running"]
    /\ local' = vehicle.Ticket
    /\ turn' = [LastWasVehicle |-> TRUE, LastWasPed |-> FALSE]
    /\ TakesTurn("Vehicle")
    /\ at' = "Vehicle"
    /\ UNCHANGED <<m_Stop, world, slots, ped, broken>>

\* Mutant: a vehicle that was cancelled is published after all
VehicleLoaded_Publishes ==
    /\ at = "Vehicle"
    /\ vehicle' = [vehicle EXCEPT !.Phase = "Ready", !.Result = local]
    /\ local' = NoWorld
    /\ at' = "Woken"
    /\ UNCHANGED <<m_Stop, world, slots, ped, turn, broken, passed>>

VehicleLoaded ==
    /\ at = "Vehicle"
    /\ Asserts(/\ local = vehicle.Ticket
              /\ vehicle.Phase \in {"Running", "Cancelling"})
    /\ vehicle' = IF vehicle.Phase = "Cancelling"
                  THEN [vehicle EXCEPT !.Phase = "Cancelled"]
                  ELSE [vehicle EXCEPT !.Phase = "Ready", !.Result = local]
    /\ local' = NoWorld
    /\ at' = "Woken"
    /\ UNCHANGED <<m_Stop, world, slots, ped, turn, passed>>

BuildWorld ==
    /\ Takes("World")
    /\ world' = [world EXCEPT !.Wanted = FALSE, !.Busy = TRUE, !.Building = TRUE,
                              !.Generation = @ + 1]
    /\ local' = [Position |-> world.Center, Generation |-> world.Generation + 1]
    /\ turn' = [LastWasVehicle |-> FALSE, LastWasPed |-> FALSE]
    /\ TakesTurn("World")
    /\ at' = "World"
    /\ UNCHANGED <<m_Stop, slots, ped, vehicle, broken>>

\* Built, or an Error that the caller finds in the world
WorldBuilt ==
    /\ at = "World"
    /\ Asserts(world.Ready = NoWorld)
    /\ \E error \in BOOLEAN :
           world' = [world EXCEPT !.Building = FALSE, !.Ready =
               [Position |-> local.Position, Generation |-> local.Generation,
                Error |-> error]]
    /\ local' = NoWorld
    /\ at' = "Loop"
    /\ UNCHANGED <<m_Stop, slots, ped, vehicle, turn, passed>>

\* Everything the worker does; it waits for the mutex and for m_Wake only
Run ==
    \/ Sleep \/ Quit
    \/ RetireWorld \/ WorldRetired \/ RetireVehicle
    \/ \E k \in Kinds : LoadSlot(k) \/ SlotLoaded(k)
    \/ LoadPed \/ PedLoaded
    \/ LoadVehicle \/ VehicleLoaded
    \/ BuildWorld \/ WorldBuilt

\* The worlds the worker has a hand on
Packets ==
    {w.Generation : w \in ({world.Ready, world.Retired} \cup world.Stopped) \ {NoWorld}}
    \cup (IF at \in {"World", "RetireWorld"} THEN {local.Generation} ELSE {})

-----------------------------------------------------------------------------
(* Properties, of every caller that keeps the rules *)

\* A world is built only when one is wanted and none is owed to the caller,
\* although the last branch of Run (line 431) tests nothing.
FallThroughIsAWantedWorld == Takes("World") => WorldWanted

\* No wake-up is lost: the worker never sleeps while there is something to do.
SleepsWithoutWork == at = "Asleep" => ~HasWork

\* No assert() of the worker or of the vehicle queue fails.
AssertionsHold == ~broken

\* "Neither queue can starve the other" (Run, line 397): a job that waits for
\* its turn is passed by a bounded number of the jobs it takes turns with.
TurnsAreFair == passed["Ped"] <= 1 /\ passed["Vehicle"] <= 3 /\ passed["World"] <= 3
=============================================================================
