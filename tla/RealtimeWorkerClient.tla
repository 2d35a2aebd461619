------------------------ MODULE RealtimeWorkerClient ------------------------
(***************************************************************************)
(* A caller of RealtimeWorker that uses all of its services at once, the   *)
(* way NativeVehicleAssetQueueProbe.cpp does: worlds are taken and either  *)
(* discarded or published (Retire the old one, later Release), and every   *)
(* other call comes whenever it likes, with stale and repeated tickets.    *)
(***************************************************************************)
EXTENDS RealtimeWorker, FiniteSets

CONSTANTS MaxTickets,    \* bound: tickets of each one-slot service [Kinds -> Nat]
          Peds,          \* bound: requests for ped models
          Vehicles,      \* bound: requests for vehicle models, [Id, Definition]
          MaxAsked       \* bound: jobs given to the worker

ASSUME NoRequestAssumption == NoRequest \notin Peds
ASSUME AskedAssumption == MaxAsked \in Nat

VARIABLES asked,            \* jobs given to the worker
          shown, uploading, \* the world shown, the one being uploaded
          releasing,        \* published, and not yet released
          owed,             \* what was accepted and has not been taken
          tickets,          \* the vehicle tickets given out,
          cancelled,        \* those of them that were cancelled
          taken             \* and those whose packet was taken

clientVars == <<asked, shown, uploading, releasing, owed, tickets, cancelled, taken>>
allVars == <<vars, clientVars>>

ClientInit ==
    /\ Init
    /\ asked = 0
    /\ shown = [Position |-> world.Center, Generation |-> 1, Error |-> FALSE]
    /\ uploading = NoWorld
    /\ releasing = FALSE
    /\ owed = [k \in Kinds \cup {"Ped"} |-> {}]
    /\ tickets = {} /\ cancelled = {} /\ taken = {}

\* A new job is asked for, within the bound, or none is
Counted(new) ==
    /\ asked' = IF new THEN asked + 1 ELSE asked
    /\ asked' <= MaxAsked

WorldUnchanged  == UNCHANGED <<shown, uploading, releasing>>
OthersUnchanged == UNCHANGED <<owed, tickets, cancelled, taken>>

\* Worlds: one is taken, uploaded and published, or thrown away
WantWorld ==
    /\ \E c \in Centers, wanted \in BOOLEAN :
           Request(c, wanted) /\ Counted(wanted /\ ~world.Wanted)
    /\ WorldUnchanged /\ OthersUnchanged

GetWorld ==
    /\ TakeReady
    /\ uploading' = world.Ready
    /\ UNCHANGED <<asked, shown, releasing>> /\ OthersUnchanged

DropWorld ==
    /\ uploading # NoWorld /\ ~releasing
    /\ Discard(uploading)
    /\ uploading' = NoWorld
    /\ UNCHANGED <<asked, shown, releasing>> /\ OthersUnchanged

PublishWorld ==
    /\ uploading # NoWorld /\ ~releasing /\ ~uploading.Error
    /\ Retire(shown)
    /\ shown' = uploading /\ uploading' = NoWorld /\ releasing' = TRUE
    /\ UNCHANGED asked /\ OthersUnchanged

ReleaseWorld ==
    /\ releasing
    /\ Release
    /\ releasing' = FALSE
    /\ UNCHANGED <<asked, shown, uploading>> /\ OthersUnchanged

\* One-slot services: a new ticket, or the same one again
AskSlot(k, t) ==
    /\ RequestSlot(k, t) /\ Counted(slots'[k].Waiting # slots[k].Waiting)
    /\ owed' = [owed EXCEPT ![k] = IF SlotAdmits(k, t) THEN @ \cup {t} ELSE @]
    /\ UNCHANGED <<tickets, cancelled, taken>> /\ WorldUnchanged

GetSlot(k, t) ==
    /\ TakeSlot(k, t) /\ Counted(FALSE)
    /\ owed' = [owed EXCEPT ![k] = @ \ {t}]
    /\ UNCHANGED <<tickets, cancelled, taken>> /\ WorldUnchanged

AskPed(r) ==
    /\ RequestPedAsset(r) /\ Counted(ped' # ped)
    /\ owed' = [owed EXCEPT !["Ped"] = IF PedAdmits(r) THEN @ \cup {r} ELSE @]
    /\ UNCHANGED <<tickets, cancelled, taken>> /\ WorldUnchanged

GetPed(r) ==
    /\ TakePedAsset(r) /\ Counted(FALSE)
    /\ owed' = [owed EXCEPT !["Ped"] = @ \ {r}]
    /\ UNCHANGED <<tickets, cancelled, taken>> /\ WorldUnchanged

\* Vehicles: by ticket, and cancelled at any time
AskVehicle(r) ==
    /\ RequestVehicle(r) /\ Counted(vehicle' # vehicle)
    /\ tickets' = tickets \cup ({vehicle'.Ticket} \ {NoTicket})
    /\ UNCHANGED <<owed, cancelled, taken>> /\ WorldUnchanged

DropVehicle(t) ==
    /\ CancelVehicle(t) /\ Counted(FALSE)
    /\ cancelled' = IF Phase(t) = "Missing" THEN cancelled ELSE cancelled \cup {t}
    /\ UNCHANGED <<owed, tickets, taken>> /\ WorldUnchanged

GetVehicle(t) ==
    /\ TakeVehicleReady(t) /\ Counted(FALSE)
    /\ taken' = taken \cup {vehicle.Result}
    /\ UNCHANGED <<owed, tickets, cancelled>> /\ WorldUnchanged

\* At any time, whatever is going on
LeaveWorker ==
    /\ Stop({shown, uploading})
    /\ shown' = NoWorld /\ uploading' = NoWorld
    /\ UNCHANGED <<asked, releasing>> /\ OthersUnchanged

Call ==
    \/ WantWorld \/ GetWorld \/ DropWorld \/ PublishWorld \/ ReleaseWorld
    \/ \E k \in Kinds : \E t \in 1 .. MaxTickets[k] : AskSlot(k, t) \/ GetSlot(k, t)
    \/ \E r \in Peds : AskPed(r) \/ GetPed(r)
    \/ \E r \in Vehicles : AskVehicle(r)
    \/ \E t \in tickets : DropVehicle(t) \/ GetVehicle(t)
    \/ LeaveWorker

\* The caller waits in join(), then goes on without the worker
Join == m_Stop /\ UNCHANGED allVars

ClientNext == Call \/ (Run /\ UNCHANGED clientVars) \/ Join

ClientSpec == ClientInit /\ [][ClientNext]_allVars

\* The operating system runs the worker; the caller may stop calling
FairClientSpec == ClientSpec /\ WF_allVars(Run /\ UNCHANGED clientVars)
-----------------------------------------------------------------------------
\* The values the calls and the worker leave each other make sense.
ClientTypeOK ==
    /\ m_Stop \in BOOLEAN
    /\ world.Center \in Centers /\ world.Generation \in 1 .. MaxAsked + 1
    /\ world.Building <=> at = "World"
    /\ slots \in [Kinds -> [Waiting : Nat, InFlight : Nat, Ready : Nat]]
    /\ \A k \in Kinds : slots[k].InFlight # 0 <=> at = k
    /\ {ped.Admitted, ped.Waiting, ped.Ready} \subseteq Peds \cup {NoRequest}
    /\ vehicle.Sequence \in 0 .. MaxSequence
    /\ vehicle.Phase = "Ready" => vehicle.Result = vehicle.Ticket
    /\ cancelled \cup taken \subseteq tickets

\* What a one-slot service has accepted stays in its slot, unchanged, until it
\* is taken: a second ticket never overwrites the completion of the first.
AcceptedIsKept ==
    /\ \A k \in Kinds :
           m_Stop \/ owed[k] = {slots[k].Waiting, slots[k].InFlight, slots[k].Ready} \ {0}
    /\ m_Stop \/ owed["Ped"] = {ped.Admitted} \ {NoRequest}
    /\ \/ m_Stop \/ ped.Admitted = NoRequest
       \/ ped.Admitted \in {ped.Waiting, ped.Ready}
       \/ at = "Ped" /\ local = ped.Admitted

\* A vehicle whose cancellation was acknowledged is never handed out, though
\* its parser ran to the end, and no packet is handed out twice.
CancelledIsNeverTaken == cancelled \cap taken = {}

\* A mailbox keeps its word: what it accepted stays until somebody takes it,
\* and what was cancelled is never handed out.
SlotsKeepTheirWord == AcceptedIsKept /\ CancelledIsNeverTaken

\* "At most two world packets": the one shown and one on its way in or out.
TwoPacketsAtMost ==
    Cardinality(Packets \cup {w.Generation : w \in {shown, uploading} \ {NoWorld}}) <= 2

\* Whatever the caller does within its rules, no assertion fails, no world is
\* built that nobody wants, and the worlds stay within their bound.
WorkerIsSound ==
    ClientTypeOK /\ AssertionsHold /\ FallThroughIsAWantedWorld /\ TwoPacketsAtMost

\* A job that waits its turn is begun, unless the scripts' models and textures
\* come without end: they have priority.
WaitingJobsRun ==
    <>[](\A k \in Kinds : slots[k].Waiting = 0) =>
        \A j \in Turns : Waits(j) ~> (~Waits(j) \/ m_Stop)

\* Stop returns: the worker finishes the job it is at and exits.
StopJoins == m_Stop ~> at = "Exited"
=============================================================================
