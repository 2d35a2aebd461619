-------------------------- MODULE RealtimeProofs --------------------------
(***************************************************************************)
(* Proofs about RealtimeWorker and its two callers, RealtimeWorkerClient   *)
(* and LiveWorld, for every set of centers, peds, vehicles and tickets and *)
(* for every bound.                                                        *)
(*                                                                         *)
(* With RealtimeWorkerClient the inductive invariant is a conjunction of   *)
(* one part per mailbox, each with the types it needs, and each is         *)
(* inductive nearly by itself: what a step for one mailbox does to the     *)
(* others is nothing.                                                      *)
(*                                                                         *)
(* None of the properties of LiveWorld is inductive.  That the frame sees  *)
(* one generation depends on where a publication of the host can wait to   *)
(* be shown, that on what the transaction may do while it waits, and all   *)
(* of it on there being one world besides the world shown, which is in one *)
(* place at a time.  The parts of the invariant say this one by one.       *)
(***************************************************************************)
EXTENDS RealtimeWorkerClient, LiveWorld, FiniteSetTheorems, TLAPS

-----------------------------------------------------------------------------
(* The steps, by mailbox                                                   *)

WorldSteps ==
    \/ WantWorld \/ GetWorld \/ DropWorld \/ PublishWorld \/ ReleaseWorld
    \/ (RetireWorld \/ WorldRetired \/ BuildWorld \/ WorldBuilt) /\ UNCHANGED clientVars

SlotSteps ==
    \/ \E k \in Kinds : \E t \in 1 .. MaxTickets[k] : AskSlot(k, t) \/ GetSlot(k, t)
    \/ (\E k \in Kinds : LoadSlot(k) \/ SlotLoaded(k)) /\ UNCHANGED clientVars

PedSteps ==
    \/ \E r \in Peds : AskPed(r) \/ GetPed(r)
    \/ (LoadPed \/ PedLoaded) /\ UNCHANGED clientVars

VehicleSteps ==
    \/ \E r \in Vehicles : AskVehicle(r)
    \/ \E t \in tickets : DropVehicle(t) \/ GetVehicle(t)
    \/ (LoadVehicle \/ VehicleLoaded \/ RetireVehicle) /\ UNCHANGED clientVars

LastSteps == LeaveWorker \/ (Quit /\ UNCHANGED clientVars)

IdleSteps == (Sleep /\ UNCHANGED clientVars) \/ UNCHANGED allVars

LEMMA StepsByMailbox ==
    [ClientNext]_allVars => \/ WorldSteps \/ SlotSteps \/ PedSteps \/ VehicleSteps
                            \/ LastSteps \/ IdleSteps
<1> SUFFICES ASSUME [ClientNext]_allVars
             PROVE  WorldSteps \/ SlotSteps \/ PedSteps \/ VehicleSteps \/ LastSteps \/ IdleSteps
  OBVIOUS
<1>1. CASE Call
  <2>1. CASE WantWorld \/ GetWorld \/ DropWorld \/ PublishWorld \/ ReleaseWorld
    BY <2>1 DEF WorldSteps
  <2>2. CASE \E k \in Kinds : \E t \in 1 .. MaxTickets[k] : AskSlot(k, t) \/ GetSlot(k, t)
    BY <2>2 DEF SlotSteps
  <2>3. CASE \E r \in Peds : AskPed(r) \/ GetPed(r)
    BY <2>3 DEF PedSteps
  <2>4. CASE \E r \in Vehicles : AskVehicle(r)
    BY <2>4 DEF VehicleSteps
  <2>5. CASE \E t \in tickets : DropVehicle(t) \/ GetVehicle(t)
    BY <2>5 DEF VehicleSteps
  <2>6. CASE LeaveWorker
    BY <2>6 DEF LastSteps
  <2> QED BY <1>1, <2>1, <2>2, <2>3, <2>4, <2>5, <2>6 DEF Call
<1>2. CASE Run /\ UNCHANGED clientVars
  <2>1. CASE Sleep \/ Quit
    BY <1>2, <2>1 DEF LastSteps, IdleSteps
  <2>2. CASE RetireWorld \/ WorldRetired \/ BuildWorld \/ WorldBuilt
    BY <1>2, <2>2 DEF WorldSteps
  <2>3. CASE \E k \in Kinds : LoadSlot(k) \/ SlotLoaded(k)
    BY <1>2, <2>3 DEF SlotSteps
  <2>4. CASE LoadPed \/ PedLoaded
    BY <1>2, <2>4 DEF PedSteps
  <2>5. CASE LoadVehicle \/ VehicleLoaded \/ RetireVehicle
    BY <1>2, <2>5 DEF VehicleSteps
  <2> QED BY <1>2, <2>1, <2>2, <2>3, <2>4, <2>5 DEF Run
<1>3. CASE UNCHANGED allVars
  BY <1>3 DEF IdleSteps
<1> QED BY <1>1, <1>2, <1>3 DEF ClientNext, Join

\* No job of this set begins or ends
Keeps(places) == \A p \in places : at' = p <=> at = p

LEMMA WorldStepsElsewhere ==
    ASSUME WorldSteps
    PROVE  /\ UNCHANGED <<m_Stop, slots, ped, vehicle, owed, tickets, cancelled, taken>>
           /\ Keeps({"Static", "Texture", "Ped", "Vehicle"})
           /\ at \in {"Ped", "Vehicle"} => local' = local
           /\ BuildWorld \/ UNCHANGED <<turn, passed>>
<1>1. CASE WantWorld \/ GetWorld \/ DropWorld \/ PublishWorld \/ ReleaseWorld
  BY <1>1 DEF WantWorld, GetWorld, DropWorld, PublishWorld, ReleaseWorld, Request,
     TakeReady, Discard, Retire, Release, Notify, Keeps, OthersUnchanged
<1>2. CASE (RetireWorld \/ WorldRetired \/ BuildWorld \/ WorldBuilt) /\ UNCHANGED clientVars
  BY <1>2 DEF RetireWorld, WorldRetired, BuildWorld, WorldBuilt, Takes, Looks, Keeps,
     clientVars
<1> QED BY <1>1, <1>2 DEF WorldSteps

LEMMA SlotStepsElsewhere ==
    ASSUME SlotSteps
    PROVE  /\ UNCHANGED <<m_Stop, world, ped, vehicle, turn, passed, local, broken>>
           /\ UNCHANGED <<shown, uploading, releasing, tickets, cancelled, taken>>
           /\ Keeps({"Ped", "Vehicle", "World", "RetireWorld"})
           /\ asked \in Nat /\ asked <= MaxAsked =>
                  asked' \in Nat /\ asked' >= asked /\ asked' <= MaxAsked
<1>1. CASE \E k \in Kinds : \E t \in 1 .. MaxTickets[k] : AskSlot(k, t) \/ GetSlot(k, t)
  <2>1. PICK k \in Kinds : \E t \in 1 .. MaxTickets[k] : AskSlot(k, t) \/ GetSlot(k, t)
    BY <1>1
  <2> QED BY <2>1, AskedAssumption DEF AskSlot, GetSlot, RequestSlot, TakeSlot, Counted,
          Notify, Keeps, WorldUnchanged
<1>2. CASE (\E k \in Kinds : LoadSlot(k) \/ SlotLoaded(k)) /\ UNCHANGED clientVars
  BY <1>2 DEF LoadSlot, SlotLoaded, Takes, Looks, Keeps, Kinds, clientVars
<1> QED BY <1>1, <1>2 DEF SlotSteps

LEMMA PedStepsElsewhere ==
    ASSUME PedSteps
    PROVE  /\ UNCHANGED <<m_Stop, world, slots, vehicle, broken>>
           /\ UNCHANGED <<shown, uploading, releasing, tickets, cancelled, taken>>
           /\ Keeps({"Static", "Texture", "Vehicle", "World", "RetireWorld"})
           /\ at \in {"Vehicle", "World", "RetireWorld"} => local' = local
           /\ LoadPed \/ UNCHANGED <<turn, passed>>
           /\ asked \in Nat /\ asked <= MaxAsked =>
                  asked' \in Nat /\ asked' >= asked /\ asked' <= MaxAsked
<1>1. CASE \E r \in Peds : AskPed(r) \/ GetPed(r)
  BY <1>1, AskedAssumption DEF AskPed, GetPed, RequestPedAsset, TakePedAsset, Counted,
     Notify, Keeps, WorldUnchanged
<1>2. CASE (LoadPed \/ PedLoaded) /\ UNCHANGED clientVars
  BY <1>2 DEF LoadPed, PedLoaded, Takes, Looks, Keeps, clientVars
<1> QED BY <1>1, <1>2 DEF PedSteps

LEMMA VehicleStepsElsewhere ==
    ASSUME VehicleSteps
    PROVE  /\ UNCHANGED <<m_Stop, world, slots, ped>>
           /\ UNCHANGED <<shown, uploading, releasing, owed>>
           /\ Keeps({"Static", "Texture", "Ped", "World", "RetireWorld"})
           /\ at \in {"Ped", "World", "RetireWorld"} => local' = local
           /\ LoadVehicle \/ UNCHANGED <<turn, passed>>
           /\ VehicleLoaded \/ UNCHANGED broken
           /\ asked \in Nat /\ asked <= MaxAsked =>
                  asked' \in Nat /\ asked' >= asked /\ asked' <= MaxAsked
<1>1. CASE \E r \in Vehicles : AskVehicle(r)
  BY <1>1, AskedAssumption DEF AskVehicle, RequestVehicle, Counted, Notify, Keeps,
     WorldUnchanged
<1>2. CASE \E t \in tickets : DropVehicle(t) \/ GetVehicle(t)
  BY <1>2, AskedAssumption DEF DropVehicle, GetVehicle, CancelVehicle, TakeVehicleReady,
     Counted, Notify, Keeps, WorldUnchanged
<1>3. CASE (LoadVehicle \/ VehicleLoaded \/ RetireVehicle) /\ UNCHANGED clientVars
  BY <1>3 DEF LoadVehicle, VehicleLoaded, RetireVehicle, Takes, Looks, Keeps, clientVars
<1> QED BY <1>1, <1>2, <1>3 DEF VehicleSteps

LEMMA LastStepsElsewhere ==
    ASSUME LastSteps
    PROVE  /\ m_Stop'
           /\ UNCHANGED <<slots, turn, passed, local, broken, owed>>
           /\ UNCHANGED <<tickets, cancelled, taken, asked, releasing>>
           /\ Keeps({"Static", "Texture", "Ped", "Vehicle", "World", "RetireWorld"})
<1>1. CASE LeaveWorker
  BY <1>1 DEF LeaveWorker, Stop, Notify, Keeps, OthersUnchanged
<1>2. CASE Quit /\ UNCHANGED clientVars
  BY <1>2 DEF Quit, Takes, Looks, NextJob, Keeps, clientVars, WorldWanted, VehicleWaiting,
     Retiring, PedsTurn, VehiclesTurn
<1> QED BY <1>1, <1>2 DEF LastSteps

LEMMA IdleStepsElsewhere ==
    ASSUME IdleSteps
    PROVE  /\ UNCHANGED <<callerVars, clientVars>>
           /\ Keeps({"Static", "Texture", "Ped", "Vehicle", "World", "RetireWorld"})
<1>1. CASE Sleep /\ UNCHANGED clientVars
  BY <1>1 DEF Sleep, Looks, Keeps
<1>2. CASE UNCHANGED allVars
  BY <1>2 DEF allVars, vars, Keeps
<1> QED BY <1>1, <1>2 DEF IdleSteps
-----------------------------------------------------------------------------
(* Turns.  What has passed a job so far and what still may, given what was *)
(* loaded last, stays within the bound.                                    *)

PedMayBePassed == IF turn.LastWasPed THEN 1 ELSE 0

VehicleMayBePassed ==
    IF turn.LastWasVehicle THEN IF turn.LastWasPed THEN 2 ELSE 3
                           ELSE IF turn.LastWasPed THEN 0 ELSE 1

WorldMayBePassed ==
    IF turn.LastWasVehicle THEN IF turn.LastWasPed THEN 0 ELSE 1
                           ELSE IF turn.LastWasPed THEN 2 ELSE 3

TurnsAgree ==
    /\ turn \in [LastWasVehicle : BOOLEAN, LastWasPed : BOOLEAN]
    /\ passed \in [Turns -> Nat]
    /\ passed["Ped"] + PedMayBePassed <= 1
    /\ passed["Vehicle"] + VehicleMayBePassed <= 3
    /\ passed["World"] + WorldMayBePassed <= 3

LEMMA TurnsKept ==
    ASSUME TurnsAgree, [ClientNext]_allVars
    PROVE  TurnsAgree'
<1> USE DEF TurnsAgree, Turns, PedMayBePassed, VehicleMayBePassed, WorldMayBePassed,
            TakesTurn, Waits
<1>1. CASE LoadPed
  <2>1. turn.LastWasPed => ~VehicleWaiting /\ ~WorldWanted
    BY <1>1 DEF LoadPed, Takes, NextJob, PedsTurn
  <2>2. /\ turn' \in [LastWasVehicle : BOOLEAN, LastWasPed : BOOLEAN]
        /\ turn'.LastWasPed
        /\ turn'.LastWasVehicle <=> turn.LastWasVehicle
    BY <1>1 DEF LoadPed
  <2>3. /\ passed' \in [Turns -> Nat]
        /\ passed'["Ped"] = 0
        /\ passed'["Vehicle"] = IF VehicleWaiting THEN passed["Vehicle"] + 1 ELSE 0
        /\ passed'["World"] = IF WorldWanted THEN passed["World"] + 1 ELSE 0
    BY <1>1 DEF LoadPed
  <2>4. CASE turn.LastWasPed
    BY <2>1, <2>2, <2>3, <2>4
  <2>5. CASE ~turn.LastWasPed
    <3>1. passed'["Vehicle"] + VehicleMayBePassed' <= 3
      BY <2>2, <2>3, <2>5
    <3>2. passed'["World"] + WorldMayBePassed' <= 3
      BY <2>2, <2>3, <2>5
    <3> QED BY <2>2, <2>3, <3>1, <3>2
  <2> QED BY <2>4, <2>5
<1>2. CASE LoadVehicle
  <2>1. /\ ped.Waiting # NoRequest => turn.LastWasPed
        /\ WorldWanted => ~turn.LastWasVehicle
    BY <1>2 DEF LoadVehicle, Takes, NextJob, PedsTurn, VehiclesTurn
  <2>2. turn' = [LastWasVehicle |-> TRUE, LastWasPed |-> FALSE]
    BY <1>2 DEF LoadVehicle
  <2>3. /\ passed' \in [Turns -> Nat]
        /\ passed'["Vehicle"] = 0
        /\ passed'["Ped"] = IF ped.Waiting # NoRequest THEN passed["Ped"] + 1 ELSE 0
        /\ passed'["World"] = IF WorldWanted THEN passed["World"] + 1 ELSE 0
    BY <1>2 DEF LoadVehicle
  <2>4. passed'["Ped"] <= 1
    BY <2>1, <2>3
  <2>5. WorldWanted => passed["World"] <= 1
    BY <2>1
  <2>6. passed'["World"] <= 2
    BY <2>3, <2>5
  <2> QED BY <2>2, <2>3, <2>4, <2>6
<1>3. CASE BuildWorld
  <2>1. /\ ped.Waiting # NoRequest => turn.LastWasPed
        /\ VehicleWaiting => turn.LastWasVehicle
    BY <1>3 DEF BuildWorld, Takes, NextJob, PedsTurn, VehiclesTurn
  <2> QED BY <1>3, <2>1 DEF BuildWorld
<1>4. CASE UNCHANGED <<turn, passed>>
  BY <1>4
<1> QED BY <1>1, <1>2, <1>3, <1>4, StepsByMailbox, WorldStepsElsewhere, SlotStepsElsewhere,
        PedStepsElsewhere, VehicleStepsElsewhere, LastStepsElsewhere, IdleStepsElsewhere
        DEF callerVars

-----------------------------------------------------------------------------
(* Models and textures of scripts: a slot holds one ticket at a time.      *)

OwedType == owed \in [Kinds \cup {"Ped"} -> SUBSET (Nat \cup Peds)]

SlotType == [Waiting : Nat, InFlight : Nat, Ready : Nat]

SlotAgrees(k) ==
    /\ slots[k].InFlight # 0 <=> at = k
    /\ slots[k].InFlight # 0 => slots[k].Waiting = 0 /\ slots[k].Ready = 0
    /\ slots[k].Waiting # 0 => slots[k].Ready = 0
    /\ owed[k] = {slots[k].Waiting, slots[k].InFlight, slots[k].Ready} \ {0}

SlotsAgree == slots \in [Kinds -> SlotType] /\ \A k \in Kinds : SlotAgrees(k)

LEMMA OwedKept ==
    ASSUME OwedType, [ClientNext]_allVars
    PROVE  OwedType'
<1>1. CASE SlotSteps
  <2>1. CASE \E k \in Kinds : \E t \in 1 .. MaxTickets[k] : AskSlot(k, t) \/ GetSlot(k, t)
    <3>1. PICK k \in Kinds : \E t \in 1 .. MaxTickets[k] : AskSlot(k, t) \/ GetSlot(k, t)
      BY <2>1
    <3>2. PICK t \in 1 .. MaxTickets[k] : AskSlot(k, t) \/ GetSlot(k, t)
      BY <3>1
    <3>3. t \in Nat
      OBVIOUS
    <3>4. CASE AskSlot(k, t)
      BY <3>3, <3>4 DEF OwedType, AskSlot
    <3>5. CASE GetSlot(k, t)
      BY <3>5 DEF OwedType, GetSlot
    <3> QED BY <3>2, <3>4, <3>5
  <2>2. CASE owed' = owed
    BY <2>2 DEF OwedType
  <2> QED BY <1>1, <2>1, <2>2 DEF SlotSteps, clientVars
<1>2. CASE PedSteps
  <2>1. CASE \E r \in Peds : AskPed(r) \/ GetPed(r)
    BY <2>1, ZenonT(30) DEF AskPed, GetPed, OwedType
  <2>2. CASE owed' = owed
    BY <2>2 DEF OwedType
  <2> QED BY <1>2, <2>1, <2>2 DEF PedSteps, clientVars
<1>3. CASE owed' = owed
  BY <1>3 DEF OwedType
<1> QED BY <1>1, <1>2, <1>3, StepsByMailbox, WorldStepsElsewhere, VehicleStepsElsewhere,
        LastStepsElsewhere, IdleStepsElsewhere DEF clientVars

LEMMA AskSlotAgrees ==
    ASSUME SlotsAgree, OwedType, NEW k \in Kinds, NEW t \in 1 .. MaxTickets[k], AskSlot(k, t)
    PROVE  SlotsAgree'
<1> USE DEF SlotType
<1>1. /\ Keeps(Kinds)
      /\ slots' \in {slots, [slots EXCEPT ![k].Waiting = t]}
      /\ owed' \in {owed, [owed EXCEPT ![k] = @ \cup {t}]}
  <2>1. Keeps(Kinds)
    BY DEF AskSlot, RequestSlot, Notify, Keeps, Kinds
  <2>2. slots' \in {slots, [slots EXCEPT ![k].Waiting = t]}
    BY DEF AskSlot, RequestSlot
  <2>3. owed' = IF SlotAdmits(k, t) THEN [owed EXCEPT ![k] = @ \cup {t}]
                ELSE [owed EXCEPT ![k] = @]
    BY DEF AskSlot
  <2>4. [owed EXCEPT ![k] = @] = owed
    BY DEF OwedType
  <2> QED BY <2>1, <2>2, <2>3, <2>4
<1>2. \A l \in Kinds \ {k} : SlotAgrees(l)'
  BY <1>1 DEF SlotsAgree, SlotAgrees, OwedType, Keeps
<1>3. SlotAgrees(k)'
  <2>1. CASE ~SlotAdmits(k, t)
    BY <1>1, <2>1 DEF AskSlot, RequestSlot, SlotsAgree, SlotAgrees, OwedType, Keeps
  <2>2. CASE SlotAdmits(k, t) /\ slots[k].InFlight = t
    <3>1. slots' = slots /\ t \in owed[k]
      BY <2>2 DEF AskSlot, RequestSlot, SlotsAgree, SlotAgrees
    <3> QED BY <1>1, <3>1 DEF SlotsAgree, SlotAgrees, OwedType, Keeps
  <2>3. CASE SlotAdmits(k, t) /\ slots[k].InFlight # t
    <3>1. /\ slots[k].InFlight = 0
          /\ slots[k].Waiting \in {0, t} /\ slots[k].Ready \in {0, t}
      BY <2>3 DEF SlotAdmits
    <3>2. owed' = [owed EXCEPT ![k] = @ \cup {t}]
      BY <2>3 DEF AskSlot
    <3>3. CASE slots[k].Ready = 0
      <4>1. slots' = [slots EXCEPT ![k].Waiting = t]
        BY <2>3, <3>3 DEF AskSlot, RequestSlot
      <4> QED BY <1>1, <3>1, <3>2, <3>3, <4>1 DEF SlotsAgree, SlotAgrees, OwedType, Keeps
    <3>4. CASE slots[k].Ready = t
      <4>1. slots' = slots
        BY <2>3, <3>4 DEF AskSlot, RequestSlot
      <4> QED BY <1>1, <3>1, <3>2, <3>4, <4>1 DEF SlotsAgree, SlotAgrees, OwedType, Keeps
    <3> QED BY <3>1, <3>3, <3>4
  <2> QED BY <2>1, <2>2, <2>3
<1> QED BY <1>1, <1>2, <1>3 DEF SlotsAgree

LEMMA SlotsKept ==
    ASSUME SlotsAgree, OwedType, [ClientNext]_allVars
    PROVE  SlotsAgree'
<1> USE DEF SlotType
<1>1. ASSUME NEW k \in Kinds, NEW t \in 1 .. MaxTickets[k], GetSlot(k, t)
      PROVE  SlotsAgree'
  <2>1. /\ Keeps(Kinds)
        /\ slots[k].Ready = t
        /\ slots' = [slots EXCEPT ![k].Ready = 0]
        /\ owed' = [owed EXCEPT ![k] = @ \ {t}]
    BY <1>1 DEF GetSlot, TakeSlot, Keeps
  <2> QED BY <2>1 DEF SlotsAgree, SlotAgrees, OwedType, Keeps
<1>2. ASSUME NEW k \in Kinds, LoadSlot(k), UNCHANGED owed
      PROVE  SlotsAgree'
  <2>1. slots[k].Waiting # 0 /\ at \notin Kinds
    BY <1>2 DEF LoadSlot, Takes, Looks, NextJob, Kinds
  <2> QED BY <1>2, <2>1 DEF LoadSlot, SlotsAgree, SlotAgrees, OwedType
<1>3. ASSUME NEW k \in Kinds, SlotLoaded(k), UNCHANGED owed
      PROVE  SlotsAgree'
  BY <1>3 DEF SlotLoaded, SlotsAgree, SlotAgrees, OwedType, Kinds
<1>4. CASE UNCHANGED slots /\ Keeps(Kinds) /\ \A k \in Kinds : owed'[k] = owed[k]
  BY <1>4 DEF SlotsAgree, SlotAgrees, Keeps
<1>5. CASE SlotSteps
  BY <1>1, <1>2, <1>3, <1>5, AskSlotAgrees DEF SlotSteps, clientVars
<1>6. CASE PedSteps
  <2>1. \A k \in Kinds : owed'[k] = owed[k]
    BY <1>6 DEF PedSteps, AskPed, GetPed, OwedType, Kinds, clientVars
  <2> QED BY <1>4, <1>6, <2>1, PedStepsElsewhere DEF Keeps, Kinds
<1> QED BY <1>4, <1>5, <1>6, StepsByMailbox, WorldStepsElsewhere, VehicleStepsElsewhere,
        LastStepsElsewhere, IdleStepsElsewhere DEF Keeps, Kinds, callerVars, clientVars

-----------------------------------------------------------------------------
(* The ped service: one request from its admission to its taking.          *)

PedRequests == Peds \cup {NoRequest}

PedAgrees ==
    /\ ped \in [Admitted : PedRequests, Waiting : PedRequests, Ready : PedRequests]
    /\ ped.Waiting \in {NoRequest, ped.Admitted}
    /\ ped.Ready \in {NoRequest, ped.Admitted}
    /\ at = "Ped" => /\ local = ped.Admitted /\ ped.Admitted \in Peds
                      /\ ped.Waiting = NoRequest /\ ped.Ready = NoRequest
    /\ ped.Waiting # NoRequest => ped.Ready = NoRequest
    /\ ~m_Stop => owed["Ped"] = {ped.Admitted} \ {NoRequest}
    /\ m_Stop \/ ped.Admitted = NoRequest \/ at = "Ped"
       \/ ped.Admitted \in {ped.Waiting, ped.Ready}

LEMMA PedKept ==
    ASSUME PedAgrees, OwedType, [ClientNext]_allVars
    PROVE  PedAgrees'
<1> USE NoRequestAssumption DEF PedRequests
<1>1. ASSUME NEW r \in Peds, AskPed(r)
      PROVE  PedAgrees'
  <2>1. (at' = "Ped" <=> at = "Ped") /\ local' = local /\ m_Stop' = m_Stop
    BY <1>1 DEF AskPed, RequestPedAsset, Notify
  <2>2. CASE ped.Admitted = NoRequest
    <3>1. /\ ped' = [ped EXCEPT !.Admitted = r, !.Waiting = r]
          /\ owed' = [owed EXCEPT !["Ped"] = @ \cup {r}]
      BY <1>1, <2>2 DEF AskPed, RequestPedAsset, PedAdmits
    <3> QED BY <2>1, <2>2, <3>1 DEF PedAgrees, OwedType
  <2>3. CASE ped.Admitted # NoRequest
    <3>1. ped' = ped
      BY <1>1, <2>3 DEF AskPed, RequestPedAsset, PedAdmits
    <3>2. ~m_Stop => owed'["Ped"] = {ped.Admitted} \ {NoRequest}
      BY <1>1, <2>3 DEF AskPed, PedAdmits, PedAgrees, OwedType
    <3> QED BY <2>1, <2>3, <3>1, <3>2 DEF PedAgrees
  <2> QED BY <2>2, <2>3
<1>2. CASE \E r \in Peds : GetPed(r)
  BY <1>2 DEF GetPed, TakePedAsset, PedAgrees, OwedType, Free
<1>3. CASE LoadPed /\ UNCHANGED clientVars
  <2>1. ped.Waiting # NoRequest /\ at # "Ped"
    BY <1>3 DEF LoadPed, Takes, Looks, NextJob, PedsTurn
  <2> QED BY <1>3, <2>1 DEF LoadPed, PedAgrees, clientVars
<1>4. CASE PedLoaded /\ UNCHANGED clientVars
  BY <1>4 DEF PedLoaded, PedAgrees, clientVars
<1>5. CASE /\ UNCHANGED <<ped, m_Stop>> /\ owed'["Ped"] = owed["Ped"]
           /\ Keeps({"Ped"}) /\ (at = "Ped" => local' = local)
  BY <1>5 DEF PedAgrees, Keeps
<1>6. CASE SlotSteps
  <2>1. owed'["Ped"] = owed["Ped"]
    BY <1>6 DEF SlotSteps, AskSlot, GetSlot, OwedType, Kinds, clientVars
  <2> QED BY <1>5, <1>6, <2>1, SlotStepsElsewhere DEF Keeps
<1>7. CASE LeaveWorker
  BY <1>7 DEF LeaveWorker, Stop, PedAgrees, Notify, OthersUnchanged, Free
<1>8. CASE Quit /\ UNCHANGED clientVars
  <2>1. m_Stop /\ at # "Ped"
    BY <1>8 DEF Quit, Takes, Looks, NextJob
  <2> QED BY <1>8, <2>1 DEF Quit, PedAgrees, clientVars
<1> QED BY <1>1, <1>2, <1>3, <1>4, <1>5, <1>6, <1>7, <1>8, StepsByMailbox,
        WorldStepsElsewhere, VehicleStepsElsewhere, IdleStepsElsewhere
        DEF Keeps, PedSteps, LastSteps, callerVars, clientVars

-----------------------------------------------------------------------------
(* Vehicles: tickets are new, and a cancelled one never becomes ready.     *)

AllTickets == [Sequence : 0 .. MaxSequence, Request : Vehicles \cup {NoRequest}]
VehiclePhases ==
    {"Missing", "Waiting", "Running", "Ready", "Cancelling", "Cancelled", "Stopped"}

VehicleAgrees ==
    /\ vehicle \in [Sequence : 0 .. MaxSequence, Ticket : AllTickets,
                    Phase : VehiclePhases, Result : AllTickets]
    /\ tickets \subseteq AllTickets /\ cancelled \cup taken \subseteq tickets
    /\ \A t \in tickets : t.Sequence \in 1 .. vehicle.Sequence
    /\ vehicle.Ticket \in tickets \cup {NoTicket}
    /\ vehicle.Ticket \notin taken
    /\ vehicle.Ticket \in cancelled => vehicle.Phase \in {"Cancelling", "Cancelled"}
    /\ vehicle.Phase = "Ready" => vehicle.Result = vehicle.Ticket
    /\ vehicle.Phase \in {"Missing", "Stopped"} => vehicle.Ticket = NoTicket
    /\ at = "Vehicle" => local = vehicle.Ticket /\ vehicle.Phase \in {"Running", "Cancelling"}
    /\ cancelled \cap taken = {}

LEMMA VehicleKept ==
    ASSUME VehicleAgrees, [ClientNext]_allVars
    PROVE  VehicleAgrees'
<1> USE SequenceAssumption DEF AllTickets, VehiclePhases
<1>0. NoTicket \notin tickets
  BY DEF VehicleAgrees, NoTicket
<1>1. ASSUME NEW r \in Vehicles, AskVehicle(r)
      PROVE  VehicleAgrees'
  <2>1. CASE Submission(r) = "Accepted"
    <3> DEFINE new == [Sequence |-> vehicle.Sequence + 1, Request |-> r]
    <3>1. /\ vehicle.Phase \in {"Missing", "Cancelled"} /\ vehicle.Sequence # MaxSequence
          /\ vehicle' = [vehicle EXCEPT !.Sequence = @ + 1, !.Phase = "Waiting", !.Ticket = new]
      BY <1>1, <2>1 DEF AskVehicle, RequestVehicle, Submission, Submitted
    <3>2. new \in AllTickets /\ new \notin tickets /\ new # NoTicket
      BY <3>1 DEF VehicleAgrees, NoTicket
    <3>3. tickets' = tickets \cup {new}
      BY <1>1, <3>1, <3>2 DEF AskVehicle, VehicleAgrees
    <3>4. at' # "Vehicle" \/ at = "Vehicle"
      BY <1>1 DEF AskVehicle, RequestVehicle, Notify
    <3>5. cancelled' = cancelled /\ taken' = taken
      BY <1>1 DEF AskVehicle
    <3>6. /\ vehicle' \in [Sequence : 0 .. MaxSequence, Ticket : AllTickets,
                          Phase : VehiclePhases, Result : AllTickets]
          /\ vehicle'.Sequence = vehicle.Sequence + 1
          /\ vehicle'.Ticket = new /\ vehicle'.Phase = "Waiting"
      BY <3>1, <3>2 DEF VehicleAgrees
    <3>7. \A t \in tickets' : t.Sequence \in 1 .. vehicle'.Sequence
      BY <3>1, <3>3, <3>6 DEF VehicleAgrees
    <3>8. at # "Vehicle"
      BY <3>1 DEF VehicleAgrees
    <3> HIDE DEF new
    <3> QED BY <3>2, <3>3, <3>4, <3>5, <3>6, <3>7, <3>8 DEF VehicleAgrees
  <2>2. CASE Submission(r) # "Accepted"
    <3>1. vehicle' = vehicle
      BY <1>1, <2>2 DEF AskVehicle, RequestVehicle, Submitted
    <3>2. tickets' = tickets
      BY <1>1, <3>1 DEF AskVehicle, VehicleAgrees
    <3> QED BY <1>1, <3>1, <3>2 DEF AskVehicle, RequestVehicle, VehicleAgrees, Notify
  <2> QED BY <2>1, <2>2
<1>2. ASSUME NEW t \in tickets, DropVehicle(t)
      PROVE  VehicleAgrees'
  <2>1. CASE t = vehicle.Ticket
    <3>1. vehicle.Phase \notin {"Missing", "Stopped"}
      BY <1>0, <2>1 DEF VehicleAgrees
    <3>2. vehicle' = [vehicle EXCEPT !.Phase = AfterCancel(@)]
      BY <1>2, <2>1 DEF DropVehicle, CancelVehicle
    <3>3. /\ AfterCancel(vehicle.Phase) \in {"Cancelling", "Cancelled"}
          /\ vehicle.Phase \in {"Running", "Cancelling"} =>
                 AfterCancel(vehicle.Phase) = "Cancelling"
      BY <3>1 DEF AfterCancel, VehicleAgrees
    <3>4. cancelled' = cancelled \cup {t} /\ UNCHANGED <<tickets, taken, local>>
      BY <1>2, <2>1, <3>1 DEF DropVehicle, CancelVehicle, Phase
    <3>5. at' = "Vehicle" => at = "Vehicle"
      BY <1>2 DEF DropVehicle, CancelVehicle, Notify
    <3> QED BY <2>1, <3>2, <3>3, <3>4, <3>5 DEF VehicleAgrees
  <2>2. CASE t # vehicle.Ticket
    <3>1. vehicle' = vehicle /\ cancelled' = cancelled
      BY <1>2, <2>2 DEF DropVehicle, CancelVehicle, Phase, VehicleAgrees
    <3> QED BY <1>2, <3>1 DEF DropVehicle, CancelVehicle, VehicleAgrees, Notify
  <2> QED BY <2>1, <2>2
<1>3. ASSUME NEW t \in tickets, GetVehicle(t)
      PROVE  VehicleAgrees'
  <2>1. t = vehicle.Ticket /\ vehicle.Phase = "Ready" /\ NoTicket \in AllTickets
    BY <1>3 DEF GetVehicle, TakeVehicleReady, Phase, NoTicket
  <2>2. /\ taken' = taken \cup {t} /\ UNCHANGED <<tickets, cancelled, at>>
        /\ t \notin cancelled /\ at # "Vehicle"
    BY <1>3, <2>1 DEF GetVehicle, TakeVehicleReady, VehicleAgrees
  <2>3. vehicle' = [vehicle EXCEPT !.Phase = "Missing", !.Ticket = NoTicket, !.Result = NoTicket]
    BY <1>3 DEF GetVehicle, TakeVehicleReady
  <2> QED BY <1>0, <2>1, <2>2, <2>3, ZenonT(30) DEF VehicleAgrees
<1>4. CASE LoadVehicle /\ UNCHANGED clientVars
  <2>1. vehicle.Phase = "Waiting"
    BY <1>4 DEF LoadVehicle, Takes, NextJob, VehiclesTurn, VehicleWaiting
  <2> QED BY <1>4, <2>1 DEF LoadVehicle, VehicleAgrees, clientVars
<1>5. CASE VehicleLoaded /\ UNCHANGED clientVars
  BY <1>5 DEF VehicleLoaded, VehicleAgrees, clientVars
<1>6. CASE RetireVehicle /\ UNCHANGED clientVars
  <2>1. vehicle.Phase = "Cancelling" /\ NoTicket \in AllTickets
    BY <1>6 DEF RetireVehicle, Takes, NextJob, Retiring, NoTicket
  <2> QED BY <1>6, <2>1 DEF RetireVehicle, VehicleAgrees, clientVars
<1>7. CASE Quit /\ UNCHANGED clientVars
  <2>1. NoTicket \in AllTickets
    BY DEF NoTicket
  <2> QED BY <1>0, <1>7, <2>1 DEF Quit, VehicleAgrees, clientVars
<1>8. CASE /\ UNCHANGED <<vehicle, tickets, cancelled, taken>>
           /\ Keeps({"Vehicle"}) /\ (at = "Vehicle" => local' = local)
  BY <1>8 DEF VehicleAgrees, Keeps
<1>9. CASE LeaveWorker
  BY <1>8, <1>9 DEF LeaveWorker, Stop, Notify, OthersUnchanged, Keeps
<1> QED BY <1>1, <1>2, <1>3, <1>4, <1>5, <1>6, <1>7, <1>8, <1>9, StepsByMailbox,
        WorldStepsElsewhere, SlotStepsElsewhere, PedStepsElsewhere, IdleStepsElsewhere
        DEF Keeps, VehicleSteps, LastSteps, callerVars, clientVars
-----------------------------------------------------------------------------
(* Worlds.  Besides the one shown there is one more at most, and it is in  *)
(* one place: being built, ready, being uploaded, retired or destroyed.    *)

AllWorlds == BuiltWorlds \cup {NoWorld}

WorldTypes ==
    /\ m_Stop \in BOOLEAN
    /\ world \in [Wanted : BOOLEAN, Busy : BOOLEAN, Building : BOOLEAN,
                  Center : Centers, Generation : Nat, Ready : AllWorlds,
                  Retired : AllWorlds, Stopped : SUBSET BuiltWorlds]
    /\ shown \in AllWorlds /\ uploading \in AllWorlds /\ releasing \in BOOLEAN
    /\ at = "World" => local \in [Position : Centers, Generation : Nat]
    /\ at = "RetireWorld" => local \in BuiltWorlds
    /\ asked \in Nat /\ asked <= MaxAsked
    /\ world.Generation >= 1 /\ world.Generation <= asked + 1
    /\ world.Wanted => world.Generation <= asked

Nowhere(places) == \A w \in places : w = NoWorld

\* Who has the one world that is not shown, and what m_Busy says of it
OneElsewhere ==
    /\ world.Building <=> at = "World"
    /\ at = "World" => /\ world.Busy /\ ~releasing
                      /\ Nowhere({world.Ready, world.Retired, uploading})
    /\ world.Ready # NoWorld => /\ world.Busy /\ ~releasing /\ at # "RetireWorld"
                               /\ Nowhere({world.Retired, uploading})
    /\ uploading # NoWorld => /\ world.Busy /\ ~releasing /\ at # "RetireWorld"
                           /\ Nowhere({world.Ready, world.Retired})
    /\ releasing => world.Busy /\ Nowhere({world.Ready, uploading})
    /\ at = "RetireWorld" => world.Retired = NoWorld

\* What the caller gives back when it stops
StoppedAgrees ==
    /\ ~m_Stop => world.Stopped = {}
    /\ m_Stop => Nowhere({shown, uploading})
    /\ \/ \E a \in AllWorlds : world.Stopped \subseteq {a}
       \/ /\ \E a, b \in AllWorlds : world.Stopped \subseteq {a, b}
          /\ Nowhere({world.Ready, world.Retired}) /\ at \notin {"World", "RetireWorld"}

WorldsAgree == WorldTypes /\ OneElsewhere /\ StoppedAgrees

\* What the last branch of Run relies on
LEMMA FallThrough == FallThroughIsAWantedWorld
<1> SUFFICES ASSUME Takes("World")
             PROVE  WorldWanted
  BY DEF FallThroughIsAWantedWorld
<1> QED BY DEF Takes, NextJob, HasWork, PedsTurn, VehiclesTurn, Kinds

LEMMA WorldsAgreeUndisturbed ==
    ASSUME WorldsAgree, UNCHANGED <<m_Stop, world, shown, uploading, releasing>>,
           Keeps({"World", "RetireWorld"}),
           at \in {"World", "RetireWorld"} => local' = local,
           asked' \in Nat, asked' >= asked, asked' <= MaxAsked
    PROVE  WorldsAgree'
<1> USE DEF Keeps
<1>1. WorldTypes'
  BY DEF WorldsAgree, WorldTypes
<1>2. OneElsewhere'
  BY DEF WorldsAgree, OneElsewhere, Nowhere
<1>3. StoppedAgrees'
  BY DEF WorldsAgree, StoppedAgrees, Nowhere
<1> QED BY <1>1, <1>2, <1>3 DEF WorldsAgree

LEMMA WorldsKeptByCaller ==
    ASSUME WorldsAgree,
           WantWorld \/ GetWorld \/ DropWorld \/ PublishWorld \/ ReleaseWorld
    PROVE  WorldsAgree' /\ (broken' <=> broken)
<1> USE DEF WorldsAgree, WorldTypes
<1>0. /\ (at' = "World" <=> at = "World") /\ (at' = "RetireWorld" <=> at = "RetireWorld")
      /\ UNCHANGED <<m_Stop, local>> /\ ~m_Stop
  BY DEF WantWorld, GetWorld, DropWorld, PublishWorld, ReleaseWorld, Request, TakeReady,
     Discard, Retire, Release, Notify, Free
<1>1. CASE WantWorld
  <2>1. PICK c \in Centers, wanted \in BOOLEAN : Request(c, wanted) /\ Counted(wanted /\ ~world.Wanted)
    BY <1>1 DEF WantWorld
  <2>2. /\ world' = [world EXCEPT !.Center = c, !.Wanted = wanted]
        /\ UNCHANGED <<shown, uploading, releasing, broken>>
    BY <1>1, <2>1 DEF WantWorld, Request, WorldUnchanged
  <2>3. WorldTypes'
    <3>1. /\ asked' \in Nat /\ asked' <= MaxAsked /\ asked <= asked'
          /\ wanted /\ ~world.Wanted => asked' = asked + 1
      BY <2>1 DEF Counted
    <3>2. /\ world' \in [Wanted : BOOLEAN, Busy : BOOLEAN, Building : BOOLEAN,
                         Center : Centers, Generation : Nat, Ready : AllWorlds,
                         Retired : AllWorlds, Stopped : SUBSET BuiltWorlds]
          /\ world'.Generation = world.Generation
          /\ world'.Wanted <=> wanted
      BY <2>2
    <3>3. world'.Wanted => world'.Generation <= asked'
      BY <3>1, <3>2
    <3> QED BY <1>0, <2>2, <3>1, <3>2, <3>3, AskedAssumption
  <2>4. OneElsewhere' /\ StoppedAgrees'
    BY <1>0, <2>2 DEF OneElsewhere, StoppedAgrees, Nowhere
  <2> QED BY <2>2, <2>3, <2>4
<1>2. CASE GetWorld
  <2>1. /\ world.Ready # NoWorld /\ world' = [world EXCEPT !.Ready = NoWorld]
        /\ uploading' = world.Ready
        /\ UNCHANGED <<asked, shown, releasing, broken>>
    BY <1>2 DEF GetWorld, TakeReady
  <2>2. WorldTypes'
    BY <1>0, <2>1 DEF AllWorlds
  <2>3. OneElsewhere'
    BY <1>0, <2>1 DEF OneElsewhere, Nowhere
  <2>4. StoppedAgrees'
    BY <1>0, <2>1 DEF StoppedAgrees, Nowhere
  <2> QED BY <2>1, <2>2, <2>3, <2>4
<1>3. CASE DropWorld
  <2>1. /\ uploading # NoWorld /\ uploading' = NoWorld
        /\ world' = [world EXCEPT !.Retired = uploading, !.Busy = FALSE]
        /\ UNCHANGED <<asked, shown, releasing>>
    BY <1>3 DEF DropWorld, Discard
  <2>2. broken' <=> broken
    BY <1>3, <2>1 DEF DropWorld, Discard, Asserts, OneElsewhere, Nowhere
  <2>3. WorldTypes'
    BY <1>0, <2>1 DEF AllWorlds
  <2>4. OneElsewhere'
    BY <1>0, <2>1 DEF OneElsewhere, Nowhere
  <2>5. StoppedAgrees'
    BY <1>0, <2>1 DEF StoppedAgrees, Nowhere
  <2> QED BY <2>2, <2>3, <2>4, <2>5
<1>4. CASE PublishWorld
  <2>1. /\ uploading # NoWorld /\ uploading' = NoWorld /\ shown' = uploading /\ releasing' = TRUE
        /\ world' = [world EXCEPT !.Retired = shown]
        /\ UNCHANGED asked
    BY <1>4 DEF PublishWorld, Retire
  <2>2. broken' <=> broken
    BY <1>4, <2>1 DEF PublishWorld, Retire, Asserts, OneElsewhere, Nowhere
  <2>3. WorldTypes'
    BY <1>0, <2>1 DEF AllWorlds
  <2>4. OneElsewhere'
    BY <1>0, <2>1 DEF OneElsewhere, Nowhere
  <2>5. StoppedAgrees'
    BY <1>0, <2>1 DEF StoppedAgrees, Nowhere
  <2> QED BY <2>2, <2>3, <2>4, <2>5
<1>5. CASE ReleaseWorld
  <2>1. /\ releasing /\ releasing' = FALSE
        /\ world' = [world EXCEPT !.Busy = FALSE]
        /\ UNCHANGED <<asked, shown, uploading>>
    BY <1>5 DEF ReleaseWorld, Release
  <2>2. broken' <=> broken
    BY <1>5, <2>1 DEF ReleaseWorld, Release, Asserts, OneElsewhere, Nowhere
  <2>3. WorldTypes'
    BY <1>0, <2>1
  <2>4. OneElsewhere'
    BY <1>0, <2>1 DEF OneElsewhere, Nowhere
  <2>5. StoppedAgrees'
    BY <1>0, <2>1 DEF StoppedAgrees, Nowhere
  <2> QED BY <2>2, <2>3, <2>4, <2>5
<1> QED BY <1>1, <1>2, <1>3, <1>4, <1>5

LEMMA WorldsKeptByWorker ==
    ASSUME WorldsAgree, UNCHANGED clientVars,
           RetireWorld \/ WorldRetired \/ BuildWorld \/ WorldBuilt
    PROVE  WorldsAgree' /\ (broken' <=> broken)
<1> USE DEF WorldsAgree, WorldTypes
<1>0. UNCHANGED <<asked, shown, uploading, releasing, m_Stop>>
  BY DEF clientVars, RetireWorld, WorldRetired, BuildWorld, WorldBuilt
<1>1. CASE RetireWorld
  <2>1. /\ ~m_Stop /\ world.Retired # NoWorld /\ local' = world.Retired
        /\ world' = [world EXCEPT !.Retired = NoWorld]
        /\ at' = "RetireWorld" /\ UNCHANGED broken /\ at # "World"
    BY <1>1 DEF RetireWorld, Takes, Looks, NextJob
  <2>2. WorldTypes'
    BY <1>0, <2>1 DEF AllWorlds
  <2>3. OneElsewhere'
    BY <1>0, <2>1 DEF OneElsewhere, Nowhere
  <2>4. StoppedAgrees'
    BY <1>0, <2>1 DEF StoppedAgrees, Nowhere
  <2> QED BY <2>1, <2>2, <2>3, <2>4
<1>2. CASE WorldRetired
  <2>1. at = "RetireWorld" /\ at' = "Woken" /\ UNCHANGED <<world, broken>>
    BY <1>2 DEF WorldRetired
  <2>2. WorldTypes'
    BY <1>0, <2>1
  <2>3. OneElsewhere'
    BY <1>0, <2>1 DEF OneElsewhere, Nowhere
  <2>4. StoppedAgrees'
    BY <1>0, <2>1 DEF StoppedAgrees, Nowhere
  <2> QED BY <2>1, <2>2, <2>3, <2>4
<1>3. CASE BuildWorld
  <2>1. WorldWanted /\ ~m_Stop /\ world.Retired = NoWorld
    BY <1>3, FallThrough DEF BuildWorld, FallThroughIsAWantedWorld, Takes, NextJob
  <2>2. /\ world' = [world EXCEPT !.Wanted = FALSE, !.Busy = TRUE, !.Building = TRUE,
                              !.Generation = @ + 1]
        /\ local' = [Position |-> world.Center, Generation |-> world.Generation + 1]
        /\ at' = "World" /\ at \in {"Woken", "Loop"} /\ UNCHANGED broken
    BY <1>3 DEF BuildWorld, Takes, Looks
  <2>3. ~world.Busy /\ world.Wanted
    BY <2>1 DEF WorldWanted
  <2>4. WorldTypes'
    <3>1. /\ world' \in [Wanted : BOOLEAN, Busy : BOOLEAN, Building : BOOLEAN,
                         Center : Centers, Generation : Nat, Ready : AllWorlds,
                         Retired : AllWorlds, Stopped : SUBSET BuiltWorlds]
          /\ world'.Generation = world.Generation + 1
          /\ world'.Wanted = FALSE
      <4> DEFINE next == world.Generation + 1
      <4>1. next \in Nat
        OBVIOUS
      <4>2. world' = [world EXCEPT !.Wanted = FALSE, !.Busy = TRUE, !.Building = TRUE,
                                !.Generation = next]
        BY <2>2
      <4> HIDE DEF next
      <4>3. /\ world' \in [Wanted : BOOLEAN, Busy : BOOLEAN, Building : BOOLEAN,
                           Center : Centers, Generation : Nat, Ready : AllWorlds,
                           Retired : AllWorlds, Stopped : SUBSET BuiltWorlds]
            /\ world'.Generation = next
            /\ world'.Wanted = FALSE
        BY <4>1, <4>2
      <4> QED BY <4>3 DEF next
    <3>2. local' \in [Position : Centers, Generation : Nat] /\ at' = "World"
      BY <2>2
    <3>3. world'.Generation >= 1 /\ world'.Generation <= asked + 1
      BY <2>3, <3>1
    <3> QED BY <1>0, <3>1, <3>2, <3>3
  <2>5. Nowhere({world.Ready, world.Retired, uploading}) /\ ~releasing
    BY <2>1, <2>3 DEF OneElsewhere, Nowhere
  <2>6. OneElsewhere'
    BY <1>0, <2>2, <2>5 DEF OneElsewhere, Nowhere
  <2>7. StoppedAgrees'
    BY <1>0, <2>1, <2>2 DEF StoppedAgrees, Nowhere
  <2> QED BY <2>2, <2>4, <2>6, <2>7
<1>4. CASE WorldBuilt
  <2>1. PICK error \in BOOLEAN :
            world' = [world EXCEPT !.Building = FALSE, !.Ready =
                [Position |-> local.Position, Generation |-> local.Generation,
                 Error |-> error]]
    BY <1>4 DEF WorldBuilt
  <2> DEFINE built == [Position |-> local.Position, Generation |-> local.Generation,
                       Error |-> error]
  <2>2. at = "World" /\ at' = "Loop"
    BY <1>4 DEF WorldBuilt
  <2>3. built \in BuiltWorlds
    BY <2>2 DEF BuiltWorlds
  <2>4. built # NoWorld
    BY <2>3, NoWorldAssumption
  <2>5. world' = [world EXCEPT !.Building = FALSE, !.Ready = built]
    BY <2>1
  <2> HIDE DEF built
  <2>6. WorldTypes'
    BY <1>0, <2>2, <2>3, <2>5 DEF AllWorlds
  <2>7. OneElsewhere'
    BY <1>0, <2>2, <2>4, <2>5 DEF OneElsewhere, Nowhere
  <2>8. StoppedAgrees'
    BY <1>0, <2>2, <2>5 DEF StoppedAgrees, Nowhere
  <2>9. broken' <=> broken
    BY <1>4, <2>2 DEF WorldBuilt, Asserts, OneElsewhere, Nowhere
  <2> QED BY <2>6, <2>7, <2>8, <2>9
<1> QED BY <1>1, <1>2, <1>3, <1>4

LEMMA WorldsKept ==
    ASSUME WorldsAgree, [ClientNext]_allVars
    PROVE  WorldsAgree'
<1> USE DEF WorldsAgree, WorldTypes
<1>1. CASE WorldSteps
  BY <1>1, WorldsKeptByCaller, WorldsKeptByWorker DEF WorldSteps
<1>2. CASE SlotSteps
  BY <1>2, WorldsAgreeUndisturbed, SlotStepsElsewhere DEF Keeps
<1>3. CASE PedSteps
  BY <1>3, WorldsAgreeUndisturbed, PedStepsElsewhere DEF Keeps
<1>4. CASE VehicleSteps
  BY <1>4, WorldsAgreeUndisturbed, VehicleStepsElsewhere DEF Keeps
<1>5. CASE IdleSteps
  BY <1>5, WorldsAgreeUndisturbed, IdleStepsElsewhere DEF Keeps, callerVars, clientVars
<1>6. CASE LeaveWorker
  <2>1. /\ m_Stop' = TRUE /\ shown' = NoWorld /\ uploading' = NoWorld
        /\ world' = [world EXCEPT !.Stopped = {shown, uploading} \ {NoWorld}]
        /\ UNCHANGED <<asked, releasing, local>>
        /\ (at' = "World" <=> at = "World") /\ (at' = "RetireWorld" <=> at = "RetireWorld")
    BY <1>6 DEF LeaveWorker, Stop, Notify
  <2>2. WorldTypes'
    BY <2>1 DEF AllWorlds
  <2>3. OneElsewhere'
    BY <2>1 DEF OneElsewhere, Nowhere
  <2>4. CASE uploading = NoWorld
    <3>1. world'.Stopped \subseteq {shown}
      BY <2>1, <2>4
    <3> QED BY <2>1, <2>2, <2>3, <3>1 DEF StoppedAgrees, Nowhere, AllWorlds
  <2>5. CASE uploading # NoWorld
    <3>1. world'.Stopped \subseteq {shown, uploading}
      BY <2>1
    <3>2. Nowhere({world'.Ready, world'.Retired}) /\ at' \notin {"World", "RetireWorld"}
      BY <2>1, <2>5 DEF OneElsewhere, Nowhere
    <3>3. StoppedAgrees'
      BY <2>1, <3>1, <3>2 DEF StoppedAgrees, Nowhere
    <3> QED BY <2>2, <2>3, <3>3
  <2> QED BY <2>4, <2>5
<1>7. CASE Quit /\ UNCHANGED clientVars
  <2>1. /\ world' = [world EXCEPT !.Ready = NoWorld, !.Retired = NoWorld, !.Stopped = {}]
        /\ at' = "Exited" /\ at \notin {"World", "RetireWorld"} /\ m_Stop
        /\ UNCHANGED <<m_Stop, asked, shown, uploading, releasing>>
    BY <1>7 DEF Quit, Takes, Looks, NextJob, clientVars
  <2>2. WorldTypes'
    BY <2>1 DEF AllWorlds
  <2>3. OneElsewhere'
    BY <2>1 DEF OneElsewhere, Nowhere
  <2>4. world'.Stopped \subseteq {NoWorld} /\ NoWorld \in AllWorlds
    BY <2>1 DEF AllWorlds
  <2>5. StoppedAgrees'
    BY <2>1, <2>4 DEF StoppedAgrees, Nowhere
  <2> QED BY <2>2, <2>3, <2>5
<1> QED BY <1>1, <1>2, <1>3, <1>4, <1>5, <1>6, <1>7, StepsByMailbox DEF LastSteps

LEMMA PairHasTwo ==
    ASSUME NEW S, NEW a, NEW b, S \subseteq {a, b}
    PROVE  Cardinality(S) <= 2
<1>1. IsFiniteSet({a}) /\ Cardinality({a}) = 1
  BY FS_Singleton
<1>2. {a, b} = {a} \cup {b}
  OBVIOUS
<1>3. IsFiniteSet({a, b}) /\ Cardinality({a, b}) \in {1, 2}
  <2>1. /\ IsFiniteSet({a} \cup {b})
        /\ Cardinality({a} \cup {b}) = IF b \in {a} THEN Cardinality({a})
                                       ELSE Cardinality({a}) + 1
    BY <1>1, FS_AddElement
  <2> QED BY <1>1, <1>2, <2>1
<1>4. /\ IsFiniteSet(S) /\ Cardinality(S) <= Cardinality({a, b})
  BY <1>3, FS_Subset
<1>5. Cardinality(S) \in Nat
  BY <1>4, FS_CardinalityType
<1> QED BY <1>3, <1>4, <1>5

\* At most one world is in the worker's hands or on its way to the screen
LEMMA ClientHasTwo ==
    ASSUME WorldsAgree
    PROVE  TwoPacketsAtMost
<1> DEFINE ours == {w.Generation : w \in {shown, uploading} \ {NoWorld}}
<1> SUFFICES \E a, b : Packets \cup ours \subseteq {a, b}
  BY PairHasTwo DEF TwoPacketsAtMost
<1> USE DEF WorldsAgree, OneElsewhere, StoppedAgrees, Nowhere
<1>1. CASE Nowhere({world.Ready, world.Retired}) /\ at \notin {"World", "RetireWorld"}
  <2>1. Packets = {w.Generation : w \in world.Stopped \ {NoWorld}}
    BY <1>1 DEF Packets
  <2>2. CASE m_Stop
    <3>1. PICK a, b \in AllWorlds : world.Stopped \subseteq {a, b}
      OBVIOUS
    <3>2. Packets \cup ours \subseteq {a.Generation, b.Generation}
      BY <2>1, <2>2, <3>1
    <3> QED BY <3>2
  <2>3. CASE ~m_Stop
    <3>1. Packets = {}
      BY <2>1, <2>3
    <3>2. Packets \cup ours \subseteq {shown.Generation, uploading.Generation}
      BY <3>1
    <3> QED BY <3>2
  <2> QED BY <2>2, <2>3 DEF WorldTypes
<1>2. CASE ~(Nowhere({world.Ready, world.Retired}) /\ at \notin {"World", "RetireWorld"})
  <2>1. uploading = NoWorld
    BY <1>2
  <2>2. \E one : {w.Generation : w \in {world.Ready, world.Retired} \ {NoWorld}}
                  \cup (IF at \in {"World", "RetireWorld"} THEN {local.Generation} ELSE {})
                  \subseteq {one}
    <3>1. CASE at \in {"World", "RetireWorld"}
      BY <3>1
    <3>2. CASE world.Ready # NoWorld
      BY <3>2
    <3>3. CASE world.Ready = NoWorld /\ at \notin {"World", "RetireWorld"}
      BY <3>3
    <3> QED BY <3>1, <3>2, <3>3
  <2>3. PICK one : {w.Generation : w \in {world.Ready, world.Retired} \ {NoWorld}}
                  \cup (IF at \in {"World", "RetireWorld"} THEN {local.Generation} ELSE {})
                  \subseteq {one}
    BY <2>2
  <2>4. \E other : {w.Generation : w \in world.Stopped \ {NoWorld}} \cup ours
                    \subseteq {other}
    <3>1. CASE m_Stop
      <4>1. PICK a \in AllWorlds : world.Stopped \subseteq {a}
        BY <1>2
      <4>2. {w.Generation : w \in world.Stopped \ {NoWorld}} \cup ours
            \subseteq {a.Generation}
        BY <3>1, <4>1
      <4> QED BY <4>2
    <3>2. CASE ~m_Stop
      <4>1. {w.Generation : w \in world.Stopped \ {NoWorld}} \cup ours
            \subseteq {shown.Generation}
        BY <2>1, <3>2
      <4> QED BY <4>1
    <3> QED BY <3>1, <3>2 DEF WorldTypes
  <2>5. PICK other : {w.Generation : w \in world.Stopped \ {NoWorld}} \cup ours
                     \subseteq {other}
    BY <2>4
  <2>6. Packets \cup ours \subseteq {one, other}
    BY <2>3, <2>5 DEF Packets
  <2> QED BY <2>6
<1> QED BY <1>1, <1>2

-----------------------------------------------------------------------------
(* The assertions, and the predicate the worker sleeps by                  *)

LEMMA AssertionsKept ==
    ASSUME AssertionsHold, WorldsAgree, VehicleAgrees, [ClientNext]_allVars
    PROVE  AssertionsHold'
<1> USE DEF AssertionsHold
<1>1. CASE WorldSteps
  BY <1>1, WorldsKeptByCaller, WorldsKeptByWorker DEF WorldSteps
<1>2. CASE VehicleLoaded
  BY <1>2 DEF VehicleLoaded, Asserts, VehicleAgrees
<1>3. CASE UNCHANGED broken
  BY <1>3
<1> QED BY <1>1, <1>2, <1>3, StepsByMailbox, SlotStepsElsewhere, PedStepsElsewhere,
        VehicleStepsElsewhere, LastStepsElsewhere, IdleStepsElsewhere DEF callerVars

\* A call either tells the worker or leaves it without work
LEMMA SleepsKept ==
    ASSUME SleepsWithoutWork, WorldsAgree, SlotsAgree, PedAgrees, VehicleAgrees,
           [ClientNext]_allVars
    PROVE  SleepsWithoutWork'
<1> SUFFICES ASSUME at' = "Asleep", HasWork'
             PROVE  FALSE
  BY DEF SleepsWithoutWork
<1> USE DEF HasWork, Retiring, VehicleWaiting, WorldWanted
<1>1. at = "Asleep" => ~HasWork
  BY DEF SleepsWithoutWork
<1>2. CASE WorldSteps
  <2>1. CASE GetWorld
    <3>1. /\ world' = [world EXCEPT !.Ready = NoWorld] /\ at = "Asleep"
          /\ UNCHANGED <<m_Stop, slots, ped, vehicle>>
      BY <2>1 DEF GetWorld, TakeReady
    <3>2. /\ world'.Retired = world.Retired /\ world'.Busy = world.Busy
          /\ world'.Wanted = world.Wanted
      BY <3>1 DEF WorldsAgree, WorldTypes
    <3> QED BY <1>1, <3>1, <3>2
  <2>2. CASE WantWorld \/ DropWorld \/ PublishWorld \/ ReleaseWorld
    BY <2>2 DEF WantWorld, DropWorld, PublishWorld, ReleaseWorld, Request, Discard,
       Retire, Release, Notify
  <2>3. CASE RetireWorld \/ WorldRetired \/ BuildWorld \/ WorldBuilt
    BY <2>3 DEF RetireWorld, WorldRetired, BuildWorld, WorldBuilt
  <2> QED BY <1>2, <2>1, <2>2, <2>3 DEF WorldSteps
<1>3. CASE SlotSteps
  <2>1. ASSUME NEW k \in Kinds, NEW t \in 1 .. MaxTickets[k], AskSlot(k, t)
        PROVE  FALSE
    <3>1. slots' = slots /\ at' = at /\ UNCHANGED <<m_Stop, world, ped, vehicle>>
      BY <2>1 DEF AskSlot, RequestSlot, Notify
    <3> QED BY <1>1, <3>1
  <2>2. ASSUME NEW k \in Kinds, NEW t \in 1 .. MaxTickets[k], GetSlot(k, t)
        PROVE  FALSE
    <3>1. /\ slots' = [slots EXCEPT ![k].Ready = 0] /\ at' = at
          /\ UNCHANGED <<m_Stop, world, ped, vehicle>>
      BY <2>2 DEF GetSlot, TakeSlot
    <3>2. \A l \in Kinds : slots'[l].Waiting = slots[l].Waiting
      BY <3>1 DEF SlotsAgree, SlotType
    <3> QED BY <1>1, <3>1, <3>2
  <2>3. CASE \E k \in Kinds : LoadSlot(k) \/ SlotLoaded(k)
    BY <2>3 DEF LoadSlot, SlotLoaded, Kinds
  <2> QED BY <1>3, <2>1, <2>2, <2>3 DEF SlotSteps
<1>4. CASE PedSteps
  <2>1. ASSUME NEW r \in Peds, AskPed(r)
        PROVE  FALSE
    <3>1. ped' = ped /\ at' = at /\ UNCHANGED <<m_Stop, world, slots, vehicle>>
      BY <2>1 DEF AskPed, RequestPedAsset, Notify
    <3> QED BY <1>1, <3>1
  <2>2. ASSUME NEW r \in Peds, GetPed(r)
        PROVE  FALSE
    <3>1. /\ ped' = [ped EXCEPT !.Ready = NoRequest, !.Admitted = NoRequest]
          /\ at' = at /\ UNCHANGED <<m_Stop, world, slots, vehicle>>
      BY <2>2 DEF GetPed, TakePedAsset
    <3>2. ped'.Waiting = ped.Waiting
      BY <3>1 DEF PedAgrees
    <3> QED BY <1>1, <3>1, <3>2
  <2>3. CASE LoadPed \/ PedLoaded
    BY <2>3 DEF LoadPed, PedLoaded
  <2> QED BY <1>4, <2>1, <2>2, <2>3 DEF PedSteps
<1>5. CASE VehicleSteps
  <2>1. CASE \E r \in Vehicles : AskVehicle(r)
    BY <2>1 DEF AskVehicle, RequestVehicle, Notify
  <2>2. CASE \E t \in tickets : DropVehicle(t)
    BY <2>2 DEF DropVehicle, CancelVehicle, Notify
  <2>3. ASSUME NEW t \in tickets, GetVehicle(t)
        PROVE  FALSE
    <3>1. /\ vehicle' = [vehicle EXCEPT !.Phase = "Missing", !.Ticket = NoTicket,
                                       !.Result = NoTicket]
          /\ at' = at /\ UNCHANGED <<m_Stop, world, slots, ped>>
      BY <2>3 DEF GetVehicle, TakeVehicleReady
    <3>2. vehicle'.Phase = "Missing"
      BY <3>1 DEF VehicleAgrees
    <3> QED BY <1>1, <3>1, <3>2
  <2>4. CASE LoadVehicle \/ VehicleLoaded \/ RetireVehicle
    BY <2>4 DEF LoadVehicle, VehicleLoaded, RetireVehicle
  <2> QED BY <1>5, <2>1, <2>2, <2>3, <2>4 DEF VehicleSteps
<1>6. CASE LastSteps
  BY <1>6 DEF LastSteps, LeaveWorker, Stop, Notify, Quit
<1>7. CASE IdleSteps
  <2>1. UNCHANGED <<m_Stop, world, slots, ped, vehicle>>
    BY <1>7, IdleStepsElsewhere DEF callerVars
  <2>2. ~HasWork
    BY <1>1, <1>7 DEF IdleSteps, Sleep, allVars, vars
  <2> QED BY <2>1, <2>2
<1> QED BY <1>2, <1>3, <1>4, <1>5, <1>6, <1>7, StepsByMailbox

-----------------------------------------------------------------------------
(* The invariant and what follows from it                                  *)

ClientInvariant ==
    /\ WorldsAgree /\ SlotsAgree /\ PedAgrees /\ VehicleAgrees /\ TurnsAgree
    /\ OwedType /\ AssertionsHold /\ SleepsWithoutWork

LEMMA InitHolds == ClientInit => ClientInvariant
<1> SUFFICES ASSUME ClientInit
             PROVE  ClientInvariant
  OBVIOUS
<1> USE DEF ClientInit, Init
<1>1. WorldsAgree
  <2>1. PICK c \in Centers :
           world = [Wanted |-> FALSE, Busy |-> FALSE, Building |-> FALSE,
                    Center |-> c, Generation |-> 1, Ready |-> NoWorld,
                    Retired |-> NoWorld, Stopped |-> {}]
    OBVIOUS
  <2>2. shown \in BuiltWorlds
    BY <2>1 DEF BuiltWorlds
  <2>3. WorldTypes
    <3>1. at = "Woken" /\ asked = 0 /\ m_Stop = FALSE /\ uploading = NoWorld /\ releasing = FALSE
      OBVIOUS
    <3>2. shown \in AllWorlds /\ uploading \in AllWorlds
      BY <2>2, <3>1 DEF AllWorlds
    <3>3. world \in [Wanted : BOOLEAN, Busy : BOOLEAN, Building : BOOLEAN,
                    Center : Centers, Generation : Nat, Ready : AllWorlds,
                    Retired : AllWorlds, Stopped : SUBSET BuiltWorlds]
      BY <2>1 DEF AllWorlds
    <3>4. world.Generation = 1 /\ world.Wanted = FALSE
      BY <2>1
    <3>5. asked \in Nat /\ asked <= MaxAsked
      BY <3>1, AskedAssumption
    <3>6. /\ world.Generation >= 1 /\ world.Generation <= asked + 1
          /\ world.Wanted => world.Generation <= asked
      BY <3>1, <3>4
    <3>7. m_Stop \in BOOLEAN /\ releasing \in BOOLEAN /\ at \notin {"World", "RetireWorld"}
      BY <3>1
    <3> HIDE DEF Init, ClientInit
    <3> QED BY <3>2, <3>3, <3>5, <3>6, <3>7 DEF WorldTypes
  <2>4. OneElsewhere
    BY <2>1 DEF OneElsewhere, Nowhere
  <2>5. StoppedAgrees
    BY <2>1 DEF StoppedAgrees, Nowhere, AllWorlds
  <2> QED BY <2>3, <2>4, <2>5 DEF WorldsAgree
<1>2. SlotsAgree
  BY DEF SlotsAgree, SlotType, SlotAgrees, Kinds
<1>3. PedAgrees
  BY DEF PedAgrees, PedRequests
<1>4. VehicleAgrees
  <2>1. NoTicket \in AllTickets
    BY SequenceAssumption DEF NoTicket, AllTickets
  <2> QED BY <2>1, SequenceAssumption DEF VehicleAgrees, VehiclePhases
<1>5. TurnsAgree
  BY DEF TurnsAgree, Turns, PedMayBePassed, VehicleMayBePassed, WorldMayBePassed
<1>6. OwedType
  BY DEF OwedType
<1>7. AssertionsHold /\ SleepsWithoutWork
  BY DEF AssertionsHold, SleepsWithoutWork
<1> QED BY <1>1, <1>2, <1>3, <1>4, <1>5, <1>6, <1>7 DEF ClientInvariant

\* The conjunction of the parts is inductive: the mailboxes, the turns, the
\* assertions and the predicate of the wait, in every reachable state.
THEOREM ClientInvariantHolds == ClientSpec => []ClientInvariant
<1>1. ASSUME ClientInvariant, [ClientNext]_allVars
      PROVE  ClientInvariant'
  BY <1>1, WorldsKept, SlotsKept, PedKept, VehicleKept, TurnsKept, OwedKept,
     AssertionsKept, SleepsKept DEF ClientInvariant
<1> QED BY <1>1, InitHolds, PTL DEF ClientSpec

\* No wake-up of m_Wake is lost: the worker never sleeps with a job in a
\* mailbox, although TakeReady and its like do not notify.
THEOREM NoWakeUpIsLost == ClientSpec => []SleepsWithoutWork
<1>1. ClientInvariant => SleepsWithoutWork
  BY DEF ClientInvariant
<1> QED BY <1>1, ClientInvariantHolds, PTL

\* Neither the ped, the vehicle nor the world parser is passed for ever: one
\* job passes a ped, three a vehicle or a world, whatever is asked for.
THEOREM TurnsStayFair == ClientSpec => []TurnsAreFair
<1>1. ClientInvariant => TurnsAreFair
  <2> SUFFICES ASSUME TurnsAgree
               PROVE  TurnsAreFair
    BY DEF ClientInvariant
  <2> QED BY DEF TurnsAgree, TurnsAreFair, Turns, PedMayBePassed, VehicleMayBePassed,
          WorldMayBePassed
<1> QED BY <1>1, ClientInvariantHolds, PTL

\* What RequestStaticModel, RequestScriptTexture and RequestPedAsset accepted
\* is in the mailbox until it is taken.
THEOREM AcceptedStays == ClientSpec => []AcceptedIsKept
<1>1. ClientInvariant => AcceptedIsKept
  BY DEF ClientInvariant, SlotsAgree, SlotAgrees, PedAgrees, AcceptedIsKept
<1> QED BY <1>1, ClientInvariantHolds, PTL

\* CancelVehicle and TakeVehicleReady never both succeed with one ticket.
THEOREM CancelledStays == ClientSpec => []CancelledIsNeverTaken
<1>1. ClientInvariant => CancelledIsNeverTaken
  BY DEF ClientInvariant, VehicleAgrees, CancelledIsNeverTaken
<1> QED BY <1>1, ClientInvariantHolds, PTL

\* Both, for every caller that keeps the rules.
THEOREM SlotsKeep == ClientSpec => []SlotsKeepTheirWord
<1>1. AcceptedIsKept /\ CancelledIsNeverTaken => SlotsKeepTheirWord
  BY DEF SlotsKeepTheirWord
<1> QED BY <1>1, AcceptedStays, CancelledStays, PTL

\* The types, the assert()s, the branch of Run that tests nothing and the two
\* packets of a world, for every caller that keeps the rules.
THEOREM SoundForEveryCaller == ClientSpec => []WorkerIsSound
<1>1. ClientInvariant => WorkerIsSound
  <2> SUFFICES ASSUME ClientInvariant
               PROVE  WorkerIsSound
    OBVIOUS
  <2>1. ClientTypeOK
    <3>1. /\ m_Stop \in BOOLEAN /\ world.Center \in Centers
          /\ world.Generation \in 1 .. MaxAsked + 1 /\ (world.Building <=> at = "World")
      BY AskedAssumption DEF ClientInvariant, WorldsAgree, WorldTypes, OneElsewhere
    <3>2. /\ slots \in [Kinds -> [Waiting : Nat, InFlight : Nat, Ready : Nat]]
          /\ \A k \in Kinds : slots[k].InFlight # 0 <=> at = k
      BY DEF ClientInvariant, SlotsAgree, SlotType, SlotAgrees
    <3>3. {ped.Admitted, ped.Waiting, ped.Ready} \subseteq Peds \cup {NoRequest}
      BY DEF ClientInvariant, PedAgrees, PedRequests
    <3>4. /\ vehicle.Sequence \in 0 .. MaxSequence
          /\ vehicle.Phase = "Ready" => vehicle.Result = vehicle.Ticket
          /\ cancelled \cup taken \subseteq tickets
      BY DEF ClientInvariant, VehicleAgrees
    <3> QED BY <3>1, <3>2, <3>3, <3>4 DEF ClientTypeOK
  <2>2. AssertionsHold /\ FallThroughIsAWantedWorld /\ TwoPacketsAtMost
    BY FallThrough, ClientHasTwo DEF ClientInvariant
  <2> QED BY <2>1, <2>2 DEF WorkerIsSound
<1> QED BY <1>1, ClientInvariantHolds, PTL

-----------------------------------------------------------------------------
(* The invariant                                                           *)

WorldType ==
    [Wanted : BOOLEAN, Busy : BOOLEAN, Building : BOOLEAN, Center : Centers,
     Generation : Nat, Ready : BuiltWorlds \cup {NoWorld},
     Retired : CpuWorlds \cup {NoWorld}, Stopped : SUBSET ResidentWorlds]

\* What is in each place where a world can be
WorldsFit ==
    /\ world \in WorldType
    /\ active \in ResidentWorlds /\ pending \in ResidentWorlds \cup {NoWorld}
    /\ packet \in BuiltWorlds \cup {NoWorld}
    /\ retiring \in GpuParts
    /\ at \in {"Woken", "Asleep", "Loop", "Static", "Texture", "World", "RetireWorld",
               "Exited"}
    /\ at \in {"World", "RetireWorld"} => local \in CpuWorlds

\* The world beside the active one is built, ready, pending, discarded or on
\* its way out, and the worker is busy with it from the first to the last
OneOnTheWay ==
    /\ at = "World" => world.Ready = NoWorld
    /\ at = "World" \/ world.Ready # NoWorld => pending = NoWorld /\ packet = NoWorld
    /\ pending # NoWorld => packet = NoWorld
    /\ at = "World" \/ world.Ready # NoWorld \/ pending # NoWorld \/ packet # NoWorld =>
           /\ world.Busy
           /\ world.Retired = NoWorld /\ at # "RetireWorld" /\ retiring = "None"
    /\ world.Retired # NoWorld => at # "RetireWorld"
    /\ retiring # "None" => world.Busy
    /\ world.Stopped \subseteq {active, pending}
    /\ broken = FALSE

\* It is the last one that was built, and newer than the active one
GenerationsGrow ==
    /\ active.Generation <= world.Generation
    /\ \A w \in {world.Ready, pending, packet} \ {NoWorld} :
           w.Generation = world.Generation /\ active.Generation < w.Generation
    /\ at = "World" => /\ local.Generation = world.Generation
                       /\ active.Generation < local.Generation

\* What the host has published is shown, or it is pending and waits for the
\* next commit of the main thread
Shown == publication = Cpu(active)

PublicationFits ==
    /\ publication \in CpuWorlds /\ saved \in CpuWorlds \cup {NoWorld}
    /\ center \in Centers
    /\ phase # "Idle" => identity \in Centers
    /\ active.Gpu = "Whole"
    /\ ~Shown => pending # NoWorld /\ publication = Cpu(pending) /\ pending.Gpu = "Whole"
    /\ phase = "Prepared" =>
           pending # NoWorld /\ pending.Gpu = "Whole" /\ pending.Position = identity
    /\ saved # NoWorld => phase = "Prepared" /\ saved = Cpu(pending)
    /\ pending # NoWorld /\ pending.Gpu \in {"Torn", "Ruined"} =>
           phase \in Txn!Preparing /\ pending.Position # identity

Slot == [Waiting : Nat, InFlight : Nat, Ready : Nat]

Tickets(k) == {slots[k].Waiting, slots[k].InFlight, slots[k].Ready}

\* Who uses the slot of models
StaticTicket ==
    IF populationVehicle = NoVehicle THEN asset["Static"] ELSE populationVehicle.Ticket

\* A slot has at most one ticket, that of who waits for it
SlotsFit ==
    /\ slots \in [Kinds -> Slot] /\ asset \in [Kinds -> Nat]
    /\ populationVehicle \in [Ticket : Nat, Admitted : BOOLEAN]
    /\ spent \in [Moves : Nat, Calls : Nat, Population : Nat]
    /\ wait \in Kinds \cup {"None"}
    /\ \A k \in Kinds :
           /\ asset[k] # 0 => wait = k
           /\ slots[k].InFlight # 0 => slots[k].Waiting = 0 /\ slots[k].Ready = 0
           /\ slots[k].Waiting # 0 => slots[k].Ready = 0
    /\ Tickets("Texture") \subseteq {0, asset["Texture"]}
    /\ Tickets("Static") \subseteq {0, StaticTicket}
    /\ populationVehicle # NoVehicle => populationVehicle.Admitted
    /\ ped.Waiting = NoRequest /\ vehicle.Phase \in {"Missing", "Stopped"}

ResidencyFits ==
    /\ residency.Attempt \in Nat /\ residency.Generation \in Nat
    /\ residency.Generation <= residency.Attempt

\* Where the loader PrepareScriptWorld runs
InLoader == {"Prepare", "Superseded", "TakeScript", "Discard", "Request", "Satisfied",
             "Upload"}

\* Where a publication may wait to be shown
BeforeCommit == {"Committed", "Scripts", "Prepare", "Pending", "Ask", "Commit",
                 "AssetError", "Left"}

\* What the main thread knows at each of its places
PlacesFit ==
    /\ phase \in {"Idle", "Preparing", "Pending", "Prepared", "Committed", "Failed"}
    /\ pc \in InLoader => phase \in Txn!Preparing
    /\ phase = "Preparing" => pc \in InLoader
    /\ phase = "Committed" <=> pc = "Committed"
    /\ phase = "Failed" => pc \in Faults \cup {"Left"}
    /\ pc = "Publish" => phase = "Prepared"
    /\ phase = "Prepared" => saved # NoWorld \/ pc = "Publish"
    /\ ~Shown => pc \in BeforeCommit /\ (phase # "Idle" => pc \in {"Prepare", "Committed"})
    /\ pc = "Committed" => ~Shown /\ pending.Position = identity
    /\ pc \in {"Satisfied", "Upload"} => pending # NoWorld /\ pending.Position = identity
    /\ pc = "Step" /\ retiring = "None" => phase = "Idle"
    /\ pc = "Adopt" => phase = "Idle" /\ pending # NoWorld /\ pending.Gpu = "Whole"
    /\ pc = "Release" => /\ world.Busy /\ world.Ready = NoWorld /\ at # "World"
                         /\ pending = NoWorld /\ packet = NoWorld /\ retiring = "None"
    /\ pc = "Discard" <=> packet # NoWorld
    /\ world.Stopped # {} => pc = "Left"
    /\ wait # "None" => phase = "Idle"
    /\ pc = "Pending" /\ wait # "None" => asset[wait] # 0
    /\ pc = "Ask" => wait # "None" /\ asset[wait] # 0 /\ ~Blocked
    /\ pc \notin {"CommitRefused", "AdoptRefused", "Stale", "AdmissionRefused"}

Invariant ==
    /\ WorldsFit /\ OneOnTheWay /\ GenerationsGrow
    /\ PublicationFits /\ SlotsFit /\ ResidencyFits /\ PlacesFit

-----------------------------------------------------------------------------
(* The tuples of variables                                                 *)
USE DEF vars, callerVars, worldVars, txnVars, hostVars, scriptVars, boundVars

-----------------------------------------------------------------------------
(* What a step must change to disturb a part                               *)

LEMMA WorldsUndisturbed ==
    ASSUME WorldsFit, OneOnTheWay, GenerationsGrow,
           UNCHANGED <<world, at, local, broken, active, pending, packet, retiring>>
    PROVE  (WorldsFit /\ OneOnTheWay /\ GenerationsGrow)'
BY DEF WorldsFit, OneOnTheWay, GenerationsGrow

LEMMA PublicationUndisturbed ==
    ASSUME PublicationFits,
           UNCHANGED <<active, pending, phase, identity, publication, saved, center>>
    PROVE  PublicationFits'
BY DEF PublicationFits, Shown, Cpu

LEMMA SlotsUndisturbed ==
    ASSUME SlotsFit,
           UNCHANGED <<slots, ped, vehicle, wait, asset, populationVehicle, spent>>
    PROVE  SlotsFit'
BY DEF SlotsFit, Tickets, StaticTicket

LEMMA ResidencyUndisturbed ==
    ASSUME ResidencyFits, UNCHANGED residency
    PROVE  ResidencyFits'
BY DEF ResidencyFits

LEMMA PlacesUndisturbed ==
    ASSUME PlacesFit,
           UNCHANGED <<pc, world, active, pending, packet, retiring, phase, identity,
                       publication, saved, wait, asset, populationVehicle>>,
           at' = "World" <=> at = "World"
    PROVE  PlacesFit'
BY DEF PlacesFit, Shown, Cpu, Blocked

\* The worker finds a pair of worlds that is released as it left it
LEMMA PlacesKeptByWorker ==
    ASSUME PlacesFit,
           UNCHANGED <<pc, active, pending, packet, retiring, phase, identity,
                       publication, saved, wait, asset, populationVehicle>>,
           world'.Stopped \in {world.Stopped, {}},
           pc = "Release" => world'.Busy /\ world'.Ready = NoWorld /\ at' # "World"
    PROVE  PlacesFit'
BY DEF PlacesFit, Shown, Cpu, Blocked

-----------------------------------------------------------------------------
(* What several steps do                                                   *)

\* A request to the worker changes what is wanted
LEMMA RequestKeepsWorlds ==
    ASSUME WorldsFit, OneOnTheWay, GenerationsGrow,
           NEW c \in Centers, NEW wanted \in BOOLEAN, Request(c, wanted),
           UNCHANGED <<active, pending, packet, retiring>>
    PROVE  /\ (WorldsFit /\ OneOnTheWay /\ GenerationsGrow)'
           /\ world'.Busy = world.Busy /\ world'.Ready = world.Ready
           /\ world'.Stopped = world.Stopped
           /\ at' = "World" <=> at = "World"
           /\ UNCHANGED <<slots, ped, vehicle>>
<1>1. /\ world' = [world EXCEPT !.Center = c, !.Wanted = wanted]
      /\ UNCHANGED <<local, broken, slots, ped, vehicle>>
  BY DEF Request
<1>2. at' \in {at, "Woken"} /\ (at' # at => at = "Asleep")
  BY DEF Request, Notify
<1>3. WorldsFit'
  BY <1>1, <1>2 DEF WorldsFit, WorldType
<1>4. /\ world'.Busy = world.Busy /\ world'.Ready = world.Ready
      /\ world'.Retired = world.Retired /\ world'.Stopped = world.Stopped
      /\ world'.Generation = world.Generation
  BY <1>1 DEF WorldsFit, WorldType
<1>5. OneOnTheWay' /\ GenerationsGrow'
  BY <1>1, <1>2, <1>4 DEF OneOnTheWay, GenerationsGrow
<1> QED BY <1>1, <1>2, <1>3, <1>4, <1>5

\* Textures and lists of the pending world come and go
LEMMA PendingKeepsWorlds ==
    ASSUME WorldsFit, OneOnTheWay, GenerationsGrow, pending # NoWorld,
           world.Stopped = {}, NEW gpu \in GpuParts, pending' = Resident(pending, gpu),
           UNCHANGED <<world, at, local, broken, active, packet, retiring>>
    PROVE  /\ (WorldsFit /\ OneOnTheWay /\ GenerationsGrow)'
           /\ pending' # NoWorld /\ pending'.Gpu = gpu
           /\ pending'.Position = pending.Position /\ Cpu(pending)' = Cpu(pending)
<1>1. /\ pending' \in ResidentWorlds /\ pending'.Gpu = gpu
      /\ pending'.Position = pending.Position
      /\ pending'.Generation = pending.Generation
  BY DEF WorldsFit, Resident, ResidentWorlds
<1>2. pending' # NoWorld
  BY <1>1, LiveAssumption
<1>3. WorldsFit'
  BY <1>1 DEF WorldsFit
<1>4. OneOnTheWay' /\ GenerationsGrow'
  BY <1>1, <1>2 DEF OneOnTheWay, GenerationsGrow
<1> QED BY <1>1, <1>2, <1>3, <1>4 DEF Cpu

\* A world on its way in goes back to be destroyed
LEMMA DiscardKeepsWorlds ==
    ASSUME WorldsFit, OneOnTheWay, GenerationsGrow,
           pending # NoWorld \/ packet # NoWorld, world.Stopped = {},
           NEW w \in CpuWorlds, Discard(w),
           pending' = NoWorld, packet' = NoWorld, UNCHANGED <<active, retiring>>
    PROVE  /\ (WorldsFit /\ OneOnTheWay /\ GenerationsGrow)'
           /\ world'.Stopped = {} /\ UNCHANGED <<slots, ped, vehicle>>
<1>1. /\ world.Busy /\ world.Retired = NoWorld /\ world.Ready = NoWorld
      /\ at \notin {"World", "RetireWorld"} /\ retiring = "None"
  BY DEF OneOnTheWay
<1>2. /\ world' = [world EXCEPT !.Retired = w, !.Busy = FALSE]
      /\ UNCHANGED <<slots, ped, vehicle>>
  BY DEF Discard
<1>3. /\ at' \in {"Woken", "Loop", "Static", "Texture", "Exited"}
      /\ broken' = FALSE
  BY <1>1 DEF Discard, Notify, Asserts, OneOnTheWay, WorldsFit
<1>4. WorldsFit'
  BY <1>2, <1>3 DEF WorldsFit, WorldType
<1>5. /\ world'.Ready = NoWorld /\ world'.Stopped = {}
      /\ world'.Generation = world.Generation
  BY <1>1, <1>2 DEF WorldsFit, WorldType
<1>6. OneOnTheWay' /\ GenerationsGrow'
  BY <1>1, <1>3, <1>5 DEF OneOnTheWay, GenerationsGrow
<1> QED BY <1>2, <1>4, <1>5, <1>6

\* One of the two resident worlds is given up: its CPU part goes to the worker
LEMMA RetireKeepsWorlds ==
    ASSUME WorldsFit, OneOnTheWay, GenerationsGrow, pending # NoWorld,
           world.Stopped = {}, NEW w \in {active, pending}, Retire(Cpu(w)),
           retiring' = w.Gpu, pending' = NoWorld, active' \in {active, pending},
           UNCHANGED packet
    PROVE  /\ (WorldsFit /\ OneOnTheWay /\ GenerationsGrow)'
           /\ packet' = NoWorld /\ world'.Stopped = {}
           /\ UNCHANGED <<slots, ped, vehicle>>
<1>1. /\ world.Busy /\ world.Retired = NoWorld /\ world.Ready = NoWorld
      /\ at \notin {"World", "RetireWorld"} /\ packet = NoWorld
  BY DEF OneOnTheWay
<1>2. /\ Cpu(w) \in CpuWorlds /\ w.Gpu \in GpuParts
      /\ active \in ResidentWorlds /\ pending \in ResidentWorlds
  BY DEF WorldsFit, Cpu, CpuWorlds, ResidentWorlds
<1>3. /\ world' = [world EXCEPT !.Retired = Cpu(w)]
      /\ UNCHANGED <<slots, ped, vehicle>>
  BY DEF Retire
<1>4. at' \in {"Woken", "Loop", "Static", "Texture", "Exited"} /\ broken' = FALSE
  BY <1>1 DEF Retire, Notify, Asserts, OneOnTheWay, WorldsFit
<1>5. WorldsFit'
  BY <1>1, <1>2, <1>3, <1>4 DEF WorldsFit, WorldType
<1>6. /\ world'.Busy /\ world'.Ready = NoWorld /\ world'.Stopped = {}
      /\ world'.Generation = world.Generation
  BY <1>1, <1>3 DEF WorldsFit, WorldType
<1>7. OneOnTheWay'
  BY <1>1, <1>4, <1>6 DEF OneOnTheWay
<1>8. GenerationsGrow'
  <2>1. pending.Generation = world.Generation /\ world.Generation \in Nat
    BY DEF GenerationsGrow, WorldsFit, WorldType
  <2> QED BY <1>1, <1>4, <1>6, <2>1 DEF GenerationsGrow
<1> QED BY <1>1, <1>3, <1>5, <1>6, <1>7, <1>8

\* What CommitScriptWorld tests holds of every world that waits to be shown
LEMMA PublishedIsStaged ==
    ASSUME WorldsFit, OneOnTheWay, GenerationsGrow, PublicationFits
    PROVE  /\ publication.Generation > active.Generation <=> ~Shown
           /\ ~Shown => Staged
<1>1. active.Generation \in Nat /\ publication \in CpuWorlds
  BY DEF WorldsFit, PublicationFits, ResidentWorlds
<1>2. CASE Shown
  BY <1>1, <1>2 DEF Shown, Cpu
<1>3. CASE ~Shown
  <2>1. /\ pending # NoWorld /\ pending.Gpu = "Whole" /\ retiring = "None"
        /\ publication.Generation = pending.Generation
        /\ publication.Position = pending.Position
    BY <1>3 DEF PublicationFits, OneOnTheWay, Cpu
  <2>2. pending.Generation \in Nat /\ pending.Generation > active.Generation
    BY <1>1, <2>1 DEF GenerationsGrow, WorldsFit, WorldType
  <2> QED BY <1>1, <1>3, <2>1, <2>2 DEF Staged, Complete
<1> QED BY <1>2, <1>3

\* It is shown by the next commit
LEMMA CommitScriptWorldKeeps ==
    ASSUME Invariant, ~Shown, CommitScriptWorld, world.Stopped = {},
           phase # "Prepared", phase' # "Prepared",
           phase' # "Idle" => phase # "Idle", UNCHANGED identity,
           UNCHANGED <<packet, publication, saved, center>>
    PROVE  /\ (WorldsFit /\ OneOnTheWay /\ GenerationsGrow /\ PublicationFits)'
           /\ Shown' /\ pending' = NoWorld /\ packet' = NoWorld
           /\ world'.Stopped = {} /\ retiring' = "Whole"
           /\ UNCHANGED <<slots, ped, vehicle>>
<1>1. /\ pending # NoWorld /\ active' = pending /\ pending' = NoWorld
      /\ retiring' = active.Gpu /\ Retire(Cpu(active))
  BY DEF CommitScriptWorld, Staged, Swap
<1>2. /\ (WorldsFit /\ OneOnTheWay /\ GenerationsGrow)'
      /\ packet' = NoWorld /\ world'.Stopped = {}
      /\ UNCHANGED <<slots, ped, vehicle>>
  BY <1>1, RetireKeepsWorlds DEF Invariant
<1>3. /\ active.Gpu = "Whole" /\ pending.Gpu = "Whole"
      /\ publication = Cpu(pending) /\ saved = NoWorld
  BY DEF Invariant, PublicationFits
<1>4. Shown'
  BY <1>1, <1>3 DEF Shown, Cpu
<1>5. PublicationFits'
  BY <1>1, <1>3, <1>4 DEF Invariant, PublicationFits
<1> QED BY <1>1, <1>2, <1>3, <1>4, <1>5

-----------------------------------------------------------------------------
(* PublishWorld and its loader                                            *)

LEMMA PrepareKeeps ==
    ASSUME Invariant, Prepare
    PROVE  Invariant'
<1>1. /\ pc = "Prepare" /\ phase \in {"Preparing", "Pending"} /\ world.Stopped = {}
      /\ UNCHANGED <<publication, saved, residency, wait, asset, populationVehicle,
                     center, spent>>
  BY DEF Prepare, Invariant, PlacesFit, InLoader, Txn!Preparing
<1>2. CASE ~Shown
  <2>1. CommitScriptWorld /\ Wait /\ UNCHANGED packet
    BY <1>2, PublishedIsStaged DEF Prepare, Invariant
  <2>2. phase' = "Pending" /\ pc' = "Pending" /\ UNCHANGED identity
    BY <2>1 DEF Wait, Txn!Wait, Txn!Step
  <2>3. /\ (WorldsFit /\ OneOnTheWay /\ GenerationsGrow /\ PublicationFits)'
        /\ Shown' /\ pending' = NoWorld /\ packet' = NoWorld
        /\ world'.Stopped = {} /\ UNCHANGED <<slots, ped, vehicle>>
    BY <1>1, <1>2, <2>1, <2>2, CommitScriptWorldKeeps
  <2>4. PlacesFit'
    BY <1>1, <2>2, <2>3 DEF Invariant, PlacesFit, InLoader, BeforeCommit, Txn!Preparing
  <2> QED BY <1>1, <2>3, <2>4, SlotsUndisturbed, ResidencyUndisturbed DEF Invariant
<1>3. CASE Shown
  <2>1. /\ UNCHANGED <<world, at, local, broken, slots, ped, vehicle, active, pending,
                       packet, retiring, identity>>
        /\ \/ phase' = "Pending" /\ pc' = "Pending"
           \/ phase' = phase /\ pc' = "Superseded"
    BY <1>3, PublishedIsStaged DEF Prepare, Invariant, Wait, Txn!Wait, Txn!Step
  <2>2. PublicationFits'
    BY <1>1, <2>1 DEF Invariant, PublicationFits, Shown, Cpu, Txn!Preparing
  <2>3. Shown'
    BY <1>1, <1>3, <2>1 DEF Shown, Cpu
  <2>4. PlacesFit'
    BY <1>1, <2>1, <2>3 DEF Invariant, PlacesFit, InLoader, BeforeCommit, Txn!Preparing
  <2> QED BY <1>1, <2>1, <2>2, <2>4, WorldsUndisturbed, SlotsUndisturbed,
             ResidencyUndisturbed DEF Invariant
<1> QED BY <1>2, <1>3

LEMMA SupersedeKeeps ==
    ASSUME Invariant, Supersede
    PROVE  Invariant'
<1>1. /\ pc = "Superseded" /\ phase \in {"Preparing", "Pending"} /\ world.Stopped = {}
      /\ Shown /\ packet = NoWorld
      /\ UNCHANGED <<active, retiring, packet, publication, saved, residency, wait,
                     asset, populationVehicle, center, spent>>
  BY DEF Supersede, Invariant, PlacesFit, InLoader, BeforeCommit, Txn!Preparing
<1>2. Shown'
  BY <1>1 DEF Shown, Cpu
<1>3. SUFFICES (/\ WorldsFit /\ OneOnTheWay /\ GenerationsGrow
                /\ PublicationFits /\ PlacesFit)' /\ UNCHANGED <<slots, ped, vehicle>>
  BY <1>1, SlotsUndisturbed, ResidencyUndisturbed DEF Invariant
<1>4. CASE pending # NoWorld /\ pending.Position # identity
  <2>1. PICK gpu \in Deleted(pending.Gpu) :
            IF gpu # "None"
            THEN pending' = Resident(pending, gpu) /\ Wait /\ UNCHANGED vars
            ELSE /\ Discard(Cpu(pending)) /\ pending' = NoWorld
                 /\ pc' = "TakeScript" /\ UNCHANGED txnVars
    BY <1>4 DEF Supersede
  <2>2. gpu \in GpuParts
    BY DEF Deleted, GpuParts
  <2>3. CASE gpu # "None"
    <3>1. /\ pending' = Resident(pending, gpu) /\ phase' = "Pending" /\ pc' = "Pending"
          /\ UNCHANGED <<identity, world, at, local, broken, slots, ped, vehicle>>
      BY <2>1, <2>3 DEF Wait, Txn!Wait, Txn!Step
    <3>2. /\ (WorldsFit /\ OneOnTheWay /\ GenerationsGrow)'
          /\ pending' # NoWorld /\ pending'.Position = pending.Position
      BY <1>1, <1>4, <2>2, <3>1, PendingKeepsWorlds DEF Invariant
    <3>3. PublicationFits'
      BY <1>1, <1>2, <1>4, <3>1, <3>2 DEF Invariant, PublicationFits, Txn!Preparing
    <3>4. PlacesFit'
      BY <1>1, <1>2, <3>1, <3>2
      DEF Invariant, PlacesFit, InLoader, BeforeCommit, Txn!Preparing
    <3> QED BY <3>1, <3>2, <3>3, <3>4
  <2>4. CASE gpu = "None"
    <3>1. /\ Discard(Cpu(pending)) /\ pending' = NoWorld /\ pc' = "TakeScript"
          /\ UNCHANGED <<phase, identity>>
      BY <2>1, <2>4
    <3>2. Cpu(pending) \in CpuWorlds
      BY <1>4 DEF Invariant, WorldsFit, Cpu, CpuWorlds, ResidentWorlds
    <3>3. /\ (WorldsFit /\ OneOnTheWay /\ GenerationsGrow)'
          /\ world'.Stopped = {} /\ UNCHANGED <<slots, ped, vehicle>>
      BY <1>1, <1>4, <3>1, <3>2, DiscardKeepsWorlds DEF Invariant
    <3>4. PublicationFits'
      BY <1>1, <1>2, <3>1 DEF Invariant, PublicationFits, Txn!Preparing
    <3>5. PlacesFit'
      BY <1>1, <1>2, <3>1, <3>3
      DEF Invariant, PlacesFit, InLoader, BeforeCommit, Txn!Preparing
    <3> QED BY <3>3, <3>4, <3>5
  <2> QED BY <2>3, <2>4
<1>5. CASE pending = NoWorld \/ pending.Position = identity
  <2>1. /\ UNCHANGED <<world, at, local, broken, slots, ped, vehicle, pending,
                       phase, identity>>
        /\ pc' = IF pending = NoWorld THEN "TakeScript" ELSE "Upload"
    BY <1>5 DEF Supersede
  <2>2. PlacesFit'
    BY <1>1, <1>2, <1>5, <2>1
    DEF Invariant, PlacesFit, InLoader, BeforeCommit, Txn!Preparing
  <2> QED BY <1>1, <2>1, <2>2, WorldsUndisturbed, PublicationUndisturbed DEF Invariant
<1> QED BY <1>4, <1>5

LEMMA TakeScriptKeeps ==
    ASSUME Invariant, TakeScript
    PROVE  Invariant'
<1>1. /\ pc = "TakeScript" /\ phase \in {"Preparing", "Pending"} /\ Shown
      /\ world.Stopped = {} /\ packet = NoWorld
      /\ UNCHANGED <<at, local, broken, slots, ped, vehicle, active, retiring, phase,
                     identity, publication, saved, residency, wait, asset,
                     populationVehicle, center, spent>>
  BY DEF TakeScript, TakeReady, Invariant, PlacesFit, InLoader, BeforeCommit,
         Txn!Preparing
<1>2. Shown'
  BY <1>1 DEF Shown, Cpu
<1>3. SUFFICES (/\ WorldsFit /\ OneOnTheWay /\ GenerationsGrow
                /\ PublicationFits /\ PlacesFit)'
  BY <1>1, SlotsUndisturbed, ResidencyUndisturbed DEF Invariant
<1>4. CASE world.Ready = NoWorld
  <2>1. pc' = "Request" /\ UNCHANGED <<world, pending, packet>>
    BY <1>4 DEF TakeScript
  <2>2. PlacesFit'
    BY <1>1, <1>2, <2>1
    DEF Invariant, PlacesFit, InLoader, BeforeCommit, Txn!Preparing
  <2> QED BY <1>1, <2>1, <2>2, WorldsUndisturbed, PublicationUndisturbed DEF Invariant
<1>5. CASE world.Ready # NoWorld
  <2>1. /\ world.Ready \in BuiltWorlds /\ pending = NoWorld /\ at # "World"
        /\ world.Ready.Generation = world.Generation
        /\ active.Generation < world.Ready.Generation
    BY <1>5 DEF Invariant, WorldsFit, WorldType, OneOnTheWay, GenerationsGrow
  <2>2. /\ world' = [world EXCEPT !.Ready = NoWorld]
        /\ \/ /\ pc' = "Satisfied" /\ world.Ready.Position = identity /\ packet' = NoWorld
              /\ pending' = Resident(world.Ready, "None")
           \/ pc' = "Discard" /\ pending' = NoWorld /\ packet' = world.Ready
    BY <1>1, <1>5, <2>1 DEF TakeScript, TakeReady
  <2>3. /\ Resident(world.Ready, "None") \in ResidentWorlds \ {NoWorld}
        /\ Resident(world.Ready, "None").Gpu = "None"
        /\ Resident(world.Ready, "None").Position = world.Ready.Position
        /\ Resident(world.Ready, "None").Generation = world.Ready.Generation
    BY <2>1, LiveAssumption DEF Resident, ResidentWorlds, BuiltWorlds, GpuParts
  <2>4. WorldsFit'
    BY <1>1, <2>1, <2>2, <2>3 DEF Invariant, WorldsFit, WorldType
  <2>5. /\ world'.Ready = NoWorld /\ world'.Busy = world.Busy /\ world'.Stopped = {}
        /\ world'.Retired = world.Retired /\ world'.Generation = world.Generation
    BY <1>1, <2>2 DEF Invariant, WorldsFit, WorldType
  <2>6. OneOnTheWay'
    BY <1>1, <1>5, <2>1, <2>2, <2>5 DEF Invariant, OneOnTheWay
  <2>7. GenerationsGrow'
    BY <1>1, <2>1, <2>2, <2>3, <2>5 DEF Invariant, GenerationsGrow
  <2>8. PublicationFits'
    BY <1>1, <1>2, <2>1, <2>2, <2>3 DEF Invariant, PublicationFits, Txn!Preparing
  <2>9. PlacesFit'
    BY <1>1, <1>2, <1>5, <2>2, <2>3, <2>5
    DEF Invariant, PlacesFit, InLoader, BeforeCommit, Txn!Preparing
  <2> QED BY <2>4, <2>6, <2>7, <2>8, <2>9
<1> QED BY <1>4, <1>5

LEMMA DiscardPacketKeeps ==
    ASSUME Invariant, DiscardPacket
    PROVE  Invariant'
<1>1. WorldsFit'
  BY LiveAssumption, NoWorldAssumption DEF Invariant, WorldsFit, OneOnTheWay,
     GenerationsGrow, PublicationFits, SlotsFit, ResidencyFits, PlacesFit, WorldType,
     CpuWorlds, ResidentWorlds, BuiltWorlds, GpuParts, Cpu, Resident, DiscardPacket,
     Discard, Fail, Txn!Fail, Txn!Step, Txn!Preparing, Txn!Undecided, Txn!Decided,
     Free, Notify, Asserts
<1>2. OneOnTheWay'
  BY LiveAssumption, NoWorldAssumption DEF Invariant, WorldsFit, OneOnTheWay,
     GenerationsGrow, PublicationFits, SlotsFit, ResidencyFits, PlacesFit, WorldType,
     CpuWorlds, ResidentWorlds, BuiltWorlds, GpuParts, Cpu, Resident, DiscardPacket,
     Discard, Fail, Txn!Fail, Txn!Step, Txn!Preparing, Txn!Undecided, Txn!Decided,
     Free, Notify, Asserts
<1>3. GenerationsGrow'
  BY DEF Invariant, GenerationsGrow, DiscardPacket, Discard, Notify
<1>4. PublicationFits'
  BY DEF Invariant, OneOnTheWay, PublicationFits, PlacesFit, Shown, Txn!Preparing,
     DiscardPacket, Fail, Txn!Fail, Txn!Step, Txn!Preparing, Txn!Undecided
<1>5. PlacesFit'
  BY DEF Invariant, PlacesFit, Shown, InLoader, Faults, Txn!Preparing, DiscardPacket,
     Discard, Fail, Txn!Fail, Txn!Step, Txn!Preparing
<1>6. SlotsFit' /\ ResidencyFits'
  BY SlotsUndisturbed, ResidencyUndisturbed DEF Invariant, DiscardPacket, Discard
<1> QED BY <1>1, <1>2, <1>3, <1>4, <1>5, <1>6 DEF Invariant

LEMMA RequestScriptKeeps ==
    ASSUME Invariant, RequestScript
    PROVE  Invariant'
<1>1. WorldsFit'
  BY LiveAssumption, NoWorldAssumption DEF Invariant, WorldsFit, OneOnTheWay,
     GenerationsGrow, PublicationFits, SlotsFit, ResidencyFits, PlacesFit, WorldType,
     CpuWorlds, ResidentWorlds, BuiltWorlds, GpuParts, Cpu, Resident, RequestScript,
     Request, Wait, Txn!Wait, Txn!Step, Txn!Preparing, Txn!Undecided, Txn!Decided,
     Free, Notify, Asserts
<1>2. OneOnTheWay'
  BY DEF Invariant, OneOnTheWay, RequestScript, Request, Notify
<1>3. GenerationsGrow'
  BY DEF Invariant, GenerationsGrow, RequestScript, Request, Notify
<1>4. PublicationFits'
  BY DEF Invariant, PublicationFits, Shown, Txn!Preparing, RequestScript, Wait,
     Txn!Wait, Txn!Step, Txn!Preparing
<1>5. PlacesFit'
  BY DEF Invariant, PlacesFit, Shown, Txn!Preparing, RequestScript, Request, Wait,
     Txn!Wait, Txn!Step, Txn!Preparing
<1>6. SlotsFit' /\ ResidencyFits'
  BY SlotsUndisturbed, ResidencyUndisturbed DEF Invariant, RequestScript, Request
<1> QED BY <1>1, <1>2, <1>3, <1>4, <1>5, <1>6 DEF Invariant

LEMMA SatisfyKeeps ==
    ASSUME Invariant, Satisfy
    PROVE  Invariant'
<1>1. WorldsFit'
  BY LiveAssumption, NoWorldAssumption DEF Invariant, WorldsFit, OneOnTheWay,
     GenerationsGrow, PublicationFits, SlotsFit, ResidencyFits, PlacesFit, WorldType,
     CpuWorlds, ResidentWorlds, BuiltWorlds, GpuParts, Cpu, Resident, Satisfy,
     Request, Free, Notify, Asserts
<1>2. OneOnTheWay'
  BY DEF Invariant, OneOnTheWay, Satisfy, Request, Notify
<1>3. GenerationsGrow'
  BY DEF Invariant, GenerationsGrow, Satisfy, Request, Notify
<1>4. PlacesFit'
  BY DEF Invariant, PlacesFit, Shown, InLoader, Txn!Preparing, Satisfy, Request
<1>5. PublicationFits' /\ SlotsFit' /\ ResidencyFits'
  BY PublicationUndisturbed, SlotsUndisturbed, ResidencyUndisturbed DEF Invariant,
     Satisfy, Request
<1> QED BY <1>1, <1>2, <1>3, <1>4, <1>5 DEF Invariant

LEMMA UploadScriptKeeps ==
    ASSUME Invariant, UploadScript
    PROVE  Invariant'
<1>1. /\ pc = "Upload" /\ phase \in {"Preparing", "Pending"} /\ world.Stopped = {}
      /\ Shown /\ packet = NoWorld /\ pending # NoWorld /\ pending.Position = identity
      /\ UNCHANGED <<world, at, local, broken, slots, ped, vehicle, active, retiring,
                     packet, publication, saved, residency, wait, asset,
                     populationVehicle, center, spent>>
  BY DEF UploadScript, Invariant, PlacesFit, InLoader, BeforeCommit, Txn!Preparing
<1>2. Shown'
  BY <1>1 DEF Shown, Cpu
<1>3. SUFFICES (/\ WorldsFit /\ OneOnTheWay /\ GenerationsGrow
                /\ PublicationFits /\ PlacesFit)'
  BY <1>1, SlotsUndisturbed, ResidencyUndisturbed DEF Invariant
<1>4. CASE Fail("UploadError") /\ UNCHANGED pending
  <2>1. /\ phase' = "Failed" /\ pc' = "UploadError"
        /\ UNCHANGED <<identity, pending>>
    BY <1>4 DEF Fail, Txn!Fail, Txn!Step
  <2>2. PublicationFits'
    BY <1>1, <1>2, <2>1 DEF Invariant, PublicationFits, Txn!Preparing
  <2>3. PlacesFit'
    BY <1>1, <1>2, <2>1
    DEF Invariant, PlacesFit, InLoader, BeforeCommit, Faults, Txn!Preparing
  <2> QED BY <1>1, <2>1, <2>2, <2>3, WorldsUndisturbed DEF Invariant
<1>5. ASSUME NEW gpu \in Uploaded(pending.Gpu), pending' = Resident(pending, gpu),
             IF Complete(pending') THEN Txn!Prepare /\ pc' = "Publish" ELSE Wait
      PROVE  (/\ WorldsFit /\ OneOnTheWay /\ GenerationsGrow
              /\ PublicationFits /\ PlacesFit)'
  <2>1. gpu \in {"Part", "Whole"} /\ gpu \in GpuParts
    <3>1. pending.Gpu \in {"None", "Part", "Whole"}
      BY <1>1 DEF Invariant, PublicationFits, WorldsFit, ResidentWorlds, GpuParts
    <3> QED BY <1>5, <3>1 DEF Uploaded, GpuParts
  <2>2. /\ (WorldsFit /\ OneOnTheWay /\ GenerationsGrow)'
        /\ pending' # NoWorld /\ pending'.Gpu = gpu /\ pending'.Position = identity
    BY <1>1, <1>5, <2>1, PendingKeepsWorlds DEF Invariant
  <2>3. /\ UNCHANGED identity
        /\ \/ gpu = "Whole" /\ phase' = "Prepared" /\ pc' = "Publish"
           \/ phase' = "Pending" /\ pc' = "Pending"
    BY <1>5, <2>1, <2>2 DEF Complete, Wait, Txn!Wait, Txn!Prepare, Txn!Step
  <2>4. PublicationFits'
    BY <1>1, <1>2, <2>1, <2>2, <2>3 DEF Invariant, PublicationFits, Txn!Preparing
  <2>5. PlacesFit'
    BY <1>1, <1>2, <2>2, <2>3
    DEF Invariant, PlacesFit, InLoader, BeforeCommit, Txn!Preparing
  <2> QED BY <2>2, <2>4, <2>5
<1> QED BY <1>4, <1>5 DEF UploadScript

LEMMA PublishKeeps ==
    ASSUME Invariant, Publish
    PROVE  Invariant'
<1>1. /\ pc = "Publish" /\ phase = "Prepared" /\ world.Stopped = {}
      /\ Shown /\ packet = NoWorld
      /\ pending # NoWorld /\ pending.Gpu = "Whole" /\ pending.Position = identity
      /\ UNCHANGED <<wait, asset, populationVehicle, center, spent>>
  BY DEF Publish, Invariant, PublicationFits, PlacesFit, InLoader, BeforeCommit
<1>2. /\ Candidate = Cpu(pending) /\ Candidate \in CpuWorlds
      /\ Candidate.Generation = pending.Generation
      /\ publication.Generation < pending.Generation /\ Cpu(pending) # Cpu(active)
  BY <1>1
  DEF Candidate, Invariant, PublicationFits, GenerationsGrow, WorldsFit, WorldType,
      Shown, Cpu, CpuWorlds, ResidentWorlds
<1>3. ~StaleCandidate
  BY <1>1, <1>2 DEF StaleCandidate, Invariant, PublicationFits, CpuWorlds
<1>4. PICK result \in Results :
          /\ Reconcile(Candidate.Generation, "Host", FALSE, result)
          /\ CASE result = "PendingCleanup" ->
                      /\ saved' = Candidate /\ pc' = "Pending"
                      /\ UNCHANGED <<vars, worldVars, txnVars, publication>>
               [] result = "Ready" ->
                      /\ Txn!Commit /\ publication' = Candidate /\ saved' = NoWorld
                      /\ pc' = "Committed" /\ UNCHANGED <<vars, worldVars>>
               [] result = "Error" ->
                      /\ CancelScriptWorld /\ Fail("ResidencyError")
                      /\ saved' = NoWorld /\ UNCHANGED publication
  BY <1>3 DEF Publish
<1>5. ResidencyFits'
  BY <1>2, <1>4 DEF Reconcile, Invariant, ResidencyFits, CpuWorlds
<1>6. SUFFICES (/\ WorldsFit /\ OneOnTheWay /\ GenerationsGrow
                /\ PublicationFits /\ PlacesFit)' /\ UNCHANGED <<slots, ped, vehicle>>
  BY <1>1, <1>5, SlotsUndisturbed DEF Invariant
<1>7. CASE result = "PendingCleanup"
  <2>1. /\ saved' = Candidate /\ pc' = "Pending"
        /\ UNCHANGED <<world, at, local, broken, slots, ped, vehicle, active, pending,
                       packet, retiring, phase, identity, publication>>
    BY <1>4, <1>7
  <2>2. Shown'
    BY <1>1, <2>1 DEF Shown, Cpu
  <2>3. PublicationFits'
    BY <1>1, <1>2, <2>1, <2>2 DEF Invariant, PublicationFits, Cpu
  <2>4. saved' # NoWorld
    BY <1>2, <2>1, LiveAssumption
  <2>5. PlacesFit'
    BY <1>1, <2>1, <2>2, <2>4
    DEF Invariant, PlacesFit, InLoader, BeforeCommit, Txn!Preparing
  <2> QED BY <2>1, <2>3, <2>5, WorldsUndisturbed DEF Invariant
<1>8. CASE result = "Ready"
  <2>1. /\ publication' = Candidate /\ saved' = NoWorld /\ pc' = "Committed"
        /\ phase' = "Committed"
        /\ UNCHANGED <<world, at, local, broken, slots, ped, vehicle, active, pending,
                       packet, retiring, identity>>
    BY <1>4, <1>8 DEF Txn!Commit, Txn!Step
  <2>2. ~Shown'
    BY <1>2, <2>1 DEF Shown, Cpu
  <2>3. PublicationFits'
    BY <1>1, <1>2, <2>1 DEF Invariant, PublicationFits, Cpu
  <2>4. PlacesFit'
    BY <1>1, <2>1, <2>2
    DEF Invariant, PlacesFit, InLoader, BeforeCommit, Txn!Preparing
  <2> QED BY <2>1, <2>3, <2>4, WorldsUndisturbed DEF Invariant
<1>9. CASE result = "Error"
  <2>1. /\ CancelScriptWorld /\ saved' = NoWorld /\ pc' = "ResidencyError"
        /\ phase' = "Failed" /\ UNCHANGED <<identity, publication>>
    BY <1>4, <1>9 DEF Fail, Txn!Fail, Txn!Step
  <2>2. /\ (WorldsFit /\ OneOnTheWay /\ GenerationsGrow)'
        /\ pending' \in {pending, NoWorld} /\ active' = active
        /\ packet' = NoWorld /\ world'.Stopped = {}
        /\ UNCHANGED <<slots, ped, vehicle>>
    <3>1. CASE scriptWorldPending
      BY <1>1, <2>1, <3>1, RetireKeepsWorlds DEF CancelScriptWorld, Invariant
    <3>2. CASE ~scriptWorldPending
      BY <1>1, <2>1, <3>2, WorldsUndisturbed DEF CancelScriptWorld, Invariant
    <3> QED BY <3>1, <3>2
  <2>3. Shown'
    BY <1>1, <2>1, <2>2 DEF Shown, Cpu
  <2>4. PublicationFits'
    BY <1>1, <2>1, <2>2, <2>3 DEF Invariant, PublicationFits
  <2>5. PlacesFit'
    BY <1>1, <2>1, <2>2, <2>3
    DEF Invariant, PlacesFit, InLoader, BeforeCommit, Faults, Txn!Preparing
  <2> QED BY <2>2, <2>4, <2>5
<1> QED BY <1>7, <1>8, <1>9 DEF Results

LEMMA CommittedKeeps ==
    ASSUME Invariant, Committed
    PROVE  Invariant'
<1>1. PublicationFits'
  BY DEF Invariant, PublicationFits, Shown, Txn!Preparing, Committed, Txn!Release,
     Txn!Preparing, Txn!Decided
<1>2. PlacesFit'
  BY DEF Invariant, PlacesFit, InLoader, BeforeCommit, Committed, Txn!Release
<1>3. WorldsFit' /\ OneOnTheWay' /\ GenerationsGrow' /\ SlotsFit' /\ ResidencyFits'
  BY WorldsUndisturbed, SlotsUndisturbed, ResidencyUndisturbed DEF Invariant,
     Committed
<1> QED BY <1>1, <1>2, <1>3 DEF Invariant

-----------------------------------------------------------------------------
(* The passes of the scripts, and the frame loop after them               *)

LEMMA EndPassKeeps ==
    ASSUME Invariant, EndPass
    PROVE  Invariant'
<1>1. PlacesFit'
  BY DEF Invariant, PlacesFit, InLoader, BeforeCommit, EndPass, Idle
<1>2. /\ WorldsFit' /\ OneOnTheWay' /\ GenerationsGrow'
      /\ PublicationFits' /\ SlotsFit' /\ ResidencyFits'
  BY WorldsUndisturbed, PublicationUndisturbed, SlotsUndisturbed, ResidencyUndisturbed
     DEF Invariant, EndPass
<1> QED BY <1>1, <1>2 DEF Invariant

LEMMA PollWorldKeeps ==
    ASSUME Invariant, PollWorld
    PROVE  Invariant'
<1>1. PlacesFit'
  BY DEF Invariant, PlacesFit, Shown, InLoader, Faults, Txn!Preparing, PollWorld
<1>2. /\ WorldsFit' /\ OneOnTheWay' /\ GenerationsGrow'
      /\ PublicationFits' /\ SlotsFit' /\ ResidencyFits'
  BY WorldsUndisturbed, PublicationUndisturbed, SlotsUndisturbed, ResidencyUndisturbed
     DEF Invariant, PollWorld
<1> QED BY <1>1, <1>2 DEF Invariant

LEMMA PollAssetKeeps ==
    ASSUME Invariant, PollAsset
    PROVE  Invariant'
<1>1. SlotsFit'
  BY DEF Invariant, SlotsFit, Tickets, StaticTicket, PollAsset
<1>2. PlacesFit'
  BY DEF Invariant, PlacesFit, InLoader, BeforeCommit, PollAsset
<1>3. WorldsFit' /\ OneOnTheWay' /\ GenerationsGrow' /\ PublicationFits' /\ ResidencyFits'
  BY WorldsUndisturbed, PublicationUndisturbed, ResidencyUndisturbed DEF Invariant,
     PollAsset
<1> QED BY <1>1, <1>2, <1>3 DEF Invariant

LEMMA FulfillAssetKeeps ==
    ASSUME Invariant, FulfillAsset
    PROVE  Invariant'
<1>1. SlotsFit'
  BY DEF Invariant, SlotsFit, Slot, Tickets, StaticTicket, Kinds, FulfillAsset,
     TakeSlot
<1>2. PlacesFit'
  BY DEF Invariant, PlacesFit, InLoader, BeforeCommit, FulfillAsset, TakeSlot
<1>3. WorldsFit' /\ OneOnTheWay' /\ GenerationsGrow' /\ PublicationFits' /\ ResidencyFits'
  BY WorldsUndisturbed, PublicationUndisturbed, ResidencyUndisturbed DEF Invariant,
     FulfillAsset, TakeSlot
<1> QED BY <1>1, <1>2, <1>3 DEF Invariant

LEMMA MissAssetKeeps ==
    ASSUME Invariant, MissAsset
    PROVE  Invariant'
<1>1. PlacesFit'
  BY DEF Invariant, PlacesFit, InLoader, BeforeCommit, Blocked, MissAsset, Blocked
<1>2. /\ WorldsFit' /\ OneOnTheWay' /\ GenerationsGrow'
      /\ PublicationFits' /\ SlotsFit' /\ ResidencyFits'
  BY WorldsUndisturbed, PublicationUndisturbed, SlotsUndisturbed, ResidencyUndisturbed
     DEF Invariant, MissAsset
<1> QED BY <1>1, <1>2 DEF Invariant

LEMMA AskAssetKeeps ==
    ASSUME Invariant, AskAsset
    PROVE  Invariant'
<1>1. /\ pc = "Ask" /\ wait \in Kinds /\ asset[wait] \in Nat \ {0} /\ ~Blocked
      /\ RequestSlot(wait, asset[wait])
      /\ UNCHANGED <<active, pending, packet, retiring, phase, identity, publication,
                     saved, residency, wait, asset, populationVehicle, center, spent>>
  BY DEF AskAsset, Invariant, PlacesFit, SlotsFit
<1>2. Tickets(wait) \subseteq {0, asset[wait]}
  BY <1>1 DEF Invariant, SlotsFit, StaticTicket, Blocked, Kinds
<1>3. SlotAdmits(wait, asset[wait])
  BY <1>2 DEF SlotAdmits, Tickets
<1>4. pc' = "Commit"
  BY <1>3 DEF AskAsset
<1>5. /\ UNCHANGED <<world, local, broken, ped, vehicle>>
      /\ at' \in {at, "Woken"} /\ (at' # at => at = "Asleep")
  BY <1>1 DEF RequestSlot, Notify
<1>6. (WorldsFit /\ OneOnTheWay /\ GenerationsGrow)'
  BY <1>1, <1>5 DEF Invariant, WorldsFit, OneOnTheWay, GenerationsGrow
<1>7. SlotsFit'
  <2>1. \/ UNCHANGED slots
        \/ /\ slots[wait].InFlight = 0 /\ slots[wait].Ready = 0
           /\ slots' = [slots EXCEPT ![wait].Waiting = asset[wait]]
    BY <1>1, <1>2 DEF RequestSlot, SlotAdmits, Tickets, Invariant, SlotsFit, Slot
  <2> QED BY <1>1, <1>2, <1>5, <2>1
          DEF Invariant, SlotsFit, Slot, Tickets, StaticTicket, Blocked, Kinds
<1>8. Shown' = Shown
  BY <1>1 DEF Shown, Cpu
<1>9. PlacesFit'
  BY <1>1, <1>4, <1>5, <1>8
  DEF Invariant, PlacesFit, InLoader, BeforeCommit, Txn!Preparing
<1> QED BY <1>1, <1>6, <1>7, <1>9, PublicationUndisturbed, ResidencyUndisturbed
        DEF Invariant

LEMMA CleanUpKeeps ==
    ASSUME Invariant, CleanUp
    PROVE  Invariant'
<1>1. ResidencyFits'
  BY DEF Invariant, PublicationFits, ResidencyFits, PlacesFit, CpuWorlds, CleanUp,
     Reconcile
<1>2. PlacesFit'
  BY DEF Invariant, PlacesFit, Shown, InLoader, Faults, CleanUp, Reconcile
<1>3. WorldsFit' /\ OneOnTheWay' /\ GenerationsGrow' /\ PublicationFits' /\ SlotsFit'
  BY WorldsUndisturbed, PublicationUndisturbed, SlotsUndisturbed DEF Invariant,
     CleanUp
<1> QED BY <1>1, <1>2, <1>3 DEF Invariant

-----------------------------------------------------------------------------
(* Advance                                                                *)

LEMMA CommitKeeps ==
    ASSUME Invariant, Commit
    PROVE  Invariant'
<1>1. /\ pc = "Commit" /\ phase \notin {"Preparing", "Committed", "Failed"}
      /\ world.Stopped = {} /\ packet = NoWorld /\ (~Shown => phase = "Idle")
      /\ UNCHANGED <<phase, identity, publication, saved, residency, wait, asset,
                     populationVehicle, center, spent>>
  BY DEF Commit, Invariant, PlacesFit, InLoader, Faults
<1>2. CASE ~Shown
  <2>1. CommitScriptWorld /\ pc' = "Advance" /\ UNCHANGED packet
    BY <1>2, PublishedIsStaged DEF Commit, Invariant
  <2>2. /\ (WorldsFit /\ OneOnTheWay /\ GenerationsGrow /\ PublicationFits)'
        /\ Shown' /\ pending' = NoWorld /\ packet' = NoWorld
        /\ world'.Stopped = {} /\ UNCHANGED <<slots, ped, vehicle>>
    BY <1>1, <1>2, <2>1, CommitScriptWorldKeeps
  <2>3. PlacesFit'
    BY <1>1, <1>2, <2>1, <2>2
    DEF Invariant, PlacesFit, InLoader, BeforeCommit, Txn!Preparing
  <2> QED BY <1>1, <2>2, <2>3, SlotsUndisturbed, ResidencyUndisturbed DEF Invariant
<1>3. CASE Shown
  <2>1. /\ UNCHANGED <<world, at, local, broken, slots, ped, vehicle, active, pending,
                       packet, retiring>>
        /\ pc' = "Advance"
    BY <1>3, PublishedIsStaged DEF Commit, Invariant
  <2>2. Shown'
    BY <1>1, <1>3, <2>1 DEF Shown, Cpu
  <2>3. PlacesFit'
    BY <1>1, <2>1, <2>2 DEF Invariant, PlacesFit, InLoader, BeforeCommit, Txn!Preparing
  <2> QED BY <1>1, <2>1, <2>3, WorldsUndisturbed, PublicationUndisturbed,
             SlotsUndisturbed, ResidencyUndisturbed DEF Invariant
<1> QED BY <1>2, <1>3

LEMMA AdvanceKeeps ==
    ASSUME Invariant, Advance
    PROVE  Invariant'
<1>1. /\ pc = "Advance" /\ Shown
      /\ UNCHANGED <<active, pending, packet, retiring, scriptWorldPending, phase,
                     identity, publication, saved, residency, wait, asset,
                     populationVehicle, center, spent>>
  BY DEF Advance, Invariant, PlacesFit, BeforeCommit
<1>2. Shown'
  BY <1>1 DEF Shown, Cpu
<1>3. /\ (WorldsFit /\ OneOnTheWay /\ GenerationsGrow)'
      /\ world'.Stopped = world.Stopped /\ UNCHANGED <<slots, ped, vehicle>>
      /\ \/ pc' = "Physics"
         \/ pc' = "Step" /\ (retiring = "None" => phase = "Idle")
  <2>1. CASE worldServicePending
    BY <1>1, <2>1, WorldsUndisturbed DEF Advance, Invariant
  <2>2. CASE ~worldServicePending
    <3>1. center \in Centers /\ (center # active.Position) \in BOOLEAN
      BY DEF Invariant, PublicationFits
    <3>2. Request(center, center # active.Position) /\ pc' = "Step" /\ phase = "Idle"
      BY <2>2 DEF Advance, RequestNormal, worldServicePending
    <3> QED BY <1>1, <3>1, <3>2, RequestKeepsWorlds DEF Invariant
  <2> QED BY <2>1, <2>2
<1>4. PlacesFit'
  BY <1>1, <1>2, <1>3
  DEF Invariant, PlacesFit, InLoader, BeforeCommit, Faults, Txn!Preparing
<1> QED BY <1>1, <1>3, <1>4, PublicationUndisturbed, SlotsUndisturbed,
           ResidencyUndisturbed DEF Invariant

LEMMA RetireOldKeeps ==
    ASSUME Invariant, RetireOld
    PROVE  Invariant'
<1>1. WorldsFit'
  BY DEF Invariant, WorldsFit, GpuParts, RetireOld, Deleted
<1>2. OneOnTheWay'
  BY DEF Invariant, OneOnTheWay, RetireOld
<1>3. GenerationsGrow'
  BY DEF Invariant, GenerationsGrow, RetireOld
<1>4. PlacesFit'
  BY DEF Invariant, OneOnTheWay, PlacesFit, Shown, InLoader, BeforeCommit, Faults,
     RetireOld
<1>5. PublicationFits' /\ SlotsFit' /\ ResidencyFits'
  BY PublicationUndisturbed, SlotsUndisturbed, ResidencyUndisturbed DEF Invariant,
     RetireOld
<1> QED BY <1>1, <1>2, <1>3, <1>4, <1>5 DEF Invariant

LEMMA ReleaseOldKeeps ==
    ASSUME Invariant, ReleaseOld
    PROVE  Invariant'
<1>1. WorldsFit'
  BY LiveAssumption, NoWorldAssumption DEF Invariant, WorldsFit, OneOnTheWay,
     GenerationsGrow, PublicationFits, SlotsFit, ResidencyFits, PlacesFit, WorldType,
     CpuWorlds, ResidentWorlds, BuiltWorlds, GpuParts, Cpu, Resident, ReleaseOld,
     Release, Free, Notify, Asserts
<1>2. OneOnTheWay'
  BY LiveAssumption, NoWorldAssumption DEF Invariant, WorldsFit, OneOnTheWay,
     GenerationsGrow, PublicationFits, SlotsFit, ResidencyFits, PlacesFit, WorldType,
     CpuWorlds, ResidentWorlds, BuiltWorlds, GpuParts, Cpu, Resident, ReleaseOld,
     Release, Free, Notify, Asserts
<1>3. GenerationsGrow'
  BY DEF Invariant, GenerationsGrow, ReleaseOld, Release, Notify
<1>4. PlacesFit'
  BY DEF Invariant, PlacesFit, Shown, InLoader, BeforeCommit, Faults, ReleaseOld,
     Release
<1>5. PublicationFits' /\ SlotsFit' /\ ResidencyFits'
  BY PublicationUndisturbed, SlotsUndisturbed, ResidencyUndisturbed DEF Invariant,
     ReleaseOld, Release
<1> QED BY <1>1, <1>2, <1>3, <1>4, <1>5 DEF Invariant

LEMMA TakeNormalKeeps ==
    ASSUME Invariant, TakeNormal
    PROVE  Invariant'
<1>1. /\ pc = "Step" /\ phase = "Idle" /\ Shown /\ pending = NoWorld
      /\ world.Stopped = {} /\ packet = NoWorld
      /\ UNCHANGED <<at, local, broken, slots, ped, vehicle, active, retiring, packet,
                     phase, identity, publication, saved, residency, wait, asset,
                     populationVehicle, center, spent>>
  BY DEF TakeNormal, TakeReady, Invariant, PlacesFit, BeforeCommit
<1>2. Shown'
  BY <1>1 DEF Shown, Cpu
<1>3. SUFFICES (/\ WorldsFit /\ OneOnTheWay /\ GenerationsGrow
                /\ PublicationFits /\ PlacesFit)'
  BY <1>1, SlotsUndisturbed, ResidencyUndisturbed DEF Invariant
<1>4. CASE world.Ready = NoWorld
  <2>1. pc' = "Physics" /\ UNCHANGED <<world, pending>>
    BY <1>4 DEF TakeNormal
  <2>2. PlacesFit'
    BY <1>1, <1>2, <2>1
    DEF Invariant, PlacesFit, InLoader, BeforeCommit, Txn!Preparing
  <2> QED BY <1>1, <2>1, <2>2, WorldsUndisturbed, PublicationUndisturbed DEF Invariant
<1>5. CASE world.Ready # NoWorld
  <2>1. /\ world.Ready \in BuiltWorlds /\ at # "World"
        /\ world.Ready.Generation = world.Generation
        /\ active.Generation < world.Ready.Generation
    BY <1>5 DEF Invariant, WorldsFit, WorldType, OneOnTheWay, GenerationsGrow
  <2>2. /\ world' = [world EXCEPT !.Ready = NoWorld] /\ pc' \in {"WorldError", "Step"}
        /\ pending' = Resident(world.Ready, "None")
    BY <1>5 DEF TakeNormal, TakeReady
  <2>3. pending' \in ResidentWorlds \ {NoWorld} /\ pending'.Gpu = "None"
        /\ pending'.Generation = world.Ready.Generation
    BY <2>1, <2>2, LiveAssumption DEF Resident, ResidentWorlds, BuiltWorlds, GpuParts
  <2>4. WorldsFit'
    BY <1>1, <2>2, <2>3 DEF Invariant, WorldsFit, WorldType
  <2>5. /\ world'.Ready = NoWorld /\ world'.Busy = world.Busy /\ world'.Stopped = {}
        /\ world'.Retired = world.Retired /\ world'.Generation = world.Generation
    BY <1>1, <2>2 DEF Invariant, WorldsFit, WorldType
  <2>6. OneOnTheWay'
    BY <1>1, <1>5, <2>1, <2>5 DEF Invariant, OneOnTheWay
  <2>7. GenerationsGrow'
    BY <1>1, <2>1, <2>3, <2>5 DEF Invariant, GenerationsGrow
  <2>8. PublicationFits'
    BY <1>1, <1>2, <2>3 DEF Invariant, PublicationFits
  <2>9. PlacesFit'
    BY <1>1, <1>2, <2>2, <2>5
    DEF Invariant, PlacesFit, InLoader, BeforeCommit, Txn!Preparing
  <2> QED BY <2>4, <2>6, <2>7, <2>8, <2>9
<1> QED BY <1>4, <1>5

LEMMA UploadNormalKeeps ==
    ASSUME Invariant, UploadNormal
    PROVE  Invariant'
<1>1. /\ pc = "Step" /\ phase = "Idle" /\ pending # NoWorld /\ packet = NoWorld
      /\ world.Stopped = {} /\ Shown
      /\ UNCHANGED <<world, at, local, broken, slots, ped, vehicle, active, retiring,
                     packet, phase, identity, publication, saved, residency, wait,
                     asset, populationVehicle, center, spent>>
  BY DEF UploadNormal, Invariant, PlacesFit, BeforeCommit
<1>2. Shown'
  BY <1>1 DEF Shown, Cpu
<1>3. /\ (WorldsFit /\ OneOnTheWay /\ GenerationsGrow)' /\ pending' # NoWorld
      /\ pending'.Gpu \notin {"Torn", "Ruined"}
      /\ \/ pc' \in {"UploadError", "Physics"}
         \/ pc' = "Adopt" /\ pending'.Gpu = "Whole"
  <2>1. pending.Gpu \in {"None", "Part", "Whole"}
    BY <1>1
    DEF Invariant, PublicationFits, WorldsFit, ResidentWorlds, GpuParts, Txn!Preparing
  <2>2. CASE pc' = "UploadError" /\ UNCHANGED pending
    BY <1>1, <2>1, <2>2, WorldsUndisturbed DEF Invariant
  <2>3. ASSUME NEW gpu \in Uploaded(pending.Gpu), pending' = Resident(pending, gpu),
               pc' = IF Complete(pending') THEN "Adopt" ELSE "Physics"
        PROVE  /\ (WorldsFit /\ OneOnTheWay /\ GenerationsGrow)' /\ pending' # NoWorld
               /\ pending'.Gpu \notin {"Torn", "Ruined"}
               /\ \/ pc' \in {"UploadError", "Physics"}
                  \/ pc' = "Adopt" /\ pending'.Gpu = "Whole"
    <3>1. gpu \in {"Part", "Whole"} /\ gpu \in GpuParts
      BY <2>1, <2>3 DEF Uploaded, GpuParts
    <3>2. /\ (WorldsFit /\ OneOnTheWay /\ GenerationsGrow)'
          /\ pending' # NoWorld /\ pending'.Gpu = gpu
      BY <1>1, <2>3, <3>1, PendingKeepsWorlds DEF Invariant
    <3> QED BY <2>3, <3>1, <3>2 DEF Complete
  <2> QED BY <2>2, <2>3 DEF UploadNormal
<1>4. PublicationFits'
  BY <1>1, <1>2, <1>3 DEF Invariant, PublicationFits, Txn!Preparing
<1>5. PlacesFit'
  BY <1>1, <1>2, <1>3
  DEF Invariant, PlacesFit, InLoader, BeforeCommit, Txn!Preparing
<1> QED BY <1>1, <1>3, <1>4, <1>5, SlotsUndisturbed, ResidencyUndisturbed DEF Invariant

LEMMA AdoptKeeps ==
    ASSUME Invariant, Adopt
    PROVE  Invariant'
<1>1. /\ pc = "Adopt" /\ phase = "Idle" /\ packet = NoWorld /\ world.Stopped = {}
      /\ pending # NoWorld /\ pending.Gpu = "Whole" /\ Shown /\ saved = NoWorld
      /\ active.Gpu = "Whole"
      /\ UNCHANGED <<packet, phase, identity, saved, wait, asset, populationVehicle,
                     center, spent>>
  BY DEF Adopt, Invariant, PublicationFits, PlacesFit, BeforeCommit
<1>2. /\ pending.Generation \in Nat /\ pending.Generation > publication.Generation
      /\ Cpu(pending) \in CpuWorlds
  BY <1>1
  DEF Invariant, PublicationFits, GenerationsGrow, WorldsFit, WorldType, Shown, Cpu,
      CpuWorlds, ResidentWorlds
<1>3. PICK result \in Results :
          /\ Reconcile(pending.Generation, "Worker", TRUE, result)
          /\ IF result = "Ready" THEN Adopted
             ELSE /\ pc' = IF result = "Error" THEN "ResidencyError" ELSE "Physics"
                  /\ UNCHANGED <<vars, active, pending, retiring, publication>>
  BY DEF Adopt
<1>4. ResidencyFits'
  BY <1>2, <1>3 DEF Reconcile, Invariant, ResidencyFits
<1>5. CASE result = "Ready"
  <2>1. /\ publication' = Cpu(pending) /\ pc' = "Published"
        /\ active' = pending /\ pending' = NoWorld /\ retiring' = active.Gpu
        /\ Retire(Cpu(active))
    BY <1>1, <1>2, <1>3, <1>5 DEF Adopted, Adoptable, Swap
  <2>2. /\ (WorldsFit /\ OneOnTheWay /\ GenerationsGrow)'
        /\ packet' = NoWorld /\ world'.Stopped = {}
        /\ UNCHANGED <<slots, ped, vehicle>>
    BY <1>1, <2>1, RetireKeepsWorlds DEF Invariant
  <2>3. Shown'
    BY <2>1 DEF Shown, Cpu
  <2>4. PublicationFits'
    BY <1>1, <1>2, <2>1, <2>3 DEF Invariant, PublicationFits
  <2>5. PlacesFit'
    BY <1>1, <2>1, <2>2, <2>3
    DEF Invariant, PlacesFit, InLoader, BeforeCommit, Txn!Preparing
  <2> QED BY <1>1, <1>4, <2>2, <2>4, <2>5, SlotsUndisturbed DEF Invariant
<1>6. CASE result # "Ready"
  <2>1. /\ pc' \in {"ResidencyError", "Physics"}
        /\ UNCHANGED <<world, at, local, broken, slots, ped, vehicle, active, pending,
                       retiring, publication>>
    BY <1>3, <1>6
  <2>2. Shown'
    BY <1>1, <2>1 DEF Shown, Cpu
  <2>3. PlacesFit'
    BY <1>1, <2>1, <2>2
    DEF Invariant, PlacesFit, InLoader, BeforeCommit, Txn!Preparing
  <2> QED BY <1>1, <1>4, <2>1, <2>3, WorldsUndisturbed, PublicationUndisturbed,
             SlotsUndisturbed DEF Invariant
<1> QED BY <1>5, <1>6

LEMMA PublishedKeeps ==
    ASSUME Invariant, Published
    PROVE  Invariant'
<1>1. /\ (WorldsFit /\ OneOnTheWay /\ GenerationsGrow)'
      /\ UNCHANGED <<slots, ped, vehicle>>
  <2>1. PICK wanted \in BOOLEAN : wanted = (center # active.Position)
    OBVIOUS
  <2>2. Request(center, wanted)
    BY <2>1 DEF Published, RequestNormal
  <2>3. center \in Centers
    BY DEF Invariant, PublicationFits
  <2> QED BY <2>2, <2>3, RequestKeepsWorlds DEF Invariant, Published
<1>2. PlacesFit'
  BY DEF Invariant, PlacesFit, Shown, InLoader, BeforeCommit, Faults, Published,
     RequestNormal, Request
<1>3. PublicationFits' /\ SlotsFit' /\ ResidencyFits'
  BY <1>1, PublicationUndisturbed, SlotsUndisturbed, ResidencyUndisturbed
  DEF Invariant, Published
<1> QED BY <1>1, <1>2, <1>3 DEF Invariant

-----------------------------------------------------------------------------
(* The rest of a frame, and what scripts, player and traffic want         *)

LEMMA EndFrameKeeps ==
    ASSUME Invariant, EndFrame
    PROVE  Invariant'
<1>1. PlacesFit'
  BY DEF Invariant, PlacesFit, Shown, InLoader, BeforeCommit, Faults, EndFrame
<1>2. /\ WorldsFit' /\ OneOnTheWay' /\ GenerationsGrow'
      /\ PublicationFits' /\ SlotsFit' /\ ResidencyFits'
  BY WorldsUndisturbed, PublicationUndisturbed, SlotsUndisturbed, ResidencyUndisturbed
     DEF Invariant, EndFrame
<1> QED BY <1>1, <1>2 DEF Invariant

LEMMA AdmitPopulationKeeps ==
    ASSUME Invariant, AdmitPopulation
    PROVE  Invariant'
<1>1. /\ UNCHANGED <<world, at, local, broken, slots, ped, vehicle, active, pending,
                     packet, retiring, phase, identity, publication, saved, residency,
                     wait, asset, populationVehicle, center, spent>>
      /\ pc = "Frame" /\ pc' = "Take"
  BY DEF AdmitPopulation, Invariant, SlotsFit
<1>2. Shown' = Shown
  BY <1>1 DEF Shown, Cpu
<1>3. PlacesFit'
  BY <1>1, <1>2 DEF Invariant, PlacesFit, InLoader, BeforeCommit, Faults,
                     Txn!Preparing
<1> QED BY <1>1, <1>3, WorldsUndisturbed, PublicationUndisturbed, SlotsUndisturbed,
           ResidencyUndisturbed DEF Invariant

LEMMA TakePopulationKeeps ==
    ASSUME Invariant, TakePopulation
    PROVE  Invariant'
<1>1. /\ pc = "Take" /\ pc' \in {"AssetError", "Scripts"}
      /\ UNCHANGED <<world, at, local, broken, ped, vehicle, active, pending, packet,
                     retiring, phase, identity, publication, saved, residency, wait,
                     asset, center, spent>>
      /\ populationVehicle' \in {populationVehicle, NoVehicle}
  BY DEF TakePopulation, TakeSlot
<1>2. \/ UNCHANGED <<slots, populationVehicle>>
      \/ /\ slots["Static"].Ready = populationVehicle.Ticket
         /\ populationVehicle # NoVehicle
         /\ slots' = [slots EXCEPT !["Static"].Ready = 0]
  BY DEF TakePopulation, TakeSlot, NoVehicle
<1>3. SlotsFit'
  <2>1. CASE UNCHANGED <<slots, populationVehicle>>
    BY <1>1, <2>1, SlotsUndisturbed DEF Invariant
  <2>2. CASE /\ slots["Static"].Ready = populationVehicle.Ticket
             /\ populationVehicle # NoVehicle
             /\ slots' = [slots EXCEPT !["Static"].Ready = 0]
    <3>1. /\ slots \in [Kinds -> Slot] /\ "Static" \in Kinds
          /\ Tickets("Static") \subseteq {0, populationVehicle.Ticket}
      BY <2>2 DEF Invariant, SlotsFit, StaticTicket, Kinds
    <3>2. slots["Static"].Ready # 0 =>
              slots["Static"].Waiting = 0 /\ slots["Static"].InFlight = 0
      BY <3>1 DEF Invariant, SlotsFit
    <3>3. slots["Static"].Waiting = 0 /\ slots["Static"].InFlight = 0
      BY <2>2, <3>1, <3>2 DEF Tickets
    <3>4. /\ slots' \in [Kinds -> Slot] /\ slots'["Texture"] = slots["Texture"]
          /\ slots'["Static"] = [Waiting |-> 0, InFlight |-> 0, Ready |-> 0]
      BY <2>2, <3>1, <3>3 DEF Slot, Kinds
    <3>5. Tickets("Static")' = {0} /\ Tickets("Texture")' = Tickets("Texture")
      BY <3>4 DEF Tickets
    <3>6. /\ populationVehicle' \in [Ticket : Nat, Admitted : BOOLEAN]
          /\ populationVehicle' # NoVehicle => populationVehicle'.Admitted
      <4>1. NoVehicle \in [Ticket : Nat, Admitted : BOOLEAN]
        BY DEF NoVehicle
      <4> QED BY <1>1, <4>1 DEF Invariant, SlotsFit
    <3>7. /\ Tickets("Texture")' \subseteq {0, asset'["Texture"]}
          /\ Tickets("Static")' \subseteq {0, StaticTicket'}
      BY <1>1, <3>5 DEF Invariant, SlotsFit
    <3> QED BY <1>1, <3>4, <3>6, <3>7 DEF Invariant, SlotsFit, Kinds
  <2> QED BY <1>2, <2>1, <2>2
<1>4. Shown' = Shown
  BY <1>1 DEF Shown, Cpu
<1>5. PlacesFit'
  BY <1>1, <1>4 DEF Invariant, PlacesFit, InLoader, BeforeCommit, Faults, Txn!Preparing
<1> QED BY <1>1, <1>3, <1>5, WorldsUndisturbed, PublicationUndisturbed,
           ResidencyUndisturbed DEF Invariant

LEMMA CallWorldKeeps ==
    ASSUME Invariant, NEW c \in Centers, CallWorld(c)
    PROVE  Invariant'
<1>1. PublicationFits'
  BY DEF Invariant, PublicationFits, Shown, Txn!Preparing, CallWorld, Calls, Txn!Start
<1>2. SlotsFit'
  BY DEF Invariant, SlotsFit, Tickets, StaticTicket, CallWorld, Calls
<1>3. PlacesFit'
  BY DEF Invariant, PlacesFit, InLoader, BeforeCommit, Txn!Preparing, CallWorld,
     Calls, Idle, Txn!Start
<1>4. WorldsFit' /\ OneOnTheWay' /\ GenerationsGrow' /\ ResidencyFits'
  BY WorldsUndisturbed, ResidencyUndisturbed DEF Invariant, CallWorld, Calls
<1> QED BY <1>1, <1>2, <1>3, <1>4 DEF Invariant

LEMMA CallAssetKeeps ==
    ASSUME Invariant, NEW k \in Kinds, CallAsset(k)
    PROVE  Invariant'
<1>1. SlotsFit'
  BY DEF Invariant, SlotsFit, Tickets, StaticTicket, Kinds, CallAsset, Calls, Idle
<1>2. PlacesFit'
  BY DEF Invariant, SlotsFit, PlacesFit, InLoader, BeforeCommit, CallAsset, Calls,
     Idle
<1>3. WorldsFit' /\ OneOnTheWay' /\ GenerationsGrow' /\ PublicationFits' /\ ResidencyFits'
  BY WorldsUndisturbed, PublicationUndisturbed, ResidencyUndisturbed DEF Invariant,
     CallAsset, Calls
<1> QED BY <1>1, <1>2, <1>3 DEF Invariant

LEMMA PopulateKeeps ==
    ASSUME Invariant, Populate
    PROVE  Invariant'
<1> DEFINE ticket == MaxCalls + spent.Population + 1
<1>1. /\ pc = "Physics" /\ populationVehicle = NoVehicle /\ asset["Static"] = 0
      /\ RequestSlot("Static", ticket)
      /\ populationVehicle' = [Ticket |-> ticket, Admitted |-> SlotAdmits("Static", ticket)]
      /\ spent' = [spent EXCEPT !.Population = @ + 1] /\ pc' = "Frame"
      /\ UNCHANGED <<active, pending, packet, retiring, phase, identity, publication,
                     saved, residency, wait, asset, center>>
  BY DEF Populate, MayPopulate, Kinds
<1>2. ticket \in Nat \ {0} /\ spent' \in [Moves : Nat, Calls : Nat, Population : Nat]
  BY <1>1, LiveAssumption DEF Invariant, SlotsFit
<1> HIDE DEF ticket
<1>3. Tickets("Static") \subseteq {0} /\ slots \in [Kinds -> Slot] /\ "Static" \in Kinds
  BY <1>1 DEF Invariant, SlotsFit, StaticTicket, Kinds
<1>4. /\ SlotAdmits("Static", ticket)
      /\ slots' = [slots EXCEPT !["Static"].Waiting = ticket]
      /\ UNCHANGED <<world, local, broken, ped, vehicle>>
      /\ at' \in {at, "Woken"} /\ (at' # at => at = "Asleep")
  BY <1>1, <1>2, <1>3 DEF RequestSlot, SlotAdmits, Tickets, Notify
<1>5. (WorldsFit /\ OneOnTheWay /\ GenerationsGrow)'
  BY <1>1, <1>4 DEF Invariant, WorldsFit, OneOnTheWay, GenerationsGrow
<1>6. SlotsFit'
  <2>1. populationVehicle' = [Ticket |-> ticket, Admitted |-> TRUE]
    BY <1>1, <1>4
  <2>2. /\ populationVehicle' \in [Ticket : Nat, Admitted : BOOLEAN]
        /\ populationVehicle' # NoVehicle /\ populationVehicle'.Admitted
        /\ StaticTicket' = ticket
    BY <1>2, <2>1 DEF StaticTicket, NoVehicle
  <2>3. /\ slots' \in [Kinds -> Slot]
        /\ slots'["Static"].Waiting = ticket /\ slots'["Static"].InFlight = 0
        /\ slots'["Static"].Ready = 0 /\ slots'["Texture"] = slots["Texture"]
    BY <1>2, <1>3, <1>4 DEF Slot, Tickets, Kinds
  <2> QED BY <1>1, <1>2, <1>4, <2>2, <2>3 DEF Invariant, SlotsFit, Tickets, Kinds
<1>7. Shown' = Shown
  BY <1>1 DEF Shown, Cpu
<1>8. PlacesFit'
  BY <1>1, <1>4, <1>7
  DEF Invariant, PlacesFit, InLoader, BeforeCommit, Faults, Txn!Preparing
<1> QED BY <1>1, <1>5, <1>6, <1>8, PublicationUndisturbed, ResidencyUndisturbed
        DEF Invariant

LEMMA MoveKeeps ==
    ASSUME Invariant, NEW c \in Centers, Move(c)
    PROVE  Invariant'
<1>1. PublicationFits'
  BY DEF Invariant, PublicationFits, Shown, Move
<1>2. SlotsFit'
  BY DEF Invariant, SlotsFit, Tickets, StaticTicket, Move
<1>3. PlacesFit'
  BY DEF Invariant, PlacesFit, Shown, Move
<1>4. WorldsFit' /\ OneOnTheWay' /\ GenerationsGrow' /\ ResidencyFits'
  BY WorldsUndisturbed, ResidencyUndisturbed DEF Invariant, Move
<1> QED BY <1>1, <1>2, <1>3, <1>4 DEF Invariant

LEMMA LeaveKeeps ==
    ASSUME Invariant, Leave
    PROVE  Invariant'
<1>1. WorldsFit'
  BY DEF Invariant, WorldsFit, WorldType, Leave, Stop, Notify
<1>2. OneOnTheWay'
  BY DEF Invariant, OneOnTheWay, Leave, Stop, Notify
<1>3. GenerationsGrow'
  BY DEF Invariant, GenerationsGrow, Leave, Stop, Notify
<1>4. PlacesFit'
  BY DEF Invariant, PlacesFit, Shown, InLoader, BeforeCommit, Faults, Leave
<1>5. PublicationFits' /\ SlotsFit' /\ ResidencyFits'
  BY PublicationUndisturbed, SlotsUndisturbed, ResidencyUndisturbed DEF Invariant,
     Leave, Stop
<1> QED BY <1>1, <1>2, <1>3, <1>4, <1>5 DEF Invariant

LEMMA VehicleLeavesKeeps ==
    ASSUME Invariant, VehicleLeaves
    PROVE  Invariant'
<1>1. ResidencyFits'
  BY DEF Invariant, ResidencyFits, VehicleLeaves
<1>2. PlacesFit'
  BY DEF Invariant, PlacesFit, Shown, Blocked, VehicleLeaves
<1>3. WorldsFit' /\ OneOnTheWay' /\ GenerationsGrow' /\ PublicationFits' /\ SlotsFit'
  BY WorldsUndisturbed, PublicationUndisturbed, SlotsUndisturbed DEF Invariant,
     VehicleLeaves
<1> QED BY <1>1, <1>2, <1>3 DEF Invariant

-----------------------------------------------------------------------------
(* The worker                                                             *)

LEMMA SleepKeeps ==
    ASSUME Invariant, Sleep,
           UNCHANGED <<pc, worldVars, txnVars, hostVars, scriptVars, boundVars>>
    PROVE  Invariant'
<1>1. WorldsFit'
  BY DEF Invariant, WorldsFit, Sleep
<1>2. OneOnTheWay'
  BY DEF Invariant, OneOnTheWay, Sleep
<1>3. GenerationsGrow'
  BY DEF Invariant, GenerationsGrow, Sleep
<1>4. PublicationFits' /\ SlotsFit' /\ ResidencyFits' /\ PlacesFit'
  BY PublicationUndisturbed, SlotsUndisturbed, ResidencyUndisturbed, PlacesUndisturbed
     DEF Invariant, Sleep, Takes, Looks
<1> QED BY <1>1, <1>2, <1>3, <1>4 DEF Invariant

LEMMA QuitKeeps ==
    ASSUME Invariant, Quit,
           UNCHANGED <<pc, worldVars, txnVars, hostVars, scriptVars, boundVars>>
    PROVE  Invariant'
<1>1. WorldsFit'
  BY LiveAssumption, NoWorldAssumption DEF Invariant, WorldsFit, OneOnTheWay,
     GenerationsGrow, PublicationFits, SlotsFit, ResidencyFits, PlacesFit, WorldType,
     CpuWorlds, ResidentWorlds, BuiltWorlds, GpuParts, Cpu, Resident, Quit, Takes,
     Looks, HasWork, NextJob, Asserts, VehicleWaiting, Retiring, WorldWanted,
     PedsTurn, VehiclesTurn, TakesTurn
<1>2. OneOnTheWay'
  BY DEF Invariant, OneOnTheWay, Quit
<1>3. GenerationsGrow'
  BY DEF Invariant, GenerationsGrow, Quit
<1>4. SlotsFit'
  BY DEF Invariant, SlotsFit, Tickets, StaticTicket, Quit
<1>5. PlacesFit'
  BY DEF Invariant, PlacesFit, Shown, Blocked, Quit
<1>6. PublicationFits' /\ ResidencyFits'
  BY PublicationUndisturbed, ResidencyUndisturbed DEF Invariant
<1> QED BY <1>1, <1>2, <1>3, <1>4, <1>5, <1>6 DEF Invariant

LEMMA RetireWorldKeeps ==
    ASSUME Invariant, RetireWorld,
           UNCHANGED <<pc, worldVars, txnVars, hostVars, scriptVars, boundVars>>
    PROVE  Invariant'
<1>1. /\ at \in {"Woken", "Loop"} /\ world.Retired # NoWorld
      /\ local' = world.Retired /\ at' = "RetireWorld"
      /\ world' = [world EXCEPT !.Retired = NoWorld]
      /\ UNCHANGED <<broken, slots, ped, vehicle>>
  BY DEF RetireWorld, Takes, Looks, NextJob, PedsTurn, VehiclesTurn
<1>2. /\ world'.Busy = world.Busy /\ world'.Ready = world.Ready /\ world'.Retired = NoWorld
      /\ world'.Stopped = world.Stopped /\ world'.Generation = world.Generation
  BY <1>1 DEF Invariant, WorldsFit, WorldType
<1>3. WorldsFit'
  BY <1>1 DEF Invariant, WorldsFit, WorldType
<1>4. OneOnTheWay' /\ GenerationsGrow'
  BY <1>1, <1>2 DEF Invariant, OneOnTheWay, GenerationsGrow
<1>5. PlacesFit'
  BY <1>1, <1>2, PlacesKeptByWorker DEF Invariant, PlacesFit
<1> QED BY <1>1, <1>3, <1>4, <1>5, PublicationUndisturbed, SlotsUndisturbed,
           ResidencyUndisturbed DEF Invariant

LEMMA WorldRetiredKeeps ==
    ASSUME Invariant, WorldRetired,
           UNCHANGED <<pc, worldVars, txnVars, hostVars, scriptVars, boundVars>>
    PROVE  Invariant'
<1>1. WorldsFit'
  BY DEF Invariant, WorldsFit, WorldRetired
<1>2. OneOnTheWay'
  BY DEF Invariant, OneOnTheWay, WorldRetired
<1>3. GenerationsGrow'
  BY DEF Invariant, GenerationsGrow, WorldRetired
<1>4. PublicationFits' /\ SlotsFit' /\ ResidencyFits' /\ PlacesFit'
  BY PublicationUndisturbed, SlotsUndisturbed, ResidencyUndisturbed, PlacesUndisturbed
     DEF Invariant, WorldRetired, Takes, Looks, HasWork, NextJob, Asserts,
     VehicleWaiting, Retiring, WorldWanted, PedsTurn, VehiclesTurn, TakesTurn
<1> QED BY <1>1, <1>2, <1>3, <1>4 DEF Invariant

LEMMA RetireVehicleKeeps ==
    ASSUME Invariant, RetireVehicle,
           UNCHANGED <<pc, worldVars, txnVars, hostVars, scriptVars, boundVars>>
    PROVE  Invariant'
<1>1. WorldsFit'
  BY DEF Invariant, SlotsFit, RetireVehicle, Takes, NextJob, Retiring
<1>2. OneOnTheWay'
  BY DEF Invariant, SlotsFit, RetireVehicle, Takes, NextJob, Retiring
<1>3. GenerationsGrow'
  BY DEF Invariant, SlotsFit, RetireVehicle, Takes, NextJob, Retiring
<1>4. SlotsFit'
  BY DEF Invariant, SlotsFit, RetireVehicle, Takes, NextJob, Retiring
<1>5. PublicationFits' /\ ResidencyFits' /\ PlacesFit'
  BY PublicationUndisturbed, ResidencyUndisturbed, PlacesUndisturbed DEF Invariant,
     RetireVehicle, Takes, Looks
<1> QED BY <1>1, <1>2, <1>3, <1>4, <1>5 DEF Invariant

LEMMA LoadSlotKeeps ==
    ASSUME Invariant, NEW k \in Kinds, LoadSlot(k),
           UNCHANGED <<pc, worldVars, txnVars, hostVars, scriptVars, boundVars>>
    PROVE  Invariant'
<1>1. /\ at \in {"Woken", "Loop"} /\ at' = k /\ k \in {"Static", "Texture"}
      /\ UNCHANGED <<world, local, broken, ped, vehicle>>
      /\ slots' = [slots EXCEPT ![k].Waiting = 0, ![k].InFlight = slots[k].Waiting]
      /\ slots[k].Waiting # 0
  BY DEF LoadSlot, Takes, Looks, NextJob, PedsTurn, VehiclesTurn, Kinds
<1>2. (WorldsFit /\ OneOnTheWay /\ GenerationsGrow)'
  BY <1>1 DEF Invariant, WorldsFit, OneOnTheWay, GenerationsGrow
<1>3. SlotsFit'
  BY <1>1 DEF Invariant, SlotsFit, Slot, Tickets, StaticTicket, Kinds
<1>4. PlacesFit'
  BY <1>1, PlacesKeptByWorker DEF Invariant, PlacesFit
<1> QED BY <1>1, <1>2, <1>3, <1>4, PublicationUndisturbed, ResidencyUndisturbed
        DEF Invariant

LEMMA SlotLoadedKeeps ==
    ASSUME Invariant, NEW k \in Kinds, SlotLoaded(k),
           UNCHANGED <<pc, worldVars, txnVars, hostVars, scriptVars, boundVars>>
    PROVE  Invariant'
<1>1. /\ at = k /\ k \in {"Static", "Texture"} /\ at' = "Loop"
      /\ UNCHANGED <<world, local, broken, ped, vehicle>>
      /\ slots' = [slots EXCEPT ![k].InFlight = 0, ![k].Ready = slots[k].InFlight]
  BY DEF SlotLoaded, Kinds
<1>2. (WorldsFit /\ OneOnTheWay /\ GenerationsGrow)'
  BY <1>1 DEF Invariant, WorldsFit, OneOnTheWay, GenerationsGrow
<1>3. SlotsFit'
  BY <1>1 DEF Invariant, SlotsFit, Slot, Tickets, StaticTicket, Kinds
<1>4. PlacesFit'
  BY <1>1, PlacesKeptByWorker DEF Invariant, PlacesFit
<1> QED BY <1>1, <1>2, <1>3, <1>4, PublicationUndisturbed, ResidencyUndisturbed
        DEF Invariant

LEMMA LoadPedKeeps ==
    ASSUME Invariant, LoadPed,
           UNCHANGED <<pc, worldVars, txnVars, hostVars, scriptVars, boundVars>>
    PROVE  Invariant'
<1>1. WorldsFit'
  BY DEF Invariant, SlotsFit, LoadPed, Takes, NextJob, PedsTurn
<1>2. OneOnTheWay'
  BY DEF Invariant, SlotsFit, LoadPed, Takes, NextJob, PedsTurn
<1>3. GenerationsGrow'
  BY DEF Invariant, SlotsFit, LoadPed, Takes, NextJob, PedsTurn
<1>4. SlotsFit'
  BY DEF Invariant, SlotsFit, LoadPed, Takes, NextJob, PedsTurn
<1>5. PublicationFits' /\ ResidencyFits' /\ PlacesFit'
  BY PublicationUndisturbed, ResidencyUndisturbed, PlacesUndisturbed DEF Invariant,
     LoadPed, Takes, Looks
<1> QED BY <1>1, <1>2, <1>3, <1>4, <1>5 DEF Invariant

LEMMA PedLoadedKeeps ==
    ASSUME Invariant, PedLoaded,
           UNCHANGED <<pc, worldVars, txnVars, hostVars, scriptVars, boundVars>>
    PROVE  Invariant'
<1>1. WorldsFit'
  BY DEF Invariant, WorldsFit, PedLoaded
<1>2. OneOnTheWay'
  BY DEF Invariant, OneOnTheWay, PedLoaded
<1>3. GenerationsGrow'
  BY DEF Invariant, GenerationsGrow, PedLoaded
<1>4. SlotsFit'
  BY DEF Invariant, SlotsFit, Tickets, StaticTicket, PedLoaded
<1>5. PublicationFits' /\ ResidencyFits' /\ PlacesFit'
  BY PublicationUndisturbed, ResidencyUndisturbed, PlacesUndisturbed DEF Invariant,
     PedLoaded, Takes, Looks, HasWork, NextJob, Asserts, VehicleWaiting, Retiring,
     WorldWanted, PedsTurn, VehiclesTurn, TakesTurn
<1> QED BY <1>1, <1>2, <1>3, <1>4, <1>5 DEF Invariant

LEMMA LoadVehicleKeeps ==
    ASSUME Invariant, LoadVehicle,
           UNCHANGED <<pc, worldVars, txnVars, hostVars, scriptVars, boundVars>>
    PROVE  Invariant'
<1>1. WorldsFit'
  BY DEF Invariant, SlotsFit, LoadVehicle, Takes, NextJob, VehicleWaiting,
     VehiclesTurn
<1>2. OneOnTheWay'
  BY DEF Invariant, SlotsFit, LoadVehicle, Takes, NextJob, VehicleWaiting,
     VehiclesTurn
<1>3. GenerationsGrow'
  BY DEF Invariant, SlotsFit, LoadVehicle, Takes, NextJob, VehicleWaiting,
     VehiclesTurn
<1>4. SlotsFit'
  BY DEF Invariant, SlotsFit, LoadVehicle, Takes, NextJob, VehicleWaiting,
     VehiclesTurn
<1>5. PublicationFits' /\ ResidencyFits' /\ PlacesFit'
  BY PublicationUndisturbed, ResidencyUndisturbed, PlacesUndisturbed DEF Invariant,
     LoadVehicle, Takes, Looks
<1> QED BY <1>1, <1>2, <1>3, <1>4, <1>5 DEF Invariant

LEMMA VehicleLoadedKeeps ==
    ASSUME Invariant, VehicleLoaded,
           UNCHANGED <<pc, worldVars, txnVars, hostVars, scriptVars, boundVars>>
    PROVE  Invariant'
<1>1. WorldsFit'
  BY DEF Invariant, WorldsFit, VehicleLoaded
<1>2. OneOnTheWay'
  BY DEF Invariant, WorldsFit, VehicleLoaded
<1>3. GenerationsGrow'
  BY DEF Invariant, GenerationsGrow, VehicleLoaded
<1>4. SlotsFit'
  BY DEF Invariant, WorldsFit, VehicleLoaded
<1>5. PublicationFits' /\ ResidencyFits' /\ PlacesFit'
  BY PublicationUndisturbed, ResidencyUndisturbed, PlacesUndisturbed DEF Invariant,
     VehicleLoaded, Takes, Looks, HasWork, NextJob
<1> QED BY <1>1, <1>2, <1>3, <1>4, <1>5 DEF Invariant

LEMMA BuildWorldKeeps ==
    ASSUME Invariant, BuildWorld,
           UNCHANGED <<pc, worldVars, txnVars, hostVars, scriptVars, boundVars>>
    PROVE  Invariant'
<1> DEFINE next == world.Generation + 1
<1>1. ~world.Busy /\ world.Retired = NoWorld /\ at \in {"Woken", "Loop"}
  <2>1. WorldWanted /\ world.Retired = NoWorld
    BY DEF BuildWorld, Takes, NextJob, HasWork, PedsTurn, VehiclesTurn, VehicleWaiting,
           Kinds, Invariant, SlotsFit
  <2> QED BY <2>1 DEF WorldWanted, BuildWorld, Takes, Looks
<1>2. /\ world.Ready = NoWorld /\ pending = NoWorld /\ packet = NoWorld
      /\ retiring = "None"
  BY <1>1 DEF Invariant, OneOnTheWay
<1>3. /\ next \in Nat /\ active.Generation \in Nat /\ active.Generation < next
      /\ world.Center \in Centers
  BY DEF Invariant, GenerationsGrow, WorldsFit, WorldType, ResidentWorlds
<1>4. /\ world' = [world EXCEPT !.Wanted = FALSE, !.Busy = TRUE, !.Building = TRUE,
                                !.Generation = next]
      /\ local' = [Position |-> world.Center, Generation |-> next]
      /\ at' = "World" /\ UNCHANGED <<broken, slots, ped, vehicle>>
  BY DEF BuildWorld, Invariant, WorldsFit, WorldType
<1> HIDE DEF next
<1>5. WorldsFit'
  BY <1>3, <1>4 DEF Invariant, WorldsFit, WorldType, CpuWorlds
<1>6. /\ world'.Busy /\ world'.Ready = world.Ready /\ world'.Retired = world.Retired
      /\ world'.Stopped = world.Stopped /\ world'.Generation = next
      /\ local'.Generation = next
  BY <1>4 DEF Invariant, WorldsFit, WorldType
<1>7. OneOnTheWay'
  BY <1>1, <1>2, <1>4, <1>6 DEF Invariant, OneOnTheWay
<1>8. GenerationsGrow'
  BY <1>2, <1>3, <1>4, <1>6 DEF GenerationsGrow
<1>9. PlacesFit'
  BY <1>1, <1>2, <1>4, <1>6, PlacesKeptByWorker DEF Invariant, PlacesFit
<1> QED BY <1>4, <1>5, <1>7, <1>8, <1>9, PublicationUndisturbed, SlotsUndisturbed,
           ResidencyUndisturbed DEF Invariant

LEMMA WorldBuiltKeeps ==
    ASSUME Invariant, WorldBuilt,
           UNCHANGED <<pc, worldVars, txnVars, hostVars, scriptVars, boundVars>>
    PROVE  Invariant'
<1>1. /\ at = "World" /\ world.Ready = NoWorld /\ pending = NoWorld /\ packet = NoWorld
      /\ world.Busy /\ world.Retired = NoWorld /\ retiring = "None"
      /\ local \in CpuWorlds /\ local.Generation = world.Generation
      /\ active.Generation < local.Generation
  BY DEF WorldBuilt, Invariant, OneOnTheWay, GenerationsGrow, WorldsFit
<1>2. PICK built \in BuiltWorlds :
          /\ world' = [world EXCEPT !.Building = FALSE, !.Ready = built]
          /\ built.Generation = local.Generation
  <2>1. PICK error \in BOOLEAN :
            world' = [world EXCEPT !.Building = FALSE, !.Ready =
                [Position |-> local.Position, Generation |-> local.Generation,
                 Error |-> error]]
    BY DEF WorldBuilt
  <2> DEFINE built == [Position |-> local.Position, Generation |-> local.Generation,
                       Error |-> error]
  <2>2. built \in BuiltWorlds /\ built.Generation = local.Generation
    BY <1>1, <2>1 DEF BuiltWorlds, CpuWorlds
  <2>3. world' = [world EXCEPT !.Building = FALSE, !.Ready = built]
    BY <2>1
  <2> QED BY <2>2, <2>3
<1>3. at' = "Loop" /\ broken' = FALSE /\ UNCHANGED <<slots, ped, vehicle>>
  BY <1>1 DEF WorldBuilt, Asserts, Invariant, OneOnTheWay
<1>4. built # NoWorld
  BY NoWorldAssumption
<1>5. WorldsFit'
  BY <1>2, <1>3 DEF Invariant, WorldsFit, WorldType
<1>6. /\ world'.Busy /\ world'.Ready = built /\ world'.Retired = NoWorld
      /\ world'.Stopped = world.Stopped /\ world'.Generation = world.Generation
  BY <1>1, <1>2 DEF Invariant, WorldsFit, WorldType
<1>7. OneOnTheWay'
  BY <1>1, <1>3, <1>4, <1>6 DEF Invariant, OneOnTheWay
<1>8. GenerationsGrow'
  BY <1>1, <1>2, <1>3, <1>6 DEF Invariant, GenerationsGrow
<1>9. PlacesFit'
  BY <1>1, <1>3, <1>6, PlacesKeptByWorker DEF Invariant, PlacesFit
<1> QED BY <1>3, <1>5, <1>7, <1>8, <1>9, PublicationUndisturbed, SlotsUndisturbed,
           ResidencyUndisturbed DEF Invariant

-----------------------------------------------------------------------------
(* The theorems                                                            *)

LEMMA InvariantAtFirst == LiveInit => Invariant
<1> SUFFICES ASSUME LiveInit
             PROVE  Invariant
  OBVIOUS
<1>1. PICK c \in Centers :
          world = [Wanted |-> FALSE, Busy |-> FALSE, Building |-> FALSE, Center |-> c,
                   Generation |-> 1, Ready |-> NoWorld, Retired |-> NoWorld,
                   Stopped |-> {}]
  BY DEF LiveInit, Init
<1>2. /\ active = [Position |-> Origin, Generation |-> 1, Gpu |-> "Whole"]
      /\ active \in ResidentWorlds /\ publication = Cpu(active)
      /\ publication \in CpuWorlds /\ center = Origin /\ Origin \in Centers
  BY LiveAssumption DEF LiveInit, Cpu, CpuWorlds, ResidentWorlds, GpuParts
<1>3. /\ pending = NoWorld /\ packet = NoWorld /\ retiring = "None" /\ saved = NoWorld
      /\ at = "Woken" /\ broken = FALSE /\ pc = "Frame" /\ phase = "Idle"
      /\ wait = "None" /\ asset = [k \in Kinds |-> 0]
      /\ slots = [k \in Kinds |-> [Waiting |-> 0, InFlight |-> 0, Ready |-> 0]]
      /\ populationVehicle = [Ticket |-> 0, Admitted |-> FALSE]
      /\ spent = [Moves |-> 0, Calls |-> 0, Population |-> 0]
      /\ residency.Attempt = 1 /\ residency.Generation = 1
      /\ ped.Waiting = NoRequest /\ vehicle.Phase = "Missing"
  BY DEF LiveInit, Init, Txn!Init, NoVehicle
<1>4. WorldsFit
  BY <1>1, <1>2, <1>3 DEF WorldsFit, WorldType, GpuParts
<1>5. OneOnTheWay
  BY <1>1, <1>3 DEF OneOnTheWay
<1>6. GenerationsGrow
  BY <1>1, <1>2, <1>3 DEF GenerationsGrow
<1>7. PublicationFits
  BY <1>2, <1>3 DEF PublicationFits, Shown
<1>8. SlotsFit
  BY <1>3 DEF SlotsFit, Slot, Tickets, StaticTicket, Kinds, NoVehicle
<1>9. ResidencyFits /\ PlacesFit
  BY <1>1, <1>2, <1>3
  DEF ResidencyFits, PlacesFit, Shown, InLoader, BeforeCommit, Faults, Txn!Preparing
<1> QED BY <1>4, <1>5, <1>6, <1>7, <1>8, <1>9 DEF Invariant

LEMMA InvariantKept == Invariant /\ [LiveNext]_liveVars => Invariant'
<1> SUFFICES ASSUME Invariant, [LiveNext]_liveVars
             PROVE  Invariant'
  OBVIOUS
<1>1. CASE Service
  BY <1>1, PrepareKeeps, SupersedeKeeps, TakeScriptKeeps, DiscardPacketKeeps,
     RequestScriptKeeps, SatisfyKeeps, UploadScriptKeeps, PublishKeeps, CommittedKeeps
  DEF Service
<1>2. CASE Pass
  BY <1>2, EndPassKeeps, PollWorldKeeps, PollAssetKeeps, FulfillAssetKeeps,
     MissAssetKeeps, AskAssetKeeps, CleanUpKeeps
  DEF Pass
<1>3. CASE Stream
  BY <1>3, CommitKeeps, AdvanceKeeps, RetireOldKeeps, ReleaseOldKeeps, TakeNormalKeeps,
     UploadNormalKeeps, AdoptKeeps, PublishedKeeps
  DEF Stream
<1>4. CASE EndFrame \/ AdmitPopulation \/ TakePopulation
  BY <1>4, EndFrameKeeps, AdmitPopulationKeeps, TakePopulationKeeps
<1>5. CASE Wish
  BY <1>5, CallWorldKeeps, CallAssetKeeps, PopulateKeeps, MoveKeeps, LeaveKeeps DEF Wish
<1>6. CASE VehicleLeaves
  BY <1>6, VehicleLeavesKeeps
<1>7. CASE RunWorker
  BY <1>7, SleepKeeps, QuitKeeps, RetireWorldKeeps, WorldRetiredKeeps,
     RetireVehicleKeeps, LoadSlotKeeps, SlotLoadedKeeps, LoadPedKeeps, PedLoadedKeeps,
     LoadVehicleKeeps, VehicleLoadedKeeps, BuildWorldKeeps, WorldBuiltKeeps
  DEF RunWorker, Run
<1>8. CASE UNCHANGED liveVars
  BY <1>8, WorldsUndisturbed, PublicationUndisturbed, SlotsUndisturbed,
     ResidencyUndisturbed, PlacesUndisturbed
  DEF Invariant, liveVars
<1> QED BY <1>1, <1>2, <1>3, <1>4, <1>5, <1>6, <1>7, <1>8 DEF LiveNext, Main, Joined

THEOREM InvariantHolds == LiveSpec => []Invariant
<1> QED BY InvariantAtFirst, InvariantKept, PTL DEF LiveSpec

\* When a frame reaches the physics, the world shown is the world the host of
\* the scripts has published, and the world shown is never half uploaded or
\* half deleted (Realtime.cpp:491), whatever the scripts, the camera and the
\* worker do.
THEOREM FrameSeesOneGeneration == LiveSpec => []SameGeneration
<1>1. Invariant => SameGeneration
  BY DEF Invariant, PublicationFits, PlacesFit, Shown, BeforeCommit, SameGeneration
<1> QED BY <1>1, InvariantHolds, PTL

-----------------------------------------------------------------------------
(* The residency of the generators.  Nothing is tried that the worker has  *)
(* not built; what the host tries waits in `saved` until it is published;  *)
(* what the camera has tried is resident when it is published, if not yet. *)

AttemptsFit ==
    /\ residency.Snapshot \in {"Host", "Worker"}
    /\ residency.Attempt <= world.Generation
    /\ saved # NoWorld => residency.Snapshot = "Host" /\ residency.Attempt = saved.Generation
    /\ residency.Snapshot = "Host" /\ saved = NoWorld =>
           residency.Attempt <= publication.Generation
    /\ residency.Snapshot = "Worker" => residency.Generation <= publication.Generation
    /\ pc = "ResidencyError" =>
           /\ phase = "Failed"
           /\ residency.Snapshot = "Worker"
           /\ residency.Generation < residency.Attempt
           /\ publication.Generation < residency.Attempt

\* A step that has nothing to do with the residency
Apart ==
    /\ UNCHANGED <<residency, saved, publication>>
    /\ world'.Generation \in {world.Generation, world.Generation + 1}
    /\ pc' = "ResidencyError" => pc = pc' /\ UNCHANGED phase

LEMMA AttemptsUndisturbed ==
    ASSUME Invariant, AttemptsFit, Apart
    PROVE  AttemptsFit'
<1>1. world.Generation \in Nat /\ residency.Attempt \in Nat
  BY DEF Invariant, WorldsFit, WorldType, ResidencyFits
<1> QED BY <1>1 DEF AttemptsFit, Apart

\* No call to the worker builds a world
LEMMA CallsBuildNothing ==
    ASSUME WorldsFit, NEW c, NEW wanted, NEW w, NEW k, NEW ticket, NEW worlds,
           \/ Request(c, wanted) \/ TakeReady \/ Discard(w) \/ Retire(w) \/ Release
           \/ Stop(worlds) \/ TakeSlot(k, ticket) \/ RequestSlot(k, ticket)
    PROVE  world'.Generation = world.Generation
BY DEF WorldsFit, WorldType, Request, TakeReady, Discard, Retire, Release, Stop, TakeSlot,
       RequestSlot

LEMMA ServiceIsApart ==
    ASSUME WorldsFit,
           \/ Prepare \/ Supersede \/ TakeScript \/ DiscardPacket \/ RequestScript
           \/ Satisfy \/ UploadScript \/ Committed
    PROVE  Apart
<1>1. CASE Prepare
  <2>1. world'.Generation = world.Generation
    BY <1>1, CallsBuildNothing DEF Prepare, CommitScriptWorld, Swap
  <2> QED BY <1>1, <2>1 DEF Prepare, Fail, Wait, Apart
<1>2. CASE Supersede
  <2>1. world'.Generation = world.Generation
    BY <1>2, CallsBuildNothing DEF Supersede
  <2> QED BY <1>2, <2>1 DEF Supersede, Wait, Apart
<1>3. CASE TakeScript
  <2>1. world'.Generation = world.Generation
    BY <1>3, CallsBuildNothing DEF TakeScript
  <2> QED BY <1>3, <2>1 DEF TakeScript, Apart
<1>4. CASE DiscardPacket
  <2>1. world'.Generation = world.Generation
    BY <1>4, CallsBuildNothing DEF DiscardPacket
  <2> QED BY <1>4, <2>1 DEF DiscardPacket, Fail, Apart
<1>5. CASE RequestScript
  <2>1. world'.Generation = world.Generation
    BY <1>5, CallsBuildNothing DEF RequestScript
  <2> QED BY <1>5, <2>1 DEF RequestScript, Wait, Apart
<1>6. CASE Satisfy
  <2>1. world'.Generation = world.Generation
    BY <1>6, CallsBuildNothing DEF Satisfy
  <2> QED BY <1>6, <2>1 DEF Satisfy, Apart
<1>7. CASE UploadScript
  BY <1>7 DEF UploadScript, Fail, Wait, Apart
<1>8. CASE Committed
  BY <1>8 DEF Committed, Apart
<1> QED BY <1>1, <1>2, <1>3, <1>4, <1>5, <1>6, <1>7, <1>8

LEMMA PassIsApart ==
    ASSUME WorldsFit,
           EndPass \/ PollWorld \/ PollAsset \/ FulfillAsset \/ MissAsset \/ AskAsset
    PROVE  Apart
<1>1. CASE EndPass \/ PollWorld \/ PollAsset \/ MissAsset
  BY <1>1 DEF EndPass, PollWorld, PollAsset, MissAsset, Apart
<1>2. CASE FulfillAsset
  <2>1. world'.Generation = world.Generation
    BY <1>2, CallsBuildNothing DEF FulfillAsset
  <2> QED BY <1>2, <2>1 DEF FulfillAsset, Apart
<1>3. CASE AskAsset
  <2>1. world'.Generation = world.Generation
    BY <1>3, CallsBuildNothing DEF AskAsset
  <2> QED BY <1>3, <2>1 DEF AskAsset, Apart
<1> QED BY <1>1, <1>2, <1>3

LEMMA StreamIsApart ==
    ASSUME WorldsFit,
           \/ Commit \/ Advance \/ RetireOld \/ ReleaseOld \/ TakeNormal \/ UploadNormal
           \/ Published
    PROVE  Apart
<1>1. CASE Commit
  <2>1. world'.Generation = world.Generation
    BY <1>1, CallsBuildNothing DEF Commit, CommitScriptWorld, Swap
  <2> QED BY <1>1, <2>1 DEF Commit, Apart
<1>2. CASE Advance
  <2>1. world'.Generation = world.Generation
    BY <1>2, CallsBuildNothing DEF Advance, RequestNormal
  <2> QED BY <1>2, <2>1 DEF Advance, Apart
<1>3. CASE RetireOld \/ UploadNormal
  BY <1>3 DEF RetireOld, UploadNormal, Apart
<1>4. CASE ReleaseOld
  <2>1. world'.Generation = world.Generation
    BY <1>4, CallsBuildNothing DEF ReleaseOld
  <2> QED BY <1>4, <2>1 DEF ReleaseOld, Apart
<1>5. CASE TakeNormal
  <2>1. world'.Generation = world.Generation
    BY <1>5, CallsBuildNothing DEF TakeNormal
  <2> QED BY <1>5, <2>1 DEF TakeNormal, Apart
<1>6. CASE Published
  <2>1. world'.Generation = world.Generation
    BY <1>6, CallsBuildNothing DEF Published, RequestNormal
  <2> QED BY <1>6, <2>1 DEF Published, Apart
<1> QED BY <1>1, <1>2, <1>3, <1>4, <1>5, <1>6

LEMMA WishIsApart ==
    ASSUME WorldsFit, Wish \/ EndFrame \/ AdmitPopulation \/ TakePopulation
    PROVE  Apart
<1>1. CASE EndFrame
  BY <1>1 DEF EndFrame, Apart
<1>2. CASE AdmitPopulation
  <2>1. world'.Generation = world.Generation
    BY <1>2, CallsBuildNothing DEF AdmitPopulation
  <2> QED BY <1>2, <2>1 DEF AdmitPopulation, Apart
<1>3. CASE TakePopulation
  <2>1. world'.Generation = world.Generation
    BY <1>3, CallsBuildNothing DEF TakePopulation
  <2> QED BY <1>3, <2>1 DEF TakePopulation, Apart
<1>4. CASE Populate
  <2>1. world'.Generation = world.Generation
    BY <1>4, CallsBuildNothing DEF Populate
  <2> QED BY <1>4, <2>1 DEF Populate, Apart
<1>5. CASE Leave
  <2>1. world'.Generation = world.Generation
    BY <1>5, CallsBuildNothing DEF Leave
  <2> QED BY <1>5, <2>1 DEF Leave, Apart
<1>6. ASSUME NEW c \in Centers, CallWorld(c) \/ Move(c)
      PROVE  Apart
  BY <1>6 DEF CallWorld, Calls, Move, Apart
<1>7. ASSUME NEW k \in Kinds, CallAsset(k)
      PROVE  Apart
  BY <1>7 DEF CallAsset, Calls, Apart
<1> QED BY <1>1, <1>2, <1>3, <1>4, <1>5, <1>6, <1>7 DEF Wish

LEMMA WorkerIsApart ==
    ASSUME WorldsFit, RunWorker
    PROVE  Apart
<1>1. UNCHANGED <<pc, phase, residency, saved, publication>>
  BY DEF RunWorker
<1>2. world'.Generation \in {world.Generation, world.Generation + 1}
  BY DEF WorldsFit, WorldType, RunWorker, Run, Sleep, Quit, RetireWorld, WorldRetired,
         RetireVehicle, LoadSlot, SlotLoaded, LoadPed, PedLoaded, LoadVehicle,
         VehicleLoaded, BuildWorld, WorldBuilt
<1> QED BY <1>1, <1>2 DEF Apart

\* PublishWorld: the world of the script is the newest of all, and only if the
\* camera has tried it before it may be refused
LEMMA PublishAttempts ==
    ASSUME Invariant, AttemptsFit, Publish
    PROVE  AttemptsFit'
<1>1. /\ pc = "Publish" /\ phase = "Prepared" /\ Shown /\ pending # NoWorld
      /\ saved # NoWorld => saved = Cpu(pending)
      /\ publication.Generation \in Nat /\ world.Generation \in Nat
      /\ residency.Attempt \in Nat /\ residency.Generation \in Nat
      /\ residency.Generation <= residency.Attempt
  BY DEF Publish, Invariant, PublicationFits, PlacesFit, InLoader, BeforeCommit, WorldsFit,
         WorldType, ResidencyFits, CpuWorlds
<1>2. /\ Candidate.Generation = world.Generation /\ Candidate \in CpuWorlds
      /\ publication.Generation < Candidate.Generation
  BY <1>1
  DEF Candidate, Invariant, PublicationFits, GenerationsGrow, WorldsFit, WorldType,
      Shown, Cpu, CpuWorlds, ResidentWorlds
<1>3. ~StaleCandidate
  BY <1>1, <1>2 DEF StaleCandidate
<1>4. Candidate # NoWorld
  BY <1>2, LiveAssumption
<1>5. PICK result \in Results :
          /\ Reconcile(Candidate.Generation, "Host", FALSE, result)
          /\ CASE result = "PendingCleanup" ->
                      /\ saved' = Candidate /\ pc' = "Pending"
                      /\ UNCHANGED <<vars, worldVars, txnVars, publication>>
               [] result = "Ready" ->
                      /\ Txn!Commit /\ publication' = Candidate /\ saved' = NoWorld
                      /\ pc' = "Committed" /\ UNCHANGED <<vars, worldVars>>
               [] result = "Error" ->
                      /\ CancelScriptWorld /\ Fail("ResidencyError")
                      /\ saved' = NoWorld /\ UNCHANGED publication
  BY <1>3 DEF Publish
<1>6. \/ /\ result = "Error" /\ UNCHANGED residency
         /\ \/ Candidate.Generation < residency.Attempt
            \/ Candidate.Generation = residency.Attempt /\ residency.Snapshot # "Host"
      \/ /\ result # "Error"
         /\ residency'.Snapshot = "Host" /\ residency'.Attempt = Candidate.Generation
  BY <1>5 DEF Reconcile
<1>7. CASE result = "PendingCleanup"
  <2>1. saved' = Candidate /\ pc' = "Pending" /\ UNCHANGED <<world, publication>>
    BY <1>5, <1>7
  <2> QED BY <1>1, <1>2, <1>4, <1>6, <1>7, <2>1 DEF AttemptsFit
<1>8. CASE result = "Ready"
  <2>1. publication' = Candidate /\ saved' = NoWorld /\ pc' = "Committed" /\ UNCHANGED world
    BY <1>5, <1>8
  <2> QED BY <1>1, <1>2, <1>6, <1>8, <2>1 DEF AttemptsFit
<1>9. CASE result = "Error"
  <2>1. /\ saved' = NoWorld /\ pc' = "ResidencyError" /\ phase' = "Failed"
        /\ UNCHANGED <<residency, publication>>
    BY <1>5, <1>6, <1>9 DEF Fail, Txn!Fail, Txn!Step
  <2>2. world'.Generation = world.Generation
    BY <1>5, <1>9, CallsBuildNothing DEF CancelScriptWorld, Invariant
  <2>3. residency.Attempt = Candidate.Generation /\ residency.Snapshot = "Worker"
    BY <1>1, <1>2, <1>6, <1>9 DEF AttemptsFit
  <2> QED BY <1>1, <1>2, <2>1, <2>2, <2>3 DEF AttemptsFit
<1> QED BY <1>7, <1>8, <1>9 DEF Results

\* The cleaning up of what a script waits for is never refused
LEMMA CleanUpAttempts ==
    ASSUME Invariant, AttemptsFit, CleanUp
    PROVE  AttemptsFit'
<1>1. /\ pc = "Pending" /\ UNCHANGED <<world, phase, saved, publication>>
      /\ residency.Attempt \in Nat /\ residency.Generation \in Nat
  BY DEF CleanUp, Invariant, ResidencyFits
<1>2. CASE phase = "Prepared"
  <2>1. /\ saved # NoWorld /\ residency.Snapshot = "Host"
        /\ residency.Attempt = saved.Generation
    BY <1>1, <1>2 DEF Invariant, PlacesFit, AttemptsFit
  <2>2. PICK result \in Results :
            /\ Reconcile(saved.Generation, "Host", TRUE, result)
            /\ pc' = IF result = "Error" THEN "ResidencyError" ELSE "Commit"
    BY <1>2 DEF CleanUp
  <2>3. /\ result # "Error"
        /\ residency'.Snapshot = "Host" /\ residency'.Attempt = saved.Generation
    BY <1>1, <2>1, <2>2 DEF Reconcile
  <2> QED BY <1>1, <2>1, <2>2, <2>3 DEF AttemptsFit
<1>3. CASE phase # "Prepared"
  BY <1>1, <1>3 DEF CleanUp, AttemptsFit
<1> QED BY <1>2, <1>3

\* Nor is the world that Advance is about to show
LEMMA AdoptAttempts ==
    ASSUME Invariant, AttemptsFit, Adopt
    PROVE  AttemptsFit'
<1>1. /\ pc = "Adopt" /\ pending # NoWorld /\ Shown /\ saved = NoWorld /\ UNCHANGED saved
      /\ phase = "Idle"
      /\ residency.Attempt \in Nat /\ residency.Generation \in Nat
      /\ residency.Generation <= residency.Attempt
      /\ publication.Generation \in Nat /\ world.Generation \in Nat
  BY DEF Adopt, Invariant, PublicationFits, PlacesFit, BeforeCommit, ResidencyFits,
         WorldsFit, WorldType, CpuWorlds
<1>2. /\ pending.Generation = world.Generation /\ pending.Generation > publication.Generation
      /\ Cpu(pending).Generation = pending.Generation
  BY <1>1
  DEF Invariant, PublicationFits, GenerationsGrow, WorldsFit, WorldType, Shown, Cpu,
      CpuWorlds, ResidentWorlds
<1>3. PICK result \in Results :
          /\ Reconcile(pending.Generation, "Worker", TRUE, result)
          /\ IF result = "Ready" THEN Adopted
             ELSE /\ pc' = IF result = "Error" THEN "ResidencyError" ELSE "Physics"
                  /\ UNCHANGED <<vars, active, pending, retiring, publication>>
  BY DEF Adopt
<1>4. /\ result # "Error"
      /\ residency'.Snapshot = "Worker" /\ residency'.Attempt = pending.Generation
      /\ residency'.Generation = IF result = "Ready" THEN pending.Generation
                                 ELSE residency.Generation
  BY <1>1, <1>2, <1>3 DEF Reconcile, AttemptsFit
<1>5. CASE result = "Ready"
  <2>1. publication' = Cpu(pending) /\ pc' = "Published" /\ Retire(Cpu(active))
    BY <1>1, <1>2, <1>3, <1>5 DEF Adopted, Adoptable, Swap
  <2>2. world'.Generation = world.Generation
    BY <2>1, CallsBuildNothing DEF Invariant
  <2> QED BY <1>1, <1>2, <1>4, <1>5, <2>1, <2>2 DEF AttemptsFit
<1>6. CASE result # "Ready"
  <2>1. pc' = "Physics" /\ UNCHANGED <<world, publication>>
    BY <1>3, <1>4, <1>6
  <2> QED BY <1>1, <1>2, <1>4, <1>6, <2>1 DEF AttemptsFit
<1> QED BY <1>5, <1>6

LEMMA VehicleLeavesAttempts ==
    ASSUME Invariant, AttemptsFit, VehicleLeaves
    PROVE  AttemptsFit'
<1>1. /\ UNCHANGED <<world, pc, phase, saved, publication>>
      /\ residency'.Attempt = residency.Attempt
      /\ residency'.Snapshot = residency.Snapshot
      /\ residency'.Generation = residency.Generation
  BY DEF VehicleLeaves
<1> QED BY <1>1 DEF AttemptsFit

LEMMA AttemptsAtFirst ==
    ASSUME LiveInit
    PROVE  AttemptsFit
<1>1. world.Generation = 1
  BY DEF LiveInit, Init
<1> QED BY <1>1 DEF LiveInit, AttemptsFit, Cpu

LEMMA AttemptsKept ==
    ASSUME Invariant, AttemptsFit, [LiveNext]_liveVars
    PROVE  AttemptsFit'
<1>1. WorldsFit
  BY DEF Invariant
<1>2. CASE Service
  BY <1>1, <1>2, PublishAttempts, ServiceIsApart, AttemptsUndisturbed DEF Service
<1>3. CASE Pass
  BY <1>1, <1>3, CleanUpAttempts, PassIsApart, AttemptsUndisturbed DEF Pass
<1>4. CASE Stream
  BY <1>1, <1>4, AdoptAttempts, StreamIsApart, AttemptsUndisturbed DEF Stream
<1>5. CASE Wish \/ EndFrame \/ AdmitPopulation \/ TakePopulation
  BY <1>1, <1>5, WishIsApart, AttemptsUndisturbed
<1>6. CASE VehicleLeaves
  BY <1>6, VehicleLeavesAttempts
<1>7. CASE RunWorker
  BY <1>1, <1>7, WorkerIsApart, AttemptsUndisturbed
<1>8. CASE UNCHANGED liveVars
  BY <1>8 DEF AttemptsFit, liveVars
<1> QED BY <1>2, <1>3, <1>4, <1>5, <1>6, <1>7, <1>8 DEF LiveNext, Main, Joined

\* CommitScriptWorld and AdoptLiveWorld never throw, no candidate is stale when
\* it is published, a script's model or texture is never refused its slot, and
\* no assert() of the worker fails for this caller.  The residency refuses no
\* world (NativeCarGeneratorResidency.cpp:129) but one that PublishWorld took
\* over from the camera while vehicles still had to leave for it.
THEOREM OnlyTakeOversAreRefused == LiveSpec => []OnlyATakeOverIsRefused
<1>1. LiveSpec => []AttemptsFit
  BY InvariantHolds, AttemptsAtFirst, AttemptsKept, PTL DEF LiveSpec
<1>2. Invariant /\ AttemptsFit => OnlyATakeOverIsRefused
  BY DEF Invariant, OneOnTheWay, PlacesFit, AttemptsFit, OnlyATakeOverIsRefused,
         AssertionsHold
<1> QED BY <1>1, <1>2, InvariantHolds, PTL

\* There is the world shown and one other, wherever that is
LEMMA AtMostTwo ==
    ASSUME Invariant
    PROVE  TwoWorldPackets
<1> DEFINE resident == {w.Generation : w \in {active, pending, packet} \ {NoWorld}}
<1> SUFFICES \E a, b : Packets \cup resident \subseteq {a, b}
  BY PairHasTwo DEF TwoWorldPackets
<1> USE DEF Invariant, OneOnTheWay, GenerationsGrow
<1>1. {w.Generation : w \in world.Stopped \ {NoWorld}} \subseteq resident
  OBVIOUS
<1>2. CASE \/ at = "World" \/ world.Ready # NoWorld
           \/ pending # NoWorld \/ packet # NoWorld
  <2>1. Packets \cup resident \subseteq {active.Generation, world.Generation}
    BY <1>1, <1>2 DEF Packets
  <2> QED BY <2>1
<1>3. CASE /\ at # "World" /\ world.Ready = NoWorld
           /\ pending = NoWorld /\ packet = NoWorld
  <2>1. resident \subseteq {active.Generation}
    BY <1>3
  <2>2. CASE world.Retired # NoWorld
    <3>1. Packets \subseteq {active.Generation, world.Retired.Generation}
      BY <1>1, <1>3, <2>1, <2>2 DEF Packets
    <3> QED BY <2>1, <3>1
  <2>3. CASE world.Retired = NoWorld
    <3>1. Packets \subseteq {active.Generation, local.Generation}
      BY <1>1, <1>3, <2>1, <2>3 DEF Packets
    <3> QED BY <2>1, <3>1
  <2> QED BY <2>2, <2>3
<1> QED BY <1>2, <1>3

\* A script that is told Ready finds the world it asked for staged.
LEMMA CommittedIsStaged ==
    ASSUME Invariant
    PROVE  ReadyIsStaged
<1> SUFFICES ASSUME pc = "Committed"
             PROVE  Staged /\ pending.Position = identity
  BY DEF ReadyIsStaged
<1> QED BY PublishedIsStaged DEF Invariant, PlacesFit

\* What is where, that two packets of a world are enough, and that a script is
\* told Ready of nothing but the world it asked for, uploaded completely.
THEOREM WorldsKeepTheirPlaces == LiveSpec => []WorldsFitTogether
<1>1. Invariant => WorldsFitTogether
  <2> SUFFICES ASSUME Invariant
               PROVE  WorldsFitTogether
    OBVIOUS
  <2>1. TypeOK
    BY DEF Invariant, OneOnTheWay, PublicationFits, SlotsFit, Kinds, ResidencyFits,
           PlacesFit, InLoader, TypeOK
  <2> QED BY <2>1, AtMostTwo, CommittedIsStaged DEF WorldsFitTogether
<1> QED BY <1>1, InvariantHolds, PTL
=============================================================================
