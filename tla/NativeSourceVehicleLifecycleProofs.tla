----------------- MODULE NativeSourceVehicleLifecycleProofs -----------------
(***************************************************************************)
(* Proofs about NativeSourceVehicleLifecycle, for every set of places and  *)
(* buttons, every number of worlds, every capacity of the pool, and        *)
(* whatever bounds the journal and the failures.                           *)
(*                                                                         *)
(* Where the ped is and what the pool holds cannot be proved one without   *)
(* the other: a hand-over whose vehicle the pool does not find leaves the  *)
(* ped half way, and a vehicle that is driven without its driver leaves    *)
(* the pool behind.  What an observer needs holds in spite of failures.    *)
(***************************************************************************)
EXTENDS NativeSourceVehicleLifecycle, FiniteSetTheorems, WellFoundedInduction, TLAPS

-----------------------------------------------------------------------------
(* The invariant                                                           *)

Records == [Reference : Nat, Producer : {Controller}, State : VehicleStates]
PoolEvents == [Kind : {"Allocated", "Updated", "Released"}, Reference : Nat,
               State : VehicleStates]

\* p is a pool
PoolShape(p) ==
    /\ DOMAIN p = {"slots", "generations", "events", "revision", "owned", "sealed",
                   "publications"}
    /\ DOMAIN p.slots \subseteq Pool!Slots
    /\ \A s \in DOMAIN p.slots : p.slots[s] \in Records
    /\ p.generations \in [Pool!Slots -> 0..(Generations - 1)]
    /\ p.events \in Seq(PoolEvents)
    /\ p.revision \in Nat

\* The types of all but the last snapshot and the counters
OthersFit ==
    /\ PoolShape(pool)
    /\ m_Automobile \in Automobiles \cup {None}
    /\ m_Camera \in Cameras \cup {None}
    /\ m_Automobile # None => m_Camera # None
    /\ m_PedWorld \in 0..MaxWorld
    /\ m_Ped \in Places \cup {Absent}
    /\ pedWorlds \in [Worlds -> Places \cup {Absent}]
    /\ pad \subseteq Buttons

PartsFit ==
    /\ OthersFit
    /\ m_Published \in Snapshots \cup {None}
    /\ m_Published # None => m_Published.WorldGeneration = m_PedWorld
    /\ m_NextEvent \in Nat /\ m_NextEpoch \in 1..(MaxEpochs + 1)
    /\ failures \in 0..MaxFailures

\* The journal has no gaps, however many snapshots were not published
JournalFits ==
    m_Published # None =>
        /\ Consistent(m_Published)
        /\ m_NextEvent = Len(m_Published.Events) + 1
        /\ m_Published.Epoch < m_NextEpoch

\* p has the vehicle of the snapshot s and no other
HoldsVehicle(p, s) ==
    /\ s.PoolRevision = p.revision
    /\ IF s.Phase = "Destroyed"
       THEN DOMAIN p.slots = {} /\ s.PoolAlive = 0
       ELSE /\ DOMAIN p.slots = {Pool!SlotOf(s.VehicleReference)}
            /\ s.PoolAlive = 1
            /\ Pool!Resolves(p, s.VehicleReference)
            /\ p.slots[Pool!SlotOf(s.VehicleReference)].State
                  = VehicleState(s.Automobile, TRUE)

CameraFollows(s) ==
    s.Phase \in {"Entering", "Driving"} => m_Camera.Mode = "CamOnAString"

\* While memory lasts: the pool follows the snapshots, and the camera is where
\* driving never asks for a transition
VehicleFits ==
    failures = 0 =>
        IF m_Published = None THEN DOMAIN pool.slots = {}
        ELSE /\ HoldsVehicle(pool, m_Published)
             /\ CameraFollows(m_Published)

PedFits ==
    failures = 0 =>
        /\ m_Published = None => \A w \in Worlds : pedWorlds[w] = Absent
        /\ PlacesAgree

Invariant == PartsFit /\ JournalFits /\ VehicleFits /\ PedFits

-----------------------------------------------------------------------------
(* The pool                                                                *)

LEMMA SlotsAreFinite ==
    ASSUME NEW p, PoolShape(p)
    PROVE  IsFiniteSet(DOMAIN p.slots) /\ Cardinality(DOMAIN p.slots) \in Nat
<1>1. IsFiniteSet(Pool!Slots)
  BY LifecycleAssumption, FS_Interval DEF Pool!Slots
<1> QED BY <1>1, FS_Subset, FS_CardinalityType DEF PoolShape

\* Allocate finds a slot if there is one
LEMMA FirstFreeIsFree ==
    ASSUME NEW p, Pool!FreeSlots(p) # {}
    PROVE  Pool!FirstFree(p) \in Pool!FreeSlots(p)
<1>1. Pool!FreeSlots(p) \subseteq Nat
  BY LifecycleAssumption DEF Pool!FreeSlots, Pool!Slots
<1> DEFINE Less == {ss \in Nat \X Nat : ss[1] < ss[2]}
<1>2. IsWellFoundedOn(Less, Nat)
  BY NatLessThanWellFounded DEF OpToRel
<1>3. PICK s \in Pool!FreeSlots(p) : \A t \in Pool!FreeSlots(p) : ~ (<<t, s>> \in Less)
  <2> HIDE DEF Less
  <2> QED BY <1>1, <1>2, WFMin
<1>4. ASSUME NEW t \in Pool!FreeSlots(p)
      PROVE  s <= t
  <2>1. s \in Nat /\ t \in Nat /\ ~ (<<t, s>> \in Less)
    BY <1>1, <1>3
  <2>2. <<t, s>> \in Nat \X Nat /\ <<t, s>>[1] = t /\ <<t, s>>[2] = s
    BY <2>1
  <2>3. ~ (t < s)
    BY <2>1, <2>2
  <2> QED BY <2>1, <2>3
<1> QED BY <1>3, <1>4 DEF Pool!FirstFree

\* The reference a caller gets is that of the event, and names its slot
LEMMA AllocatedPool ==
    ASSUME NEW p, PoolShape(p), NEW state \in VehicleStates,
           Pool!CanAllocate(p, Controller),
           NEW q, q = Pool!Allocated(p, Controller, state),
           NEW reference, reference = q.events[Len(q.events)].Reference
    PROVE  /\ PoolShape(q) /\ q.revision = p.revision + 1 /\ reference \in Nat
           /\ DOMAIN q.slots = DOMAIN p.slots \cup {Pool!SlotOf(reference)}
           /\ Pool!Resolves(q, reference)
           /\ q.slots[Pool!SlotOf(reference)].State = state
<1>1. PICK slot : slot = Pool!FirstFree(p)
  OBVIOUS
<1>2. slot \in Pool!Slots /\ slot \in Nat
  BY <1>1, FirstFreeIsFree, LifecycleAssumption
  DEF Pool!CanAllocate, Pool!FreeSlots, Pool!Slots
<1>3. PICK generation : generation = (p.generations[slot] + 1) % Generations
  OBVIOUS
<1>4. generation \in 0..(Generations - 1) /\ generation \in 0..255
  <2>1. p.generations[slot] + 1 \in Int /\ Generations \in 1..256
    BY <1>2, LifecycleAssumption DEF PoolShape
  <2>2. generation \in 0..(Generations - 1)
    BY <1>3, <2>1
  <2> QED BY <2>1, <2>2
<1>5. PICK record : record = [Reference |-> Pool!Reference(slot, generation),
                              Producer |-> Controller, State |-> state]
  OBVIOUS
<1>6. record \in Records /\ Pool!SlotOf(record.Reference) = slot
  BY <1>2, <1>4, <1>5 DEF Records, Pool!Reference, Pool!SlotOf
<1>7. PICK event : event = [Kind |-> "Allocated", Reference |-> record.Reference,
                            State |-> record.State]
  OBVIOUS
<1>8. event \in PoolEvents /\ event.Reference = record.Reference
  BY <1>6, <1>7 DEF PoolEvents, Records
<1>9. /\ DOMAIN q = DOMAIN p
      /\ q.slots = [s \in DOMAIN p.slots \cup {slot} |->
                        IF s = slot THEN record ELSE p.slots[s]]
      /\ q.generations = [p.generations EXCEPT ![slot] = generation]
      /\ q.events = Append(p.events, event)
      /\ q.revision = p.revision + 1
  BY <1>1, <1>3, <1>5, <1>7
  DEF Pool!Allocated, Pool!Stored, Pool!Logged, PoolShape
<1>10. reference = record.Reference
  BY <1>8, <1>9 DEF PoolShape
<1>11. PoolShape(q)
  BY <1>2, <1>4, <1>6, <1>8, <1>9 DEF PoolShape
<1> QED BY <1>5, <1>6, <1>9, <1>10, <1>11 DEF Pool!Resolves, Records

LEMMA UpdatedPool ==
    ASSUME NEW p, PoolShape(p), NEW state \in VehicleStates,
           NEW reference, Pool!Resolves(p, reference),
           NEW q, q = Pool!Updated(p, reference, state)
    PROVE  /\ PoolShape(q) /\ q.revision = p.revision + 1
           /\ DOMAIN q.slots = DOMAIN p.slots
           /\ Pool!Resolves(q, reference)
           /\ q.slots[Pool!SlotOf(reference)].State = state
<1>1. PICK slot : slot = Pool!SlotOf(reference)
  OBVIOUS
<1>2. slot \in DOMAIN p.slots /\ p.slots[slot] \in Records
      /\ p.slots[slot].Reference = reference
  BY <1>1 DEF Pool!Resolves, PoolShape
<1>3. PICK record : record = [p.slots[slot] EXCEPT !.State = state]
  OBVIOUS
<1>4. record \in Records /\ record.Reference = reference /\ record.State = state
  BY <1>2, <1>3 DEF Records
<1>5. PICK event : event = [Kind |-> "Updated", Reference |-> record.Reference,
                            State |-> record.State]
  OBVIOUS
<1>6. event \in PoolEvents
  BY <1>4, <1>5 DEF PoolEvents, Records
<1>7. /\ DOMAIN q = DOMAIN p
      /\ q.slots = [s \in DOMAIN p.slots \cup {slot} |->
                        IF s = slot THEN record ELSE p.slots[s]]
      /\ q.generations = p.generations
      /\ q.events = Append(p.events, event)
      /\ q.revision = p.revision + 1
  BY <1>1, <1>3, <1>5 DEF Pool!Updated, Pool!Stored, Pool!Logged, PoolShape
<1>8. DOMAIN q.slots = DOMAIN p.slots
  BY <1>2, <1>7
<1>9. PoolShape(q)
  BY <1>2, <1>4, <1>6, <1>7, <1>8 DEF PoolShape
<1> QED BY <1>1, <1>2, <1>4, <1>7, <1>8, <1>9 DEF Pool!Resolves

LEMMA ReleasedPool ==
    ASSUME NEW p, PoolShape(p), NEW reference, Pool!Resolves(p, reference),
           NEW q, q = Pool!Released(p, reference)
    PROVE  /\ PoolShape(q) /\ q.revision = p.revision + 1
           /\ DOMAIN q.slots = DOMAIN p.slots \ {Pool!SlotOf(reference)}
<1>1. PICK slot : slot = Pool!SlotOf(reference)
  OBVIOUS
<1>2. p.slots[slot] \in Records
  BY <1>1 DEF Pool!Resolves, PoolShape
<1>3. PICK event : event = [Kind |-> "Released", Reference |-> p.slots[slot].Reference,
                            State |-> p.slots[slot].State]
  OBVIOUS
<1>4. event \in PoolEvents
  BY <1>2, <1>3 DEF PoolEvents, Records
<1>5. /\ DOMAIN q = DOMAIN p
      /\ q.slots = [s \in DOMAIN p.slots \ {slot} |-> p.slots[s]]
      /\ q.generations = p.generations
      /\ q.events = Append(p.events, event)
      /\ q.revision = p.revision + 1
  BY <1>1, <1>3 DEF Pool!Released, Pool!Logged, PoolShape
<1>6. PoolShape(q)
  BY <1>4, <1>5 DEF PoolShape
<1> QED BY <1>1, <1>5, <1>6

\* After an update the pool has what the next snapshot shows
LEMMA UpdatedHolds ==
    ASSUME NEW p, PoolShape(p), NEW s, HoldsVehicle(p, s), s.Phase # "Destroyed",
           NEW state \in VehicleStates,
           NEW q, q = Pool!Updated(p, s.VehicleReference, state),
           NEW t, t.Phase # "Destroyed", t.VehicleReference = s.VehicleReference,
           t.PoolRevision = q.revision, t.PoolAlive = Cardinality(DOMAIN q.slots),
           state = VehicleState(t.Automobile, TRUE)
    PROVE  HoldsVehicle(q, t)
<1>1. PICK reference : reference = s.VehicleReference
  OBVIOUS
<1>2. Pool!Resolves(p, reference) /\ DOMAIN p.slots = {Pool!SlotOf(reference)}
  BY <1>1 DEF HoldsVehicle
<1>3. q = Pool!Updated(p, reference, state)
  BY <1>1
<1>4. /\ DOMAIN q.slots = DOMAIN p.slots
      /\ Pool!Resolves(q, reference)
      /\ q.slots[Pool!SlotOf(reference)].State = state
  BY ONLY PoolShape(p), state \in VehicleStates, <1>2, <1>3, UpdatedPool
<1>5. Cardinality({Pool!SlotOf(reference)}) = 1
  BY FS_Singleton
<1> QED BY <1>1, <1>2, <1>4, <1>5 DEF HoldsVehicle

\* A pool that was left alone has what the next snapshot shows
LEMMA StillHolds ==
    ASSUME NEW p, NEW s, HoldsVehicle(p, s), NEW t,
           t.PoolRevision = p.revision, t.PoolAlive = Cardinality(DOMAIN p.slots),
           s.Phase = "Destroyed" <=> t.Phase = "Destroyed",
           t.VehicleReference = s.VehicleReference, t.Automobile = s.Automobile
    PROVE  HoldsVehicle(p, t)
<1>1. Cardinality({Pool!SlotOf(s.VehicleReference)}) = 1
  BY FS_Singleton
<1>2. Cardinality({}) = 0
  BY FS_EmptySet
<1> QED BY <1>1, <1>2 DEF HoldsVehicle

-----------------------------------------------------------------------------
(* Snapshots                                                               *)

LEMMA CameraMoves ==
    ASSUME NEW camera \in Cameras, NEW elapsed \in BOOLEAN,
           NEW mode \in {"FollowPed", "CamOnAString"}
    PROVE  /\ Advanced(camera, elapsed) \in Cameras
           /\ Advanced(camera, elapsed).Mode = camera.Mode
           /\ Restored(camera, mode, elapsed) \in Cameras
           /\ Restored(camera, mode, elapsed).Mode = mode
BY DEF Cameras, Advanced, Restored

LEMMA VehicleStateIs ==
    ASSUME NEW automobile \in Automobiles, NEW inWorld \in BOOLEAN
    PROVE  VehicleState(automobile, inWorld) \in VehicleStates
BY DEF Automobiles, VehicleState, VehicleStates

\* What a call publishes, it puts together from the last snapshot
SameCall(s, t) ==
    /\ t.Epoch = s.Epoch /\ t.WorldGeneration = s.WorldGeneration /\ t.Phase = s.Phase
    /\ t.VehicleReference = s.VehicleReference
    /\ t.PedPosition = s.PedPosition /\ t.PedInWorld = s.PedInWorld
    /\ t.InVehicle = s.InVehicle /\ t.PadPressed = s.PadPressed
    /\ t.Automobile = s.Automobile

LEMMA WithEventIs ==
    ASSUME NEW s \in Snapshots, NEW kind \in Kinds, m_NextEvent \in Nat,
           NEW t, t = WithEvent(s, kind)
    PROVE  /\ t \in Snapshots /\ SameCall(s, t)
           /\ t.Events = Append(s.Events, Event(kind, s.Phase)) /\ s.Phase \in Phases
<1> DEFINE E == [Sequence : Nat, Kind : Kinds, Phase : Phases]
<1>1. PICK event : event = Event(kind, s.Phase)
  OBVIOUS
<1>2. event \in E /\ s.Phase \in Phases
  BY <1>1 DEF Event, Snapshots
<1>3. PICK events : events = Append(s.Events, event)
  OBVIOUS
<1>4. events \in Seq(E)
  BY <1>2, <1>3 DEF Snapshots
<1>5. t = [s EXCEPT !.Events = events]
  BY <1>1, <1>3 DEF WithEvent, Snapshots
<1> QED BY <1>1, <1>2, <1>3, <1>4, <1>5 DEF Snapshots, SameCall

LEMMA WithPoolIs ==
    ASSUME NEW s \in Snapshots, NEW p, PoolShape(p), NEW t, t = WithPool(s, p)
    PROVE  /\ t \in Snapshots /\ SameCall(s, t) /\ t.Events = s.Events
           /\ t.PoolRevision = p.revision /\ t.PoolAlive = Cardinality(DOMAIN p.slots)
<1>1. PICK alive : alive = Cardinality(DOMAIN p.slots)
  OBVIOUS
<1>2. alive \in Nat /\ p.revision \in Nat
  BY <1>1, SlotsAreFinite DEF PoolShape
<1>3. t = [s EXCEPT !.PoolRevision = p.revision, !.PoolAlive = alive]
  BY <1>1 DEF WithPool
<1> QED BY <1>1, <1>2, <1>3 DEF Snapshots, SameCall

PhaseFits(s) ==
    CASE s.Phase \in {"Driving", "Exiting"} ->
             s.InVehicle /\ ~s.PedInWorld /\ s.Automobile # None
      [] s.Phase \in {"OnFoot", "Entering"} ->
             ~s.InVehicle /\ s.PedInWorld /\ s.Automobile # None
      [] s.Phase = "Destroyed" -> TRUE

\* t may be published after s
MayFollow(s, t, emitted) ==
    /\ t \in Snapshots
    /\ t.Epoch = s.Epoch /\ t.VehicleReference = s.VehicleReference
    /\ PhaseFits(t)
    /\ IF emitted
       THEN \E kind \in Kinds, phase \in Phases :
                /\ t.Events = Append(s.Events, Event(kind, phase))
                /\ kind \in {"EnterRequested", "ExitRequested"} => "Triangle" \in t.PadPressed
                /\ kind \in {"DoorOpened", "DoorClosed"} => t.Automobile # None
       ELSE t.Events = s.Events

LEMMA FollowsInJournal ==
    ASSUME NEW s \in Snapshots, NEW t, NEW emitted \in BOOLEAN, MayFollow(s, t, emitted),
           Consistent(s), m_NextEvent = Len(s.Events) + 1
    PROVE  /\ Follows(s, t)
           /\ Len(t.Events) = IF emitted THEN Len(s.Events) + 1 ELSE Len(s.Events)
<1> DEFINE E == [Sequence : Nat, Kind : Kinds, Phase : Phases]
<1>1. s.Events \in Seq(E) /\ t.Events \in Seq(E)
  BY DEF Snapshots, MayFollow
<1>2. \A i \in DOMAIN s.Events : s.Events[i].Sequence = i
  BY DEF Consistent
<1>3. CASE ~emitted
  <2>1. t.Events = s.Events /\ SubSeq(s.Events, 1, Len(s.Events)) = s.Events
    BY <1>1, <1>3 DEF MayFollow
  <2>2. Consistent(t)
    BY <1>2, <2>1 DEF MayFollow, PhaseFits, Consistent
  <2> QED BY <1>1, <1>3, <2>1, <2>2 DEF Follows, MayFollow
<1>4. CASE emitted
  <2>1. PICK kind \in Kinds, phase \in Phases :
            /\ t.Events = Append(s.Events, Event(kind, phase))
            /\ kind \in {"EnterRequested", "ExitRequested"} => "Triangle" \in t.PadPressed
            /\ kind \in {"DoorOpened", "DoorClosed"} => t.Automobile # None
    BY <1>4 DEF MayFollow
  <2>2. PICK event : event = Event(kind, phase)
    OBVIOUS
  <2>3. event.Sequence = m_NextEvent /\ event.Kind = kind /\ event \in E
    BY <1>1, <2>1, <2>2 DEF Event
  <2>4. /\ Len(t.Events) = Len(s.Events) + 1 /\ t.Events[Len(s.Events) + 1] = event
        /\ \A i \in 1..Len(s.Events) : t.Events[i] = s.Events[i]
        /\ DOMAIN t.Events = 1..(Len(s.Events) + 1) /\ Len(s.Events) \in Nat
    BY <1>1, <2>1, <2>2, <2>3
  <2>5. SubSeq(t.Events, 1, Len(s.Events)) = s.Events
    BY <1>1, <2>4
  <2>6. Consistent(t)
    <3>1. ASSUME NEW i \in DOMAIN t.Events
          PROVE  t.Events[i].Sequence = i
      <4>1. CASE i = Len(s.Events) + 1
        BY <2>3, <2>4, <4>1
      <4>2. CASE i # Len(s.Events) + 1
        <5>1. i \in 1..Len(s.Events) /\ i \in DOMAIN s.Events
          BY <1>1, <2>4, <4>2
        <5>2. t.Events[i] = s.Events[i]
          BY <2>4, <5>1
        <5> QED BY <1>2, <5>1, <5>2
      <4> QED BY <4>1, <4>2
    <3> QED BY <3>1 DEF MayFollow, PhaseFits, Consistent
  <2> QED BY <1>4, <2>1, <2>3, <2>4, <2>5, <2>6 DEF Follows, MayFollow
<1> QED BY <1>3, <1>4

\* What Publish leaves
LEMMA PublishKeeps ==
    ASSUME PartsFit, JournalFits, m_Published # None,
           NEW next, NEW emitted \in BOOLEAN, MayFollow(m_Published, next, emitted),
           Publish(next, emitted), UNCHANGED m_NextEpoch
    PROVE  /\ JournalFits' /\ NextIsObservable
           /\ m_NextEvent' \in Nat /\ failures' \in 0..MaxFailures
           /\ \/ m_Published' = next /\ failures' = failures /\ status' = "Ok"
              \/ m_Published' = m_Published /\ failures' # 0 /\ status' = "Overflow"
<1>1. /\ m_Published \in Snapshots /\ m_NextEvent \in Nat /\ failures \in 0..MaxFailures
      /\ MaxFailures \in Nat
  BY LifecycleAssumption DEF PartsFit
<1>2. /\ Consistent(m_Published) /\ m_NextEvent = Len(m_Published.Events) + 1
      /\ m_Published.Epoch < m_NextEpoch
  BY DEF JournalFits
<1>3. /\ Follows(m_Published, next)
      /\ Len(next.Events) = IF emitted THEN Len(m_Published.Events) + 1
                            ELSE Len(m_Published.Events)
  BY <1>1, <1>2, FollowsInJournal
<1>4. CASE /\ m_Published' = next /\ failures' = failures /\ status' = "Ok"
           /\ m_NextEvent' = IF emitted THEN m_NextEvent + 1 ELSE m_NextEvent
  <2>1. next.Epoch = m_Published.Epoch /\ Consistent(next)
    BY <1>3 DEF Follows
  <2>2. JournalFits'
    BY <1>2, <1>3, <1>4, <2>1 DEF JournalFits, Consistent
  <2>3. NextIsObservable
    BY <1>3, <1>4, <2>1 DEF NextIsObservable
  <2> QED BY <1>1, <1>4, <2>2, <2>3
<1>5. CASE NoMemory
  <2>1. /\ m_Published' = m_Published /\ m_NextEvent' = m_NextEvent
        /\ failures' = failures + 1 /\ failures < MaxFailures /\ status' = "Overflow"
    BY <1>5 DEF NoMemory
  <2>2. JournalFits' /\ NextIsObservable
    BY <1>2, <2>1 DEF JournalFits, Consistent, NextIsObservable
  <2>3. m_NextEvent' \in Nat /\ failures' \in 0..MaxFailures /\ failures' # 0
    BY <1>1, <2>1
  <2> QED BY <2>1, <2>2, <2>3
<1> QED BY <1>4, <1>5 DEF Publish

LEMMA FailKeeps ==
    ASSUME JournalFits, NEW result, Fail(result), UNCHANGED m_NextEpoch
    PROVE  /\ JournalFits' /\ NextIsObservable
           /\ UNCHANGED <<m_Published, m_NextEvent, failures>>
BY DEF Fail, JournalFits, Consistent, NextIsObservable

\* A call that may have published shown
LEMMA CallPublishes ==
    ASSUME Invariant, m_Published # None, NEW shown, NEW emitted \in BOOLEAN,
           MayFollow(m_Published, shown, emitted), Publish(shown, emitted),
           UNCHANGED m_NextEpoch, OthersFit',
           m_Published' = shown => shown.WorldGeneration = m_PedWorld',
           m_Published' # shown => UNCHANGED m_PedWorld,
           failures = 0 /\ m_Published' = shown =>
               HoldsVehicle(pool', shown) /\ CameraFollows(shown)' /\ PlacesAgree'
    PROVE  Invariant' /\ NextIsObservable
<1>1. /\ JournalFits' /\ NextIsObservable
      /\ m_NextEvent' \in Nat /\ failures' \in 0..MaxFailures
      /\ \/ m_Published' = shown /\ failures' = failures /\ status' = "Ok"
         \/ m_Published' = m_Published /\ failures' # 0 /\ status' = "Overflow"
  BY PublishKeeps DEF Invariant
<1>2. PartsFit'
  BY <1>1 DEF Invariant, PartsFit, MayFollow
<1>3. shown # None
  BY NoneAssumption DEF MayFollow
<1>4. VehicleFits'
  BY <1>1, <1>3 DEF VehicleFits, CameraFollows
<1>5. PedFits'
  BY <1>1, <1>3 DEF PedFits
<1> QED BY <1>1, <1>2, <1>4, <1>5 DEF Invariant

\* A call that has failed
LEMMA CallFails ==
    ASSUME Invariant, m_Published # None, NEW result, Fail(result),
           UNCHANGED m_NextEpoch, OthersFit', UNCHANGED m_PedWorld,
           failures = 0 => UNCHANGED <<pool, m_Camera>> /\ PlacesAgree'
    PROVE  Invariant' /\ NextIsObservable
<1>1. UNCHANGED <<m_Published, m_NextEvent, failures>>
  BY DEF Fail
<1>2. PartsFit'
  BY <1>1 DEF Invariant, PartsFit
<1>3. JournalFits' /\ NextIsObservable
  BY FailKeeps DEF Invariant
<1>4. VehicleFits'
  BY <1>1 DEF Invariant, VehicleFits, HoldsVehicle, CameraFollows
<1>5. PedFits'
  BY <1>1 DEF Invariant, PedFits
<1> QED BY <1>2, <1>3, <1>4, <1>5 DEF Invariant

\* The ped is where it was, and so is the driver
LEMMA DriverStays ==
    ASSUME Invariant, failures = 0, m_Published # None, m_Published' # None,
           UNCHANGED <<pedWorlds, m_PedWorld>>,
           m_Automobile # None, m_Automobile' # None,
           m_Automobile'.Driver = m_Automobile.Driver,
           m_Published'.Phase \in {"Driving", "Exiting"}
               <=> m_Published.Phase \in {"Driving", "Exiting"}
    PROVE  PlacesAgree'
BY DEF Invariant, PedFits, PlacesAgree

-----------------------------------------------------------------------------
(* A frame                                                                 *)

\* next is the last snapshot with the buttons of this frame
InFrame(next) ==
    /\ m_Published \in Snapshots /\ m_Automobile \in Automobiles /\ m_Camera \in Cameras
    /\ m_NextEvent \in Nat
    /\ next \in Snapshots
    /\ next.Epoch = m_Published.Epoch /\ next.Phase = m_Published.Phase
    /\ next.WorldGeneration = m_PedWorld
    /\ next.VehicleReference = m_Published.VehicleReference
    /\ next.Automobile = m_Published.Automobile
    /\ next.InVehicle = m_Published.InVehicle /\ next.PedInWorld = m_Published.PedInWorld
    /\ next.Events = m_Published.Events
    /\ pad' \subseteq Buttons
    /\ UNCHANGED <<m_PedWorld, pedWorlds, m_NextEpoch>>

LEMMA PublishedFits ==
    ASSUME Invariant, m_Published # None
    PROVE  PhaseFits(m_Published) /\ m_Published \in Snapshots
BY DEF Invariant, PartsFit, JournalFits, Consistent, PhaseFits

LEMMA FrameFails ==
    ASSUME Invariant, NEW next, InFrame(next), NEW result, Fail(result), UNCHANGED m_Ped,
           PoolShape(pool'), m_Camera' \in Cameras, m_Automobile' \in Automobiles,
           m_Automobile'.Driver = m_Automobile.Driver,
           failures = 0 => UNCHANGED <<pool, m_Camera>>
    PROVE  Invariant' /\ NextIsObservable
<1>1. m_Published # None /\ m_Automobile # None /\ m_Automobile' # None /\ m_Camera' # None
  BY NoneAssumption DEF InFrame
<1>2. OthersFit'
  BY <1>1 DEF Invariant, PartsFit, OthersFit, InFrame
<1>3. failures = 0 => PlacesAgree'
  BY <1>1, DriverStays DEF Fail, InFrame
<1> QED BY <1>1, <1>2, <1>3, CallFails DEF InFrame

LEMMA FramePublishes ==
    ASSUME Invariant, NEW next, InFrame(next), UNCHANGED m_Ped,
           NEW shown, NEW emitted \in BOOLEAN, Publish(shown, emitted),
           MayFollow(m_Published, shown, emitted), shown.WorldGeneration = m_PedWorld,
           PoolShape(pool'), m_Camera' \in Cameras, m_Automobile' \in Automobiles,
           m_Automobile'.Driver = m_Automobile.Driver,
           shown.Phase \in {"Driving", "Exiting"} <=> next.Phase \in {"Driving", "Exiting"},
           failures = 0 => HoldsVehicle(pool', shown) /\ CameraFollows(shown)'
    PROVE  Invariant' /\ NextIsObservable
<1>1. /\ m_Published # None /\ m_Automobile # None /\ shown # None
      /\ m_Automobile' # None /\ m_Camera' # None
  BY NoneAssumption DEF InFrame, MayFollow
<1>2. OthersFit'
  BY <1>1 DEF Invariant, PartsFit, OthersFit, InFrame
<1>3. failures = 0 /\ m_Published' = shown => PlacesAgree'
  BY <1>1, DriverStays DEF InFrame
<1> QED BY <1>1, <1>2, <1>3, CallPublishes DEF InFrame

LEMMA TickEnterKeeps ==
    ASSUME Invariant, NEW next, InFrame(next), NEW elapsed \in BOOLEAN,
           next.Phase = "OnFoot", "Triangle" \in next.PadPressed,
           TickEnter(next, elapsed)
    PROVE  Invariant' /\ NextIsObservable
<1>1. PoolShape(pool) /\ m_Published # None
  BY NoneAssumption DEF Invariant, PartsFit, OthersFit, InFrame
<1>2. ASSUME NEW result, Fail(result), UNCHANGED owned
      PROVE  Invariant' /\ NextIsObservable
  BY <1>1, <1>2, FrameFails DEF owned, InFrame
<1>3. PICK camera : camera = Restored(m_Camera, "CamOnAString", elapsed)
  OBVIOUS
<1>4. PICK begun : begun = [next EXCEPT !.Phase = "Entering", !.DriverDoorOpen = FALSE]
  OBVIOUS
<1>5. PICK logged : logged = WithEvent(begun, "EnterRequested")
  OBVIOUS
<1>6. PICK seen : seen = [logged EXCEPT !.Camera = camera]
  OBVIOUS
<1>7. PICK shown : shown = WithPool(seen, pool)
  OBVIOUS
<1>8. CASE /\ m_Camera' = camera /\ Publish(shown, TRUE)
           /\ UNCHANGED <<pool, m_Automobile, m_Ped>>
  <2>1. camera \in Cameras /\ camera.Mode = "CamOnAString"
    BY <1>3, CameraMoves DEF InFrame
  <2>2. /\ begun \in Snapshots /\ begun.Phase = "Entering" /\ begun.Epoch = next.Epoch
        /\ begun.WorldGeneration = next.WorldGeneration /\ begun.Events = next.Events
        /\ begun.VehicleReference = next.VehicleReference
        /\ begun.Automobile = next.Automobile /\ begun.PadPressed = next.PadPressed
        /\ begun.InVehicle = next.InVehicle /\ begun.PedInWorld = next.PedInWorld
    BY <1>4 DEF InFrame, Snapshots, Phases
  <2>3. /\ logged \in Snapshots /\ SameCall(begun, logged)
        /\ logged.Events = Append(next.Events, Event("EnterRequested", "Entering"))
    <3>1. "EnterRequested" \in Kinds /\ m_NextEvent \in Nat
      BY DEF Kinds, InFrame
    <3>2. /\ logged \in Snapshots /\ SameCall(begun, logged)
          /\ logged.Events = Append(begun.Events, Event("EnterRequested", begun.Phase))
      BY ONLY <1>5, <2>2, <3>1, WithEventIs
    <3> QED BY <2>2, <3>2
  <2>4. seen \in Snapshots /\ SameCall(begun, seen) /\ seen.Events = logged.Events
    BY <1>6, <2>1, <2>3 DEF Snapshots, SameCall
  <2>5. /\ shown \in Snapshots /\ SameCall(begun, shown) /\ shown.Events = logged.Events
        /\ shown.PoolRevision = pool.revision
        /\ shown.PoolAlive = Cardinality(DOMAIN pool.slots)
    BY <1>1, <1>7, <2>4, WithPoolIs DEF SameCall
  <2>6. MayFollow(m_Published, shown, TRUE)
    BY <1>1, <2>2, <2>3, <2>5, PublishedFits
    DEF InFrame, MayFollow, SameCall, PhaseFits, Phases, Kinds
  <2>7. failures = 0 => HoldsVehicle(pool', shown)
    <3>1. failures = 0 => HoldsVehicle(pool, m_Published)
      BY <1>1 DEF Invariant, VehicleFits
    <3>2. /\ m_Published.Phase = "Destroyed" <=> shown.Phase = "Destroyed"
          /\ shown.VehicleReference = m_Published.VehicleReference
          /\ shown.Automobile = m_Published.Automobile
      BY <2>2, <2>5 DEF InFrame, SameCall
    <3>3. failures = 0 => HoldsVehicle(pool, shown)
      BY <2>5, <3>1, <3>2, StillHolds
    <3> QED BY <1>8, <3>3
  <2>8. CameraFollows(shown)'
    BY <1>8, <2>1 DEF CameraFollows
  <2> QED
    BY <1>1, <1>8, <2>1, <2>2, <2>5, <2>6, <2>7, <2>8, FramePublishes DEF InFrame, SameCall
<1> QED BY <1>2, <1>3, <1>4, <1>5, <1>6, <1>7, <1>8 DEF TickEnter

LEMMA TickExitKeeps ==
    ASSUME Invariant, NEW next, InFrame(next), NEW elapsed \in BOOLEAN,
           next.Phase = "Driving", "Triangle" \in next.PadPressed,
           TickExit(next, elapsed)
    PROVE  Invariant' /\ NextIsObservable
<1>1. /\ PoolShape(pool) /\ m_Published # None /\ m_Published.Phase = "Driving"
      /\ m_Automobile \in Automobiles /\ m_Camera \in Cameras
  BY NoneAssumption DEF Invariant, PartsFit, OthersFit, InFrame
<1>2. ASSUME NEW result, Fail(result), UNCHANGED owned
      PROVE  Invariant' /\ NextIsObservable
  BY <1>1, <1>2, FrameFails DEF owned
<1>3. PICK camera : camera = Restored(m_Camera, "FollowPed", elapsed)
  OBVIOUS
<1>4. PICK automobile : automobile = [m_Automobile EXCEPT !.Controls = {}, !.Handbrake = TRUE]
  OBVIOUS
<1>5. /\ camera \in Cameras /\ automobile \in Automobiles
      /\ automobile.Driver = m_Automobile.Driver
  BY <1>1, <1>3, <1>4, CameraMoves DEF Automobiles
<1>6. PICK state : state = VehicleState(automobile, TRUE)
  OBVIOUS
<1>7. PICK p : p = Pool!Updated(pool, m_Published.VehicleReference, state)
  OBVIOUS
<1>8. failures = 0 => Pool!Resolves(pool, m_Published.VehicleReference)
  BY <1>1 DEF Invariant, VehicleFits, HoldsVehicle
<1>9. PICK begun : begun = [next EXCEPT !.Phase = "Exiting", !.DriverDoorOpen = FALSE]
  OBVIOUS
<1>10. PICK logged : logged = WithEvent(begun, "ExitRequested")
  OBVIOUS
<1>11. PICK seen : seen = [logged EXCEPT !.Camera = camera, !.Automobile = automobile]
  OBVIOUS
<1>12. PICK shown : shown = WithPool(seen, p)
  OBVIOUS
<1>13. CASE /\ m_Automobile' = automobile /\ Fail("TransitionOutstanding")
            /\ UNCHANGED <<m_Ped, pool, m_Camera>>
  BY <1>1, <1>5, <1>13, FrameFails
<1>14. CASE /\ m_Automobile' = automobile /\ m_Camera' = camera /\ Fail("PoolError")
            /\ ~Pool!Resolves(pool, m_Published.VehicleReference)
            /\ UNCHANGED <<m_Ped, pool>>
  BY <1>1, <1>5, <1>8, <1>14, FrameFails
<1>15. CASE /\ m_Automobile' = automobile /\ m_Camera' = camera /\ pool' = p
            /\ Pool!Resolves(pool, m_Published.VehicleReference)
            /\ Publish(shown, TRUE) /\ UNCHANGED m_Ped
  <2>1. state \in VehicleStates
    BY <1>5, <1>6, VehicleStateIs
  <2>2. PoolShape(p)
    BY ONLY <1>1, <1>7, <1>15, <2>1, UpdatedPool
  <2>3. /\ begun \in Snapshots /\ begun.Phase = "Exiting" /\ begun.Epoch = next.Epoch
        /\ begun.WorldGeneration = next.WorldGeneration /\ begun.Events = next.Events
        /\ begun.VehicleReference = next.VehicleReference
        /\ begun.PadPressed = next.PadPressed
        /\ begun.InVehicle = next.InVehicle /\ begun.PedInWorld = next.PedInWorld
    BY <1>9 DEF InFrame, Snapshots, Phases
  <2>4. /\ logged \in Snapshots /\ SameCall(begun, logged)
        /\ logged.Events = Append(next.Events, Event("ExitRequested", "Exiting"))
    <3>1. "ExitRequested" \in Kinds /\ m_NextEvent \in Nat
      BY DEF Kinds, InFrame
    <3>2. /\ logged \in Snapshots /\ SameCall(begun, logged)
          /\ logged.Events = Append(begun.Events, Event("ExitRequested", begun.Phase))
      BY ONLY <1>10, <2>3, <3>1, WithEventIs
    <3> QED BY <2>3, <3>2
  <2>5. /\ seen \in Snapshots /\ SameCall([begun EXCEPT !.Automobile = automobile], seen)
        /\ seen.Events = logged.Events
    BY <1>5, <1>11, <2>3, <2>4 DEF Snapshots, SameCall
  <2>6. /\ shown \in Snapshots /\ SameCall([begun EXCEPT !.Automobile = automobile], shown)
        /\ shown.Events = logged.Events /\ shown.PoolRevision = p.revision
        /\ shown.PoolAlive = Cardinality(DOMAIN p.slots)
    BY <1>12, <2>2, <2>5, WithPoolIs DEF SameCall
  <2>7. /\ shown.Epoch = next.Epoch /\ shown.Phase = "Exiting"
        /\ shown.VehicleReference = next.VehicleReference
        /\ shown.WorldGeneration = next.WorldGeneration
        /\ shown.PadPressed = next.PadPressed /\ shown.Automobile = automobile
        /\ shown.InVehicle = next.InVehicle /\ shown.PedInWorld = next.PedInWorld
    BY <2>3, <2>6 DEF SameCall, Snapshots
  <2>8. MayFollow(m_Published, shown, TRUE)
    BY <1>1, <1>5, <2>3, <2>4, <2>6, <2>7, PublishedFits, NoneAssumption
    DEF InFrame, MayFollow, PhaseFits, Phases, Kinds
  <2>9. failures = 0 => HoldsVehicle(pool', shown)
    <3> SUFFICES ASSUME failures = 0
                 PROVE  HoldsVehicle(p, shown)
      BY <1>15
    <3>1. HoldsVehicle(pool, m_Published)
      BY <1>1 DEF Invariant, VehicleFits
    <3>2. /\ shown.VehicleReference = m_Published.VehicleReference
          /\ state = VehicleState(shown.Automobile, TRUE)
          /\ m_Published.Phase # "Destroyed" /\ shown.Phase # "Destroyed"
      BY <1>1, <1>6, <2>7 DEF InFrame
    <3>3. shown.PoolRevision = p.revision /\ shown.PoolAlive = Cardinality(DOMAIN p.slots)
      BY <2>6
    <3>4. PoolShape(pool)
      BY <1>1
    <3>5. p = Pool!Updated(pool, m_Published.VehicleReference, state)
      BY <1>7
    <3>6. state \in VehicleStates
      BY <2>1
    <3> QED BY ONLY <3>1, <3>2, <3>3, <3>4, <3>5, <3>6, UpdatedHolds
  <2>10. CameraFollows(shown)'
    BY <2>7 DEF CameraFollows
  <2> QED
    BY <1>1, <1>5, <1>15, <2>2, <2>6, <2>7, <2>8, <2>9, <2>10, FramePublishes DEF InFrame
<1>16. next.VehicleReference = m_Published.VehicleReference
  BY DEF InFrame
<1> QED
  BY <1>2, <1>3, <1>4, <1>6, <1>7, <1>9, <1>10, <1>11, <1>12, <1>13, <1>14, <1>15, <1>16
  DEF TickExit

LEMMA TickDriveKeeps ==
    ASSUME Invariant, NEW next, InFrame(next), NEW elapsed \in BOOLEAN, NEW place \in Places,
           next.Phase = "Driving", TickDrive(next, place, elapsed)
    PROVE  Invariant' /\ NextIsObservable
<1>1. /\ PoolShape(pool) /\ m_Published # None /\ m_Published.Phase = "Driving"
      /\ m_Automobile \in Automobiles /\ m_Camera \in Cameras
      /\ next.PadButtons \subseteq Buttons
      /\ next.VehicleReference = m_Published.VehicleReference
  BY NoneAssumption DEF Invariant, PartsFit, OthersFit, InFrame, Snapshots
<1>2. PICK camera : camera = Restored(m_Camera, "CamOnAString", elapsed)
  OBVIOUS
<1>3. PICK controlled : controlled = [m_Automobile EXCEPT
          !.Controls = next.PadButtons \ {"Triangle"}, !.Handbrake = FALSE]
  OBVIOUS
<1>4. PICK moved : moved = [controlled EXCEPT !.Position = place]
  OBVIOUS
<1>5. /\ camera \in Cameras /\ camera.Mode = "CamOnAString"
      /\ controlled \in Automobiles /\ controlled.Driver = m_Automobile.Driver
      /\ moved \in Automobiles /\ moved.Driver = m_Automobile.Driver
  BY <1>1, <1>2, <1>3, <1>4, CameraMoves DEF Automobiles
<1>6. PICK state : state = VehicleState(moved, TRUE)
  OBVIOUS
<1>7. state \in VehicleStates
  BY <1>5, <1>6, VehicleStateIs
<1>8. PICK p : p = Pool!Updated(pool, m_Published.VehicleReference, state)
  OBVIOUS
<1>9. failures = 0 => /\ Pool!Resolves(pool, m_Published.VehicleReference)
                      /\ CanRestore(m_Camera, "CamOnAString")
  BY <1>1 DEF Invariant, VehicleFits, HoldsVehicle, CameraFollows, CanRestore
<1>10. PICK logged : logged = WithEvent(next, "Drive")
  OBVIOUS
<1>11. PICK seen : seen = [logged EXCEPT !.Automobile = moved, !.Camera = camera]
  OBVIOUS
<1>12. PICK shown : shown = WithPool(seen, p)
  OBVIOUS
<1>13. ASSUME NEW result, Fail(result), m_Automobile' \in {m_Automobile, controlled},
              UNCHANGED <<m_Ped, pool, m_Camera>>
       PROVE  Invariant' /\ NextIsObservable
  BY <1>1, <1>5, <1>13, FrameFails
<1>14. CASE /\ m_Automobile' = moved /\ Fail("PoolError")
            /\ ~Pool!Resolves(pool, m_Published.VehicleReference)
            /\ UNCHANGED <<m_Ped, pool, m_Camera>>
  BY <1>1, <1>5, <1>14, FrameFails
<1>15. Pool!Resolves(pool, m_Published.VehicleReference) => PoolShape(p)
  BY ONLY <1>1, <1>7, <1>8, UpdatedPool
<1>16. CASE /\ m_Automobile' = moved /\ pool' = p /\ Fail("TransitionOutstanding")
            /\ Pool!Resolves(pool, m_Published.VehicleReference)
            /\ ~CanRestore(m_Camera, "CamOnAString")
            /\ UNCHANGED <<m_Ped, m_Camera>>
  BY <1>1, <1>5, <1>9, <1>15, <1>16, FrameFails
<1>17. CASE /\ m_Automobile' = moved /\ pool' = p /\ m_Camera' = camera
            /\ Pool!Resolves(pool, m_Published.VehicleReference)
            /\ Publish(shown, TRUE) /\ UNCHANGED m_Ped
  <2>1. /\ logged \in Snapshots /\ SameCall(next, logged)
        /\ logged.Events = Append(next.Events, Event("Drive", "Driving"))
    BY <1>10, WithEventIs DEF InFrame, Kinds
  <2>2. /\ seen \in Snapshots /\ SameCall([next EXCEPT !.Automobile = moved], seen)
        /\ seen.Events = logged.Events
    BY <1>5, <1>11, <2>1 DEF InFrame, Snapshots, SameCall
  <2>3. /\ shown \in Snapshots /\ SameCall([next EXCEPT !.Automobile = moved], shown)
        /\ shown.Events = logged.Events /\ shown.PoolRevision = p.revision
        /\ shown.PoolAlive = Cardinality(DOMAIN p.slots)
    BY <1>12, <1>15, <1>17, <2>2, WithPoolIs DEF SameCall
  <2>4. /\ shown.Epoch = next.Epoch /\ shown.Phase = "Driving"
        /\ shown.VehicleReference = next.VehicleReference
        /\ shown.WorldGeneration = next.WorldGeneration /\ shown.Automobile = moved
        /\ shown.InVehicle = next.InVehicle /\ shown.PedInWorld = next.PedInWorld
    BY <2>3 DEF SameCall, InFrame, Snapshots
  <2>5. MayFollow(m_Published, shown, TRUE)
    BY <1>1, <1>5, <2>1, <2>3, <2>4, PublishedFits, NoneAssumption
    DEF InFrame, MayFollow, PhaseFits, Phases, Kinds
  <2>6. failures = 0 => HoldsVehicle(pool', shown)
    <3> SUFFICES ASSUME failures = 0
                 PROVE  HoldsVehicle(p, shown)
      BY <1>17
    <3>1. HoldsVehicle(pool, m_Published)
      BY <1>1 DEF Invariant, VehicleFits
    <3>2. /\ shown.VehicleReference = m_Published.VehicleReference
          /\ state = VehicleState(shown.Automobile, TRUE)
          /\ m_Published.Phase # "Destroyed" /\ shown.Phase # "Destroyed"
      BY <1>1, <1>6, <2>4
    <3>3. shown.PoolRevision = p.revision /\ shown.PoolAlive = Cardinality(DOMAIN p.slots)
      BY <2>3
    <3>4. PoolShape(pool)
      BY <1>1
    <3>5. p = Pool!Updated(pool, m_Published.VehicleReference, state)
      BY <1>8
    <3>6. state \in VehicleStates
      BY <1>7
    <3> QED BY ONLY <3>1, <3>2, <3>3, <3>4, <3>5, <3>6, UpdatedHolds
  <2>7. CameraFollows(shown)'
    BY <1>5, <1>17 DEF CameraFollows
  <2> QED
    BY <1>5, <1>15, <1>17, <2>3, <2>4, <2>5, <2>6, <2>7, FramePublishes DEF InFrame
<1> QED
  BY <1>1, <1>2, <1>3, <1>4, <1>6, <1>8, <1>10, <1>11, <1>12, <1>13, <1>14, <1>16, <1>17
  DEF TickDrive

LEMMA TickIdleKeeps ==
    ASSUME Invariant, NEW next, InFrame(next), NEW elapsed \in BOOLEAN,
           next.Phase # "Driving", TickIdle(next, elapsed)
    PROVE  Invariant' /\ NextIsObservable
<1>1. /\ PoolShape(pool) /\ m_Published # None /\ m_Camera \in Cameras
      /\ m_Automobile \in Automobiles
  BY NoneAssumption DEF Invariant, PartsFit, OthersFit, InFrame
<1>2. PICK camera : camera = Advanced(m_Camera, elapsed)
  OBVIOUS
<1>3. camera \in Cameras /\ camera.Mode = m_Camera.Mode
  BY <1>1, <1>2, CameraMoves
<1>4. PICK seen : seen = [next EXCEPT !.Camera = camera]
  OBVIOUS
<1>5. seen \in Snapshots /\ SameCall(next, seen) /\ seen.Events = next.Events
  BY <1>3, <1>4 DEF InFrame, Snapshots, SameCall
<1>6. PICK shown : shown = WithPool(seen, pool)
  OBVIOUS
<1>7. /\ shown \in Snapshots /\ SameCall(next, shown) /\ shown.Events = next.Events
      /\ shown.PoolRevision = pool.revision
      /\ shown.PoolAlive = Cardinality(DOMAIN pool.slots)
  BY <1>1, <1>5, <1>6, WithPoolIs DEF SameCall
<1>8. m_Camera' = camera /\ Publish(shown, FALSE) /\ UNCHANGED <<pool, m_Automobile, m_Ped>>
  BY <1>2, <1>4, <1>6 DEF TickIdle
<1>9. MayFollow(m_Published, shown, FALSE)
  BY <1>1, <1>7, PublishedFits DEF InFrame, MayFollow, SameCall, PhaseFits
<1>10. failures = 0 => HoldsVehicle(pool', shown)
  BY <1>1, <1>7, <1>8, StillHolds DEF Invariant, VehicleFits, InFrame, SameCall
<1>11. failures = 0 => CameraFollows(shown)'
  BY <1>1, <1>3, <1>7, <1>8 DEF Invariant, VehicleFits, CameraFollows, InFrame, SameCall
<1> QED
  BY <1>1, <1>3, <1>7, <1>8, <1>9, <1>10, <1>11, FramePublishes DEF InFrame, SameCall

LEMMA FrameKeeps ==
    ASSUME Invariant, NEW down \in SUBSET Buttons, NEW place \in Places,
           NEW elapsed \in BOOLEAN, Frame(down, place, elapsed)
    PROVE  Invariant' /\ NextIsObservable
<1>1. PICK pressed : pressed = down \ pad
  OBVIOUS
<1>2. PICK next : next = [m_Published EXCEPT !.PadButtons = down, !.PadPressed = pressed]
  OBVIOUS
<1>3. Loaded /\ pad' = down /\ UNCHANGED <<m_PedWorld, pedWorlds, m_NextEpoch>>
  BY DEF Frame
<1>4. InFrame(next) /\ next.PadPressed = pressed
  <2>1. pressed \in SUBSET Buttons
    BY <1>1
  <2>2. /\ m_Published \in Snapshots /\ m_Automobile \in Automobiles
        /\ m_Camera \in Cameras /\ m_NextEvent \in Nat
        /\ m_Published.WorldGeneration = m_PedWorld
    BY <1>3 DEF Invariant, PartsFit, OthersFit, Loaded
  <2> QED BY <1>2, <1>3, <2>1, <2>2 DEF Snapshots, InFrame
<1>5. /\ PoolShape(pool) /\ m_Camera \in Cameras /\ m_Automobile \in Automobiles
      /\ next.Phase = m_Published.Phase
  BY <1>4 DEF Invariant, PartsFit, OthersFit, InFrame
<1>6. ASSUME Fail("InvalidInput"), UNCHANGED owned
      PROVE  Invariant' /\ NextIsObservable
  BY <1>4, <1>5, <1>6, FrameFails DEF owned
<1> QED
  BY <1>1, <1>2, <1>4, <1>5, <1>6, TickEnterKeeps, TickExitKeeps, TickDriveKeeps, TickIdleKeeps
  DEF Frame

-----------------------------------------------------------------------------
(* The other calls                                                         *)

\* The lifecycle has a snapshot, and what it is made of fits
LEMMA CallsFit ==
    ASSUME Invariant, m_Published # None
    PROVE  /\ PoolShape(pool) /\ m_Published \in Snapshots /\ PhaseFits(m_Published)
           /\ m_PedWorld \in Worlds /\ m_Published.WorldGeneration = m_PedWorld
           /\ m_NextEvent \in Nat /\ pedWorlds \in [Worlds -> Places \cup {Absent}]
           /\ m_Automobile # None => m_Automobile \in Automobiles /\ m_Camera \in Cameras
           /\ failures = 0 => /\ HoldsVehicle(pool, m_Published)
                              /\ CameraFollows(m_Published) /\ PlacesAgree
<1>1. /\ m_Published \in Snapshots /\ m_Published.WorldGeneration = m_PedWorld
      /\ m_NextEvent \in Nat /\ OthersFit
  BY DEF Invariant, PartsFit
<1>2. m_PedWorld \in Worlds
  BY <1>1 DEF Snapshots
<1>3. /\ PoolShape(pool) /\ pedWorlds \in [Worlds -> Places \cup {Absent}]
      /\ m_Automobile # None => m_Automobile \in Automobiles /\ m_Camera \in Cameras
  BY <1>1 DEF OthersFit
<1> QED BY <1>1, <1>2, <1>3, PublishedFits DEF Invariant, VehicleFits, PedFits

LEMMA ReportDriverDoorKeeps ==
    ASSUME Invariant, NEW open \in BOOLEAN, ReportDriverDoor(open)
    PROVE  Invariant' /\ NextIsObservable
<1>1. PICK begun : begun = [m_Published EXCEPT !.DriverDoorOpen = open]
  OBVIOUS
<1>2. PICK kind : kind = IF open THEN "DoorOpened" ELSE "DoorClosed"
  OBVIOUS
<1>3. PICK shown : shown = WithEvent(begun, kind)
  OBVIOUS
<1>4. /\ m_Published # None /\ m_Automobile # None
      /\ m_Published.Phase \in {"Entering", "Exiting"}
      /\ Publish(shown, TRUE)
      /\ UNCHANGED <<pool, m_Automobile, m_Camera, m_Ped, m_PedWorld, pedWorlds, m_NextEpoch,
                     pad>>
  BY <1>1, <1>2, <1>3 DEF ReportDriverDoor, InTask, Loaded, owned
<1>5. /\ begun \in Snapshots /\ SameCall(m_Published, begun)
      /\ begun.Events = m_Published.Events /\ begun.Phase \in Phases
      /\ begun.PoolRevision = m_Published.PoolRevision
      /\ begun.PoolAlive = m_Published.PoolAlive
  BY <1>1, <1>4, CallsFit DEF Snapshots, SameCall
<1>6. /\ shown \in Snapshots /\ SameCall(m_Published, shown)
      /\ shown.Events = Append(m_Published.Events, Event(kind, begun.Phase))
      /\ shown.PoolRevision = m_Published.PoolRevision
      /\ shown.PoolAlive = m_Published.PoolAlive
  <2>1. kind \in Kinds
    BY <1>2 DEF Kinds
  <2>2. m_NextEvent \in Nat
    BY <1>4, CallsFit
  <2>3. /\ shown \in Snapshots /\ SameCall(begun, shown)
        /\ shown.Events = Append(begun.Events, Event(kind, begun.Phase))
    BY <1>3, <1>5, <2>1, <2>2, WithEventIs
  <2>4. shown.PoolRevision = begun.PoolRevision /\ shown.PoolAlive = begun.PoolAlive
    BY <1>3, <1>5 DEF WithEvent, Snapshots
  <2> QED BY <1>5, <2>3, <2>4 DEF SameCall
<1>7. MayFollow(m_Published, shown, TRUE)
  BY <1>2, <1>4, <1>5, <1>6, CallsFit DEF MayFollow, SameCall, PhaseFits, Kinds
<1>8. OthersFit'
  BY <1>4 DEF Invariant, PartsFit, OthersFit
<1>9. ASSUME failures = 0
      PROVE  HoldsVehicle(pool', shown) /\ CameraFollows(shown)'
  BY <1>4, <1>6, <1>9, CallsFit DEF SameCall, HoldsVehicle, CameraFollows
<1>10. failures = 0 /\ m_Published' = shown => PlacesAgree'
  BY <1>4, <1>6, DriverStays, NoneAssumption DEF SameCall
<1> QED BY <1>4, <1>6, <1>7, <1>8, <1>9, <1>10, CallsFit, CallPublishes DEF SameCall

LEMMA CompleteEntryKeeps ==
    ASSUME Invariant, CompleteEntry
    PROVE  Invariant' /\ NextIsObservable
<1>1. PICK automobile :
          automobile = [m_Automobile EXCEPT !.Driver = TRUE, !.Status = "Player"]
  OBVIOUS
<1>2. PICK state : state = VehicleState(automobile, TRUE)
  OBVIOUS
<1>3. PICK p : p = Pool!Updated(pool, m_Published.VehicleReference, state)
  OBVIOUS
<1>4. PICK seated : seated = [m_Published EXCEPT !.Phase = "Driving", !.PedInWorld = FALSE,
                                  !.InVehicle = TRUE, !.Automobile = automobile]
  OBVIOUS
<1>5. PICK logged : logged = WithEvent(seated, "DriverAttached")
  OBVIOUS
<1>6. PICK shown : shown = WithPool(logged, p)
  OBVIOUS
<1>7. /\ m_Published # None /\ m_Automobile # None /\ m_Published.Phase = "Entering"
      /\ UNCHANGED <<m_Camera, m_Ped, m_PedWorld, m_NextEpoch, pad>>
  BY DEF CompleteEntry, InTask, Loaded, owned
<1>8. /\ PoolShape(pool) /\ m_Published \in Snapshots
      /\ m_Automobile \in Automobiles /\ m_Camera \in Cameras /\ m_PedWorld \in Worlds
      /\ pedWorlds \in [Worlds -> Places \cup {Absent}] /\ m_NextEvent \in Nat
      /\ m_Published.WorldGeneration = m_PedWorld
  BY <1>7, CallsFit
<1>9. automobile \in Automobiles /\ automobile.Driver /\ automobile # None
  BY <1>1, <1>8, NoneAssumption DEF Automobiles
<1>10. CASE Fail("InvalidPhase") /\ UNCHANGED <<owned, pedWorlds>>
  <2>1. OthersFit'
    BY <1>7, <1>10 DEF Invariant, PartsFit, OthersFit, owned
  <2>2. failures = 0 => PlacesAgree'
    BY <1>7, <1>10, DriverStays DEF Fail, owned
  <2> QED BY <1>7, <1>10, <2>1, <2>2, CallFails DEF owned
<1>11. CASE /\ m_Automobile' = automobile
            /\ pedWorlds' = [pedWorlds EXCEPT ![m_PedWorld] = Absent]
            /\ ~Pool!Resolves(pool, m_Published.VehicleReference)
            /\ Fail("PoolError") /\ UNCHANGED pool
  <2>1. OthersFit'
    BY <1>7, <1>8, <1>9, <1>11, NoneAssumption DEF Invariant, PartsFit, OthersFit
  <2>2. failures # 0
    BY <1>7, <1>11, CallsFit DEF HoldsVehicle
  <2> QED BY <1>7, <1>11, <2>1, <2>2, CallFails
<1>12. CASE /\ m_Automobile' = automobile
            /\ pedWorlds' = [pedWorlds EXCEPT ![m_PedWorld] = Absent]
            /\ Pool!Resolves(pool, m_Published.VehicleReference)
            /\ pool' = p /\ Publish(shown, TRUE)
  <2>1. state \in VehicleStates
    BY <1>2, <1>9, VehicleStateIs
  <2>2. PoolShape(p)
    BY ONLY <1>3, <1>8, <1>12, <2>1, UpdatedPool
  <2>3. /\ seated \in Snapshots /\ seated.Epoch = m_Published.Epoch
        /\ seated.WorldGeneration = m_PedWorld /\ seated.Phase = "Driving"
        /\ seated.VehicleReference = m_Published.VehicleReference
        /\ ~seated.PedInWorld /\ seated.InVehicle /\ seated.Automobile = automobile
        /\ seated.Events = m_Published.Events
    BY <1>4, <1>8, <1>9 DEF Snapshots, Phases
  <2>4. /\ logged \in Snapshots /\ SameCall(seated, logged)
        /\ logged.Events = Append(m_Published.Events, Event("DriverAttached", "Driving"))
    <3>1. "DriverAttached" \in Kinds
      BY DEF Kinds
    <3>2. /\ logged \in Snapshots /\ SameCall(seated, logged)
          /\ logged.Events = Append(seated.Events, Event("DriverAttached", seated.Phase))
      BY <1>5, <1>8, <2>3, <3>1, WithEventIs
    <3> QED BY <2>3, <3>2
  <2>5. /\ shown \in Snapshots /\ SameCall(seated, shown) /\ shown.Events = logged.Events
        /\ shown.PoolRevision = p.revision
        /\ shown.PoolAlive = Cardinality(DOMAIN p.slots)
    BY <1>6, <2>2, <2>4, WithPoolIs DEF SameCall
  <2>6. MayFollow(m_Published, shown, TRUE)
    BY <1>9, <2>3, <2>4, <2>5 DEF MayFollow, SameCall, PhaseFits, Phases, Kinds
  <2>7. OthersFit'
    BY <1>7, <1>8, <1>9, <1>12, <2>2, NoneAssumption DEF Invariant, PartsFit, OthersFit
  <2>8. ASSUME failures = 0
        PROVE  HoldsVehicle(p, shown)
    <3>1. HoldsVehicle(pool, m_Published)
      BY <1>7, <2>8, CallsFit
    <3>2. /\ shown.VehicleReference = m_Published.VehicleReference
          /\ state = VehicleState(shown.Automobile, TRUE)
          /\ m_Published.Phase # "Destroyed" /\ shown.Phase # "Destroyed"
      BY <1>2, <1>7, <2>3, <2>5 DEF SameCall
    <3>3. shown.PoolRevision = p.revision /\ shown.PoolAlive = Cardinality(DOMAIN p.slots)
      BY <2>5
    <3>4. PoolShape(pool)
      BY <1>8
    <3> QED BY ONLY <1>3, <2>1, <3>1, <3>2, <3>3, <3>4, UpdatedHolds
  <2>9. failures = 0 => CameraFollows(shown)'
    BY <1>7, CallsFit DEF CameraFollows
  <2>10. ASSUME failures = 0, m_Published' = shown
         PROVE  PlacesAgree'
    <3>1. {w \in m_PedWorld..MaxWorld : pedWorlds[w] # Absent} = {m_PedWorld}
      BY <1>7, <2>10, CallsFit DEF PlacesAgree
    <3>2. {w \in m_PedWorld..MaxWorld : pedWorlds'[w] # Absent} = {}
      BY <1>8, <1>12, <3>1 DEF Worlds
    <3>3. m_Published'.Phase = "Driving"
      BY <2>3, <2>5, <2>10 DEF SameCall
    <3> QED BY <1>7, <1>9, <1>12, <3>2, <3>3 DEF PlacesAgree
  <2> QED
    BY <1>7, <1>12, <2>3, <2>5, <2>6, <2>7, <2>8, <2>9, <2>10, CallPublishes DEF SameCall
<1> QED
  BY <1>1, <1>2, <1>3, <1>4, <1>5, <1>6, <1>10, <1>11, <1>12 DEF CompleteEntry

LEMMA CompleteExitKeeps ==
    ASSUME Invariant, NEW place \in Places, CompleteExit(place)
    PROVE  Invariant' /\ NextIsObservable
<1>1. PICK abandoned : abandoned = [m_Automobile EXCEPT !.Status = "Abandoned"]
  OBVIOUS
<1>2. PICK empty : empty = [abandoned EXCEPT !.Driver = FALSE]
  OBVIOUS
<1>3. PICK state : state = VehicleState(empty, TRUE)
  OBVIOUS
<1>4. PICK p : p = Pool!Updated(pool, m_Published.VehicleReference, state)
  OBVIOUS
<1>5. PICK standing : standing = [m_Published EXCEPT !.Phase = "OnFoot", !.PedInWorld = TRUE,
                                      !.InVehicle = FALSE, !.PedPosition = place,
                                      !.Automobile = empty]
  OBVIOUS
<1>6. PICK logged : logged = WithEvent(standing, "DriverDetached")
  OBVIOUS
<1>7. PICK shown : shown = WithPool(logged, p)
  OBVIOUS
<1>8. /\ m_Published # None /\ m_Automobile # None /\ m_Published.Phase = "Exiting"
      /\ UNCHANGED <<m_Camera, m_PedWorld, m_NextEpoch, pad>>
  BY DEF CompleteExit, InTask, Loaded
<1>9. /\ PoolShape(pool) /\ m_Published \in Snapshots
      /\ m_Automobile \in Automobiles /\ m_Camera \in Cameras /\ m_PedWorld \in Worlds
      /\ pedWorlds \in [Worlds -> Places \cup {Absent}] /\ m_NextEvent \in Nat
      /\ m_Published.WorldGeneration = m_PedWorld
  BY <1>8, CallsFit
<1>10. /\ abandoned \in Automobiles /\ empty \in Automobiles /\ ~empty.Driver
       /\ empty # None /\ abandoned # None /\ place # Absent
  <2>1. abandoned \in Automobiles /\ empty \in Automobiles /\ ~empty.Driver
    BY <1>1, <1>2, <1>9 DEF Automobiles
  <2> QED BY <2>1, NoneAssumption, LifecycleAssumption
\* In none of these cases can it be that there was always memory
<1>11. ASSUME NEW result, Fail(result), failures # 0, UNCHANGED pool,
              m_Automobile' \in {abandoned, empty}, m_Ped' \in {m_Ped, place},
              pedWorlds' \in {pedWorlds, [pedWorlds EXCEPT ![m_PedWorld] = place]}
       PROVE  Invariant' /\ NextIsObservable
  <2>1. m_Automobile' \in Automobiles /\ m_Automobile' # None
    BY <1>10, <1>11
  <2>2. pedWorlds' \in [Worlds -> Places \cup {Absent}]
    BY <1>9, <1>11
  <2>3. OthersFit'
    BY <1>8, <1>9, <1>11, <2>1, <2>2, NoneAssumption DEF Invariant, PartsFit, OthersFit
  <2> QED BY <1>8, <1>11, <2>3, CallFails
<1>12. CASE ~m_Automobile.Driver
  <2>1. failures # 0
    BY <1>8, <1>12, CallsFit DEF PlacesAgree
  <2> QED BY <1>1, <1>11, <1>12, <2>1 DEF CompleteExit
<1>13. CASE /\ m_Automobile.Driver /\ pedWorlds[m_PedWorld] # Absent
            /\ m_Automobile' = empty /\ m_Ped' = place
            /\ Fail("InvalidPhase") /\ UNCHANGED <<pool, pedWorlds>>
  <2>1. ASSUME failures = 0
        PROVE  FALSE
    <3>1. {w \in m_PedWorld..MaxWorld : pedWorlds[w] # Absent} = {}
      BY <1>8, <2>1, CallsFit DEF PlacesAgree
    <3>2. m_PedWorld \in m_PedWorld..MaxWorld
      BY <1>9, LifecycleAssumption DEF Worlds
    <3> QED BY <1>13, <3>1, <3>2
  <2> QED BY <1>11, <1>13, <2>1
<1>14. CASE /\ ~Pool!Resolves(pool, m_Published.VehicleReference)
            /\ m_Automobile' = empty /\ m_Ped' = place
            /\ pedWorlds' = [pedWorlds EXCEPT ![m_PedWorld] = place]
            /\ Fail("PoolError") /\ UNCHANGED pool
  <2>1. failures # 0
    BY <1>8, <1>14, CallsFit DEF HoldsVehicle
  <2> QED BY <1>11, <1>14, <2>1
<1>15. CASE /\ Pool!Resolves(pool, m_Published.VehicleReference)
            /\ m_Automobile' = empty /\ m_Ped' = place
            /\ pedWorlds' = [pedWorlds EXCEPT ![m_PedWorld] = place]
            /\ pedWorlds[m_PedWorld] = Absent
            /\ pool' = p /\ Publish(shown, TRUE)
  <2>1. state \in VehicleStates
    BY <1>3, <1>10, VehicleStateIs
  <2>2. PoolShape(p)
    BY ONLY <1>4, <1>9, <1>15, <2>1, UpdatedPool
  <2>3. /\ standing \in Snapshots /\ standing.Epoch = m_Published.Epoch
        /\ standing.WorldGeneration = m_PedWorld /\ standing.Phase = "OnFoot"
        /\ standing.VehicleReference = m_Published.VehicleReference
        /\ standing.PedInWorld /\ ~standing.InVehicle /\ standing.Automobile = empty
        /\ standing.Events = m_Published.Events
    BY <1>5, <1>9, <1>10 DEF Snapshots, Phases
  <2>4. /\ logged \in Snapshots /\ SameCall(standing, logged)
        /\ logged.Events = Append(m_Published.Events, Event("DriverDetached", "OnFoot"))
    <3>1. "DriverDetached" \in Kinds
      BY DEF Kinds
    <3>2. /\ logged \in Snapshots /\ SameCall(standing, logged)
          /\ logged.Events = Append(standing.Events, Event("DriverDetached", standing.Phase))
      BY <1>6, <1>9, <2>3, <3>1, WithEventIs
    <3> QED BY <2>3, <3>2
  <2>5. /\ shown \in Snapshots /\ SameCall(standing, shown) /\ shown.Events = logged.Events
        /\ shown.PoolRevision = p.revision
        /\ shown.PoolAlive = Cardinality(DOMAIN p.slots)
    BY <1>7, <2>2, <2>4, WithPoolIs DEF SameCall
  <2>6. MayFollow(m_Published, shown, TRUE)
    BY <1>10, <2>3, <2>4, <2>5 DEF MayFollow, SameCall, PhaseFits, Phases, Kinds
  <2>7. OthersFit'
    BY <1>8, <1>9, <1>10, <1>15, <2>2, NoneAssumption DEF Invariant, PartsFit, OthersFit
  <2>8. ASSUME failures = 0
        PROVE  HoldsVehicle(p, shown)
    <3>1. HoldsVehicle(pool, m_Published)
      BY <1>8, <2>8, CallsFit
    <3>2. /\ shown.VehicleReference = m_Published.VehicleReference
          /\ state = VehicleState(shown.Automobile, TRUE)
          /\ m_Published.Phase # "Destroyed" /\ shown.Phase # "Destroyed"
      BY <1>3, <1>8, <2>3, <2>5 DEF SameCall
    <3>3. shown.PoolRevision = p.revision /\ shown.PoolAlive = Cardinality(DOMAIN p.slots)
      BY <2>5
    <3>4. PoolShape(pool)
      BY <1>9
    <3> QED BY ONLY <1>4, <2>1, <3>1, <3>2, <3>3, <3>4, UpdatedHolds
  <2>9. CameraFollows(shown)'
    BY <2>3, <2>5 DEF CameraFollows, SameCall
  <2>10. ASSUME failures = 0, m_Published' = shown
         PROVE  PlacesAgree'
    <3>1. {w \in m_PedWorld..MaxWorld : pedWorlds[w] # Absent} = {}
      BY <1>8, <2>10, CallsFit DEF PlacesAgree
    <3>2. {w \in m_PedWorld..MaxWorld : pedWorlds'[w] # Absent} = {m_PedWorld}
      BY <1>9, <1>10, <1>15, <3>1, LifecycleAssumption DEF Worlds
    <3>3. m_Published'.Phase = "OnFoot"
      BY <2>3, <2>5, <2>10 DEF SameCall
    <3> QED BY <1>8, <1>10, <1>15, <3>2, <3>3 DEF PlacesAgree
  <2> QED
    BY <1>8, <1>15, <2>3, <2>5, <2>6, <2>7, <2>8, <2>9, <2>10, CallPublishes DEF SameCall
<1> QED
  BY <1>1, <1>2, <1>3, <1>4, <1>5, <1>6, <1>7, <1>12, <1>13, <1>14, <1>15 DEF CompleteExit

LEMMA DestroyKeeps ==
    ASSUME Invariant, Destroy
    PROVE  Invariant' /\ NextIsObservable
<1>1. PICK reference : reference = m_Published.VehicleReference
  OBVIOUS
<1>2. PICK state : state = VehicleState(m_Automobile, FALSE)
  OBVIOUS
<1>3. PICK p : p = Pool!Updated(pool, reference, state)
  OBVIOUS
<1>4. PICK q : q = Pool!Released(p, reference)
  OBVIOUS
<1>5. PICK gone : gone = [m_Published EXCEPT !.Phase = "Destroyed",
                              !.Automobile = m_Automobile]
  OBVIOUS
<1>6. PICK logged : logged = WithEvent(gone, "Destroyed")
  OBVIOUS
<1>7. PICK shown : shown = WithPool(logged, q)
  OBVIOUS
<1>8. /\ m_Published # None /\ m_Automobile # None
      /\ m_Published.Phase = "OnFoot" /\ ~m_Automobile.Driver
      /\ UNCHANGED <<m_Camera, m_Ped, m_PedWorld, pedWorlds, m_NextEpoch, pad>>
  BY DEF Destroy, Loaded
<1>9. /\ PoolShape(pool) /\ m_Published \in Snapshots
      /\ m_Automobile \in Automobiles /\ m_Camera \in Cameras
      /\ m_Published.WorldGeneration = m_PedWorld /\ m_NextEvent \in Nat
  BY <1>8, CallsFit
<1>10. CASE /\ ~Pool!Resolves(pool, reference)
            /\ Fail("PoolError") /\ UNCHANGED <<pool, m_Automobile>>
  <2>1. OthersFit'
    BY <1>8, <1>10 DEF Invariant, PartsFit, OthersFit
  <2>2. failures # 0
    BY <1>1, <1>8, <1>10, CallsFit DEF HoldsVehicle
  <2> QED BY <1>8, <1>10, <2>1, <2>2, CallFails
<1>11. CASE /\ Pool!Resolves(pool, reference) /\ pool' = q /\ Publish(shown, TRUE)
            /\ m_Automobile' = IF status' = "Ok" THEN None ELSE m_Automobile
  <2>1. state \in VehicleStates
    BY <1>2, <1>9, VehicleStateIs
  <2>2. /\ PoolShape(p) /\ DOMAIN p.slots = DOMAIN pool.slots
        /\ Pool!Resolves(p, reference)
    BY ONLY <1>3, <1>9, <1>11, <2>1, UpdatedPool
  <2>3. PoolShape(q) /\ DOMAIN q.slots = DOMAIN pool.slots \ {Pool!SlotOf(reference)}
    BY ONLY <1>4, <2>2, ReleasedPool
  <2>4. /\ gone \in Snapshots /\ gone.Epoch = m_Published.Epoch
        /\ gone.WorldGeneration = m_PedWorld /\ gone.Phase = "Destroyed"
        /\ gone.VehicleReference = reference /\ gone.Events = m_Published.Events
    BY <1>1, <1>5, <1>9 DEF Snapshots, Phases
  <2>5. /\ logged \in Snapshots /\ SameCall(gone, logged)
        /\ logged.Events = Append(m_Published.Events, Event("Destroyed", "Destroyed"))
    <3>1. "Destroyed" \in Kinds
      BY DEF Kinds
    <3>2. /\ logged \in Snapshots /\ SameCall(gone, logged)
          /\ logged.Events = Append(gone.Events, Event("Destroyed", gone.Phase))
      BY <1>6, <1>9, <2>4, <3>1, WithEventIs
    <3> QED BY <2>4, <3>2
  <2>6. /\ shown \in Snapshots /\ SameCall(gone, shown) /\ shown.Events = logged.Events
        /\ shown.PoolRevision = q.revision
        /\ shown.PoolAlive = Cardinality(DOMAIN q.slots)
    <3>1. logged \in Snapshots /\ PoolShape(q)
      BY <2>3, <2>5
    <3>2. /\ shown \in Snapshots /\ SameCall(logged, shown) /\ shown.Events = logged.Events
          /\ shown.PoolRevision = q.revision
          /\ shown.PoolAlive = Cardinality(DOMAIN q.slots)
      BY ONLY <1>7, <3>1, WithPoolIs
    <3> QED BY <2>5, <3>2 DEF SameCall
  <2>7. MayFollow(m_Published, shown, TRUE)
    BY <1>1, <2>4, <2>5, <2>6 DEF MayFollow, SameCall, PhaseFits, Phases, Kinds
  <2>8. OthersFit'
    BY <1>8, <1>9, <1>11, <2>3 DEF Invariant, PartsFit, OthersFit
  <2>9. ASSUME failures = 0
        PROVE  HoldsVehicle(q, shown)
    <3>1. DOMAIN pool.slots = {Pool!SlotOf(reference)}
      BY <1>1, <1>8, <2>9, CallsFit DEF HoldsVehicle
    <3>2. DOMAIN q.slots = {} /\ Cardinality({}) = 0
      BY <2>3, <3>1, FS_EmptySet
    <3> QED BY <2>4, <2>6, <3>2 DEF HoldsVehicle, SameCall
  <2>10. CameraFollows(shown)'
    BY <2>4, <2>6 DEF CameraFollows, SameCall
  <2>11. ASSUME failures = 0, m_Published' = shown
         PROVE  PlacesAgree'
    <3>1. m_Published'.Phase = "Destroyed"
      BY <2>4, <2>6, <2>11 DEF SameCall
    <3>2. m_Automobile' # None => ~m_Automobile'.Driver
      BY <1>8, <1>11
    <3> QED BY <1>8, <2>11, <3>1, <3>2, CallsFit DEF PlacesAgree
  <2> QED
    BY <1>8, <1>11, <2>4, <2>6, <2>7, <2>8, <2>9, <2>10, <2>11, CallPublishes DEF SameCall
<1> QED BY <1>1, <1>2, <1>3, <1>4, <1>5, <1>6, <1>7, <1>10, <1>11 DEF Destroy

\* A snapshot of another world is another snapshot: whether the migration was
\* published is seen from it
LEMMA EvictWorldDoes ==
    ASSUME Invariant, NEW world \in Worlds, EvictWorld(world)
    PROVE  \E shown :
               /\ MayFollow(m_Published, shown, TRUE) /\ Publish(shown, TRUE)
               /\ shown.WorldGeneration = world /\ shown.Phase = "Destroyed"
               /\ shown # m_Published
               /\ shown.PoolRevision = pool.revision
               /\ shown.PoolAlive = Cardinality(DOMAIN pool.slots)
<1>1. PICK left : left = [m_Published EXCEPT !.WorldGeneration = world, !.Automobile = None]
  OBVIOUS
<1>2. PICK logged : logged = WithEvent(left, "WorldEvicted")
  OBVIOUS
<1>3. PICK shown : shown = WithPool(logged, pool)
  OBVIOUS
<1>4. /\ m_Published # None /\ m_Published.Phase = "Destroyed"
      /\ world > m_Published.WorldGeneration /\ Publish(shown, TRUE)
  BY <1>1, <1>2, <1>3 DEF EvictWorld, InPhase
<1>5. PoolShape(pool) /\ m_Published \in Snapshots /\ m_NextEvent \in Nat
  BY <1>4, CallsFit
<1>6. /\ left \in Snapshots /\ left.Epoch = m_Published.Epoch
      /\ left.WorldGeneration = world /\ left.Phase = "Destroyed"
      /\ left.VehicleReference = m_Published.VehicleReference
      /\ left.Events = m_Published.Events
  BY <1>1, <1>4, <1>5 DEF Snapshots
<1>7. /\ logged \in Snapshots /\ SameCall(left, logged)
      /\ logged.Events = Append(m_Published.Events, Event("WorldEvicted", "Destroyed"))
  <2>1. "WorldEvicted" \in Kinds
    BY DEF Kinds
  <2>2. /\ logged \in Snapshots /\ SameCall(left, logged)
        /\ logged.Events = Append(left.Events, Event("WorldEvicted", left.Phase))
    BY <1>2, <1>5, <1>6, <2>1, WithEventIs
  <2> QED BY <1>6, <2>2
<1>8. /\ shown \in Snapshots /\ SameCall(left, shown) /\ shown.Events = logged.Events
      /\ shown.PoolRevision = pool.revision
      /\ shown.PoolAlive = Cardinality(DOMAIN pool.slots)
  BY <1>3, <1>5, <1>7, WithPoolIs DEF SameCall
<1>9. MayFollow(m_Published, shown, TRUE)
  BY <1>6, <1>7, <1>8 DEF MayFollow, SameCall, PhaseFits, Phases, Kinds
<1>10. shown.WorldGeneration = world /\ shown.Phase = "Destroyed"
  BY <1>6, <1>8 DEF SameCall
<1>11. shown # m_Published
  BY <1>4, <1>5, <1>10 DEF Snapshots, Worlds
<1> QED BY <1>4, <1>8, <1>9, <1>10, <1>11

LEMMA EvictWorldKeeps ==
    ASSUME Invariant, NEW world \in Worlds, EvictWorld(world)
    PROVE  Invariant' /\ NextIsObservable /\ MigrationIsUndone
<1>1. PICK shown :
          /\ MayFollow(m_Published, shown, TRUE) /\ Publish(shown, TRUE)
          /\ shown.WorldGeneration = world /\ shown.Phase = "Destroyed"
          /\ shown # m_Published
          /\ shown.PoolRevision = pool.revision
          /\ shown.PoolAlive = Cardinality(DOMAIN pool.slots)
  BY EvictWorldDoes
<1>2. PICK ped : ped = pedWorlds[m_PedWorld]
  OBVIOUS
<1>3. /\ m_Published # None /\ m_Published.Phase = "Destroyed"
      /\ world > m_Published.WorldGeneration /\ ped # Absent
      /\ IF status' = "Ok"
         THEN /\ pedWorlds' = [pedWorlds EXCEPT ![world] = ped, ![m_PedWorld] = Absent]
              /\ m_PedWorld' = world /\ m_Ped' = ped
         ELSE UNCHANGED <<pedWorlds, m_PedWorld, m_Ped>>
      /\ UNCHANGED <<pool, m_Automobile, m_Camera, m_NextEpoch, pad>>
  BY <1>2 DEF EvictWorld, InPhase
<1>4. /\ m_PedWorld \in Worlds /\ pedWorlds \in [Worlds -> Places \cup {Absent}]
      /\ m_Published.WorldGeneration = m_PedWorld
  BY <1>3, CallsFit
<1>5. m_Published' = shown <=> status' = "Ok"
  BY <1>1 DEF Publish, NoMemory
<1>6. OthersFit'
  <2>1. CASE status' = "Ok"
    <3>1. ped \in Places
      BY <1>2, <1>3, <1>4
    <3>2. pedWorlds' \in [Worlds -> Places \cup {Absent}]
      BY <1>3, <1>4, <2>1, <3>1
    <3>3. m_PedWorld' \in 0..MaxWorld
      BY <1>3, <2>1 DEF Worlds
    <3> QED BY <1>3, <2>1, <3>1, <3>2, <3>3 DEF Invariant, PartsFit, OthersFit
  <2>2. CASE status' # "Ok"
    BY <1>3, <2>2 DEF Invariant, PartsFit, OthersFit
  <2> QED BY <2>1, <2>2
<1>7. failures = 0 => HoldsVehicle(pool', shown)
  BY <1>1, <1>3, CallsFit, FS_EmptySet DEF HoldsVehicle
<1>8. CameraFollows(shown)'
  BY <1>1 DEF CameraFollows
<1>9. ASSUME failures = 0, m_Published' = shown
      PROVE  PlacesAgree'
  <2>1. /\ {w \in m_PedWorld..MaxWorld : pedWorlds[w] # Absent} = {m_PedWorld}
        /\ ~ (m_Automobile # None /\ m_Automobile.Driver)
    BY <1>3, <1>9, CallsFit DEF PlacesAgree
  <2>2. /\ pedWorlds' = [pedWorlds EXCEPT ![world] = ped, ![m_PedWorld] = Absent]
        /\ m_PedWorld' = world
    BY <1>3, <1>5, <1>9
  <2>3. {w \in world..MaxWorld : pedWorlds'[w] # Absent} = {world}
    BY <1>3, <1>4, <2>1, <2>2, LifecycleAssumption DEF Worlds
  <2> QED BY <1>1, <1>3, <1>9, <2>1, <2>2, <2>3 DEF PlacesAgree
<1>10. MigrationIsUndone
  BY <1>1, <1>3, <1>5 DEF MigrationIsUndone
<1> QED BY <1>1, <1>3, <1>5, <1>6, <1>7, <1>8, <1>9, <1>10, CallPublishes

LEMMA SpawnKeeps ==
    ASSUME Invariant, NEW world \in Worlds, NEW ped \in Places, NEW place \in Places,
           Spawn(world, ped, place)
    PROVE  Invariant' /\ NextIsObservable /\ MigrationIsUndone
<1>1. PICK automobile :
          automobile = [Status |-> "Simple", Driver |-> FALSE, Position |-> place,
                        Controls |-> {}, Handbrake |-> FALSE]
  OBVIOUS
<1>2. PICK state : state = VehicleState(automobile, TRUE)
  OBVIOUS
<1>3. PICK p : p = Pool!Allocated(pool, Controller, state)
  OBVIOUS
<1>4. PICK reference : reference = p.events[Len(p.events)].Reference
  OBVIOUS
<1>5. PICK alive : alive = Cardinality(DOMAIN p.slots)
  OBVIOUS
<1>6. PICK first : first = [Sequence |-> 1, Kind |-> "Spawn", Phase |-> "OnFoot"]
  OBVIOUS
<1>7. PICK shown :
          shown = [Epoch |-> m_NextEpoch, WorldGeneration |-> world, Phase |-> "OnFoot",
                   VehicleReference |-> reference,
                   PoolRevision |-> p.revision, PoolAlive |-> alive,
                   PedPosition |-> ped, PedInWorld |-> TRUE, InVehicle |-> FALSE,
                   DriverDoorOpen |-> FALSE, PadButtons |-> {}, PadPressed |-> {},
                   Automobile |-> automobile, Camera |-> InitialCamera,
                   Events |-> <<first>>]
  OBVIOUS
<1>8. /\ m_Published # None => /\ m_Published.Phase = "Destroyed"
                               /\ world >= m_Published.WorldGeneration
      /\ m_NextEpoch <= MaxEpochs
      /\ Pool!CanAllocate(pool, Controller)
      /\ pool' = p /\ m_Automobile' = automobile /\ m_Camera' = InitialCamera
      /\ pedWorlds' = [pedWorlds EXCEPT ![world] = ped]
      /\ \/ /\ m_Published' = shown /\ m_PedWorld' = world /\ m_Ped' = ped
            /\ m_NextEvent' = 2 /\ m_NextEpoch' = m_NextEpoch + 1
            /\ failures' = failures
         \/ /\ failures < MaxFailures /\ failures' = failures + 1
            /\ UNCHANGED <<m_Published, m_NextEvent, m_PedWorld, m_Ped, m_NextEpoch>>
      /\ UNCHANGED pad
  BY <1>1, <1>2, <1>3, <1>4, <1>5, <1>6, <1>7 DEF Spawn, NoMemory
<1>9. /\ PartsFit /\ OthersFit /\ PoolShape(pool) /\ m_NextEpoch \in 1..(MaxEpochs + 1)
      /\ pedWorlds \in [Worlds -> Places \cup {Absent}] /\ failures \in 0..MaxFailures
      /\ MaxFailures \in Nat /\ MaxEpochs \in Nat /\ MaxWorld \in Nat
      /\ m_PedWorld \in 0..MaxWorld
  BY LifecycleAssumption DEF Invariant, PartsFit, OthersFit
<1>10. automobile \in Automobiles /\ InitialCamera \in Cameras /\ ~automobile.Driver
  BY <1>1 DEF Automobiles, InitialCamera, Cameras
<1>11. state \in VehicleStates
  BY <1>2, <1>10, VehicleStateIs
<1>12. /\ PoolShape(p) /\ p.revision = pool.revision + 1 /\ reference \in Nat
       /\ DOMAIN p.slots = DOMAIN pool.slots \cup {Pool!SlotOf(reference)}
       /\ Pool!Resolves(p, reference)
       /\ p.slots[Pool!SlotOf(reference)].State = state
  BY ONLY <1>3, <1>4, <1>8, <1>9, <1>11, AllocatedPool
<1>13. alive \in Nat /\ p.revision \in Nat
  BY <1>5, <1>12, SlotsAreFinite DEF PoolShape
<1>14. shown \in Snapshots /\ shown # None
  <2>1. shown \in Snapshots
    BY <1>6, <1>7, <1>9, <1>10, <1>12, <1>13 DEF Snapshots, Phases, Kinds
  <2> QED BY <2>1, NoneAssumption
<1>15. Begins(shown) /\ Len(shown.Events) = 1
  <2>1. automobile # None
    BY <1>10, NoneAssumption
  <2>2. /\ shown.Events = <<first>> /\ shown.Phase = "OnFoot" /\ ~shown.InVehicle
        /\ shown.PedInWorld /\ shown.Automobile = automobile
    BY <1>7
  <2>3. first.Sequence = 1 /\ first.Kind = "Spawn"
    BY <1>6
  <2> QED BY <2>1, <2>2, <2>3 DEF Begins, Consistent
<1>16. ped # Absent
  BY LifecycleAssumption
<1>17. pool.revision \in Nat /\ pool' # pool
  BY <1>8, <1>9, <1>12 DEF PoolShape
<1>18. OthersFit'
  BY <1>8, <1>9, <1>10, <1>12, NoneAssumption DEF OthersFit, Worlds
<1>19. CASE /\ m_Published' = shown /\ m_PedWorld' = world /\ m_Ped' = ped
            /\ m_NextEvent' = 2 /\ m_NextEpoch' = m_NextEpoch + 1
            /\ failures' = failures
  <2>1. PartsFit'
    <3>1. m_NextEpoch' \in 1..(MaxEpochs + 1) /\ m_NextEvent' \in Nat
      BY <1>8, <1>9, <1>19
    <3>2. shown.WorldGeneration = world
      BY <1>7
    <3> QED BY <1>9, <1>14, <1>18, <1>19, <3>1, <3>2 DEF PartsFit
  <2>2. shown.Epoch = m_NextEpoch
    BY <1>7
  <2>3. JournalFits'
    <3>1. Consistent(m_Published)'
      BY <1>15, <1>19 DEF Begins, Consistent
    <3>2. m_NextEvent' = Len(m_Published'.Events) + 1
      <4>1. m_Published' = shown /\ m_NextEvent' = 2 /\ Len(shown.Events) = 1
        BY <1>15, <1>19
      <4> QED BY ONLY <4>1
    <3>3. m_Published'.Epoch < m_NextEpoch'
      BY <1>9, <1>19, <2>2
    <3> QED BY <3>1, <3>2, <3>3 DEF JournalFits
  <2>4. NextIsObservable
    <3>1. m_Published # None => m_Published.Epoch # shown.Epoch
      BY <1>9, <2>2 DEF Invariant, PartsFit, JournalFits, Snapshots
    <3> QED BY <1>15, <1>19, <3>1 DEF NextIsObservable
  <2>5. ASSUME failures = 0
        PROVE  HoldsVehicle(p, shown)
    <3>1. DOMAIN pool.slots = {}
      BY <1>8, <2>5 DEF Invariant, VehicleFits, HoldsVehicle
    <3>2. alive = 1
      BY <1>5, <1>12, <3>1, FS_Singleton
    <3>3. /\ shown.Phase = "OnFoot" /\ shown.VehicleReference = reference
          /\ shown.PoolRevision = p.revision /\ shown.PoolAlive = alive
          /\ shown.Automobile = automobile
      BY <1>7
    <3> QED BY <1>2, <1>12, <3>1, <3>2, <3>3 DEF HoldsVehicle
  <2>6. VehicleFits'
    <3>1. shown.Phase = "OnFoot"
      BY <1>7
    <3> QED BY <1>8, <1>14, <1>19, <2>5, <3>1 DEF VehicleFits, CameraFollows
  <2>7. ASSUME failures = 0
        PROVE  PlacesAgree'
    <3>1. \A w \in Worlds : w > world => pedWorlds[w] = Absent
      <4>1. CASE m_Published = None
        BY <2>7, <4>1 DEF Invariant, PedFits
      <4>2. CASE m_Published # None
        <5>1. /\ {w \in m_PedWorld..MaxWorld : pedWorlds[w] # Absent} = {m_PedWorld}
              /\ world >= m_PedWorld /\ m_PedWorld \in Worlds
          BY <1>8, <2>7, <4>2, CallsFit DEF PlacesAgree
        <5> QED BY <1>9, <5>1 DEF Worlds
      <4> QED BY <4>1, <4>2
    <3>2. {w \in world..MaxWorld : pedWorlds'[w] # Absent} = {world}
      BY <1>8, <1>9, <1>16, <3>1 DEF Worlds
    <3>3. m_Published'.Phase = "OnFoot"
      BY <1>7, <1>19
    <3> QED BY <1>8, <1>10, <1>19, <3>2, <3>3 DEF PlacesAgree
  <2>8. PedFits'
    BY <1>14, <1>19, <2>7 DEF PedFits
  <2> QED
    BY <1>8, <1>17, <2>1, <2>3, <2>4, <2>6, <2>8 DEF Invariant, MigrationIsUndone
<1>20. CASE /\ failures < MaxFailures /\ failures' = failures + 1
            /\ UNCHANGED <<m_Published, m_NextEvent, m_PedWorld, m_Ped, m_NextEpoch>>
  <2>1. failures' # 0 /\ failures' \in 0..MaxFailures
    BY <1>9, <1>20
  <2>2. PartsFit'
    BY <1>9, <1>18, <1>20, <2>1 DEF PartsFit
  <2>3. JournalFits'
    BY <1>20 DEF Invariant, JournalFits, Consistent
  <2>4. VehicleFits' /\ PedFits'
    BY <2>1 DEF VehicleFits, PedFits
  <2> QED
    BY <1>17, <1>20, <2>2, <2>3, <2>4 DEF Invariant, NextIsObservable, MigrationIsUndone
<1> QED BY <1>8, <1>19, <1>20

LEMMA WalkKeeps ==
    ASSUME Invariant, NEW place \in Places, Walk(place)
    PROVE  Invariant' /\ NextIsObservable /\ MigrationIsUndone
<1>1. /\ m_PedWorld # 0 /\ pedWorlds[m_PedWorld] # Absent
      /\ pedWorlds' = [pedWorlds EXCEPT ![m_PedWorld] = place]
      /\ UNCHANGED <<pool, m_Automobile, m_Camera, m_Ped, m_PedWorld, m_Published,
                     m_NextEvent, m_NextEpoch, pad, failures>>
  BY DEF Walk, owned
<1>2. /\ m_PedWorld \in Worlds /\ pedWorlds \in [Worlds -> Places \cup {Absent}]
      /\ place # Absent
  BY <1>1, LifecycleAssumption DEF Invariant, PartsFit, OthersFit, Worlds
<1>3. \A w \in Worlds : pedWorlds'[w] = Absent <=> pedWorlds[w] = Absent
  BY <1>1, <1>2
<1>4. PartsFit'
  BY <1>1, <1>2 DEF Invariant, PartsFit, OthersFit
<1>5. JournalFits' /\ VehicleFits'
  BY <1>1 DEF Invariant, JournalFits, Consistent, VehicleFits, HoldsVehicle, CameraFollows
<1>6. PedFits'
  <2>1. {w \in m_PedWorld..MaxWorld : pedWorlds'[w] # Absent}
            = {w \in m_PedWorld..MaxWorld : pedWorlds[w] # Absent}
    BY <1>2, <1>3, LifecycleAssumption DEF Worlds
  <2> QED BY <1>1, <1>3, <2>1 DEF Invariant, PedFits, PlacesAgree
<1> QED
  BY <1>1, <1>3, <1>4, <1>5, <1>6 DEF Invariant, NextIsObservable, MigrationIsUndone

-----------------------------------------------------------------------------
(* The theorems                                                            *)

LEMMA InvariantAtFirst == Init => Invariant
<1> SUFFICES ASSUME Init
             PROVE  Invariant
  OBVIOUS
<1>1. PoolShape(pool)
  <2>1. 0 \in 0..(Generations - 1)
    BY LifecycleAssumption
  <2> QED BY <2>1, LifecycleAssumption DEF Init, EmptyPool, Pool!EmptyPool, PoolShape
<1>2. DOMAIN pool.slots = {}
  BY DEF Init, EmptyPool, Pool!EmptyPool
<1>3. PartsFit
  BY <1>1, LifecycleAssumption DEF Init, PartsFit, OthersFit, Worlds
<1> QED
  BY <1>2, <1>3
  DEF Init, Invariant, JournalFits, VehicleFits, PedFits, PlacesAgree, Worlds

\* Every call keeps the invariant, whatever it returns, and contains its failures
LEMMA InvariantKept ==
    ASSUME Invariant, [Next]_vars
    PROVE  Invariant' /\ ((NextIsObservable /\ MigrationIsUndone) \/ UNCHANGED vars)
<1>1. CASE UNCHANGED vars
  <2>1. UNCHANGED <<pool, m_Automobile, m_Camera, m_Ped, m_PedWorld, pedWorlds, m_Published,
                    m_NextEvent, m_NextEpoch, pad, failures>>
    BY <1>1 DEF vars, owned
  <2>2. PartsFit'
    BY <2>1 DEF Invariant, PartsFit, OthersFit
  <2>3. JournalFits' /\ VehicleFits'
    BY <2>1 DEF Invariant, JournalFits, Consistent, VehicleFits, HoldsVehicle, CameraFollows
  <2>4. PedFits'
    BY <2>1 DEF Invariant, PedFits, PlacesAgree
  <2> QED BY <1>1, <2>2, <2>3, <2>4 DEF Invariant
<1>2. ASSUME NEW world \in Worlds, NEW ped \in Places, NEW place \in Places,
             Spawn(world, ped, place)
      PROVE  Invariant' /\ NextIsObservable /\ MigrationIsUndone
  BY <1>2, SpawnKeeps
<1>3. ASSUME NEW down \in SUBSET Buttons, NEW place \in Places, NEW elapsed \in BOOLEAN,
             Frame(down, place, elapsed)
      PROVE  Invariant' /\ NextIsObservable /\ MigrationIsUndone
  BY <1>3, FrameKeeps DEF Frame, MigrationIsUndone
<1>4. ASSUME NEW open \in BOOLEAN, ReportDriverDoor(open)
      PROVE  Invariant' /\ NextIsObservable /\ MigrationIsUndone
  BY <1>4, ReportDriverDoorKeeps DEF ReportDriverDoor, MigrationIsUndone
<1>5. CASE CompleteEntry
  BY <1>5, CompleteEntryKeeps DEF CompleteEntry, MigrationIsUndone, InPhase
<1>6. ASSUME NEW place \in Places, CompleteExit(place)
      PROVE  Invariant' /\ NextIsObservable /\ MigrationIsUndone
  BY <1>6, CompleteExitKeeps DEF CompleteExit, MigrationIsUndone, InPhase
<1>7. CASE Destroy
  BY <1>7, DestroyKeeps DEF Destroy, MigrationIsUndone
<1>8. ASSUME NEW world \in Worlds, EvictWorld(world)
      PROVE  Invariant' /\ NextIsObservable /\ MigrationIsUndone
  BY <1>8, EvictWorldKeeps
<1>9. ASSUME NEW place \in Places, Walk(place)
      PROVE  Invariant' /\ NextIsObservable /\ MigrationIsUndone
  BY <1>9, WalkKeeps
<1> QED
  BY <1>1, <1>2, <1>3, <1>4, <1>5, <1>6, <1>7, <1>8, <1>9 DEF Next, Frames, CompleteTask

(* In every behaviour the parts are what the code takes them for, the      *)
(* journal has no gap, and while there was always memory the ped is in one *)
(* place and the pool has the vehicle the last snapshot shows.             *)
THEOREM InvariantHolds == Spec => []Invariant
<1>1. Invariant /\ [Next]_vars => Invariant'
  BY InvariantKept
<1> QED BY InvariantAtFirst, <1>1, PTL DEF Spec

(* The ped stands in the lifecycle's world or sits at the wheel, as the    *)
(* snapshot says, through every hand-over, as long as there is memory      *)
(* (NativeSourceVehicleLifecycle.cpp:357, :369, :434).                     *)
THEOREM PedStaysInOnePlace == Spec => []PedIsInOnePlace
<1>1. Invariant => PedIsInOnePlace
  BY DEF Invariant, PartsFit, OthersFit, PedFits, PedIsInOnePlace, TypeOK
<1> QED BY InvariantHolds, <1>1, PTL

(* The pool holds the vehicle of the last snapshot and no other, at its    *)
(* place and with its status, while there is memory                        *)
(* (NativeSourceVehicleLifecycle.cpp:279, :374).                           *)
THEOREM PoolAgreesWithSnapshot == Spec => []PoolHoldsTheVehicle
<1>1. Invariant => PoolHoldsTheVehicle
  BY FS_EmptySet, FS_Singleton
  DEF Invariant, VehicleFits, HoldsVehicle, PoolHoldsTheVehicle, Alive
<1> QED BY InvariantHolds, <1>1, PTL

(* Whatever fails, the next publication is one an observer of the last can *)
(* accept, and a migration that is not published leaves the ped's worlds   *)
(* as they were (NativeSourceSliceFeedback.cpp:133,                        *)
(* NativeSourceVehicleLifecycle.cpp:444).                                  *)
THEOREM FailuresStayContained == Spec => FailuresAreContained
<1>1. Invariant /\ [Next]_vars => [NextIsObservable /\ MigrationIsUndone]_vars
  BY InvariantKept
<1> QED BY InvariantHolds, <1>1, PTL DEF Spec, FailuresAreContained
=============================================================================
