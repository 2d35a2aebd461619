----------------------- MODULE NativeVehiclePoolProofs -----------------------
(***************************************************************************)
(* The properties of NativeVehiclePool, for every number of slots,         *)
(* generations, producers and states, and whatever bounds the journal.     *)
(*                                                                         *)
(* Each step is first reduced to what it leaves in the fields of the pool  *)
(* (StepLeaves); the parts of the inductive invariant IInv are then proved *)
(* one by one.  Two of them no run checks: nothing is in the reader's hand *)
(* before the first publication (NoneBeforeTheFirst), and the generation   *)
(* of a slot counts, modulo Generations, how often the slot has been given *)
(* away (GenerationsCount).                                                *)
(***************************************************************************)
EXTENDS NativeVehiclePool, FiniteSetTheorems, WellFoundedInduction, TLAPS

-----------------------------------------------------------------------------
(***************************************************************************)
(* References, free slots, and the journal.                                *)
(***************************************************************************)
(* A reference names its slot.                                             *)
LEMMA ReferenceNamesSlot ==
    ASSUME NEW s \in Nat, NEW g \in 0..255
    PROVE  /\ Reference(s, g) \in Nat
           /\ SlotOf(Reference(s, g)) = s
  BY DEF Reference, SlotOf

(* It names its generation as well.                                        *)
LEMMA ReferenceNamesGeneration ==
    ASSUME NEW s \in Nat, NEW g \in 0..255, NEW h \in 0..255,
           Reference(s, g) = Reference(s, h)
    PROVE  g = h
  BY DEF Reference

(* Allocate finds a slot if there is one.                                  *)
LEMMA FirstFreeIsFree ==
    ASSUME NEW p, FreeSlots(p) # {}
    PROVE  FirstFree(p) \in FreeSlots(p)
<1>1. FreeSlots(p) \subseteq Nat
  BY PoolAssumption DEF FreeSlots, Slots
<1> DEFINE Less == {ss \in Nat \X Nat : ss[1] < ss[2]}
<1>2. IsWellFoundedOn(Less, Nat)
  BY NatLessThanWellFounded DEF OpToRel
<1>3. PICK s \in FreeSlots(p) : \A t \in FreeSlots(p) : ~ (<<t, s>> \in Less)
  <2> HIDE DEF Less
  <2> QED BY <1>1, <1>2, WFMin
<1>4. ASSUME NEW t \in FreeSlots(p) PROVE s <= t
  <2>1. s \in Nat /\ t \in Nat
    BY <1>1
  <2>2. ~ (t < s)
    <3>1. <<t, s>> \in Nat \X Nat /\ <<t, s>>[1] = t /\ <<t, s>>[2] = s
      BY <2>1
    <3> QED
      BY <1>3, <3>1
  <2> QED
    BY <2>1, <2>2
<1> QED
  BY <1>3, <1>4 DEF FirstFree

(* Events of a kind after one more event.                                  *)
LEMMA EventsAfterAppend ==
    ASSUME NEW E, NEW events \in Seq(E), NEW e \in E, NEW kind
    PROVE  {i \in 1..Len(Append(events, e)) : Append(events, e)[i].Kind = kind}
             = {i \in 1..Len(events) : events[i].Kind = kind}
                 \cup (IF e.Kind = kind THEN {Len(events) + 1} ELSE {})
  OBVIOUS

-----------------------------------------------------------------------------
(***************************************************************************)
(* What the calls leave in each field of the pool.                         *)
(***************************************************************************)
Fields == {"slots", "generations", "events", "revision", "owned", "sealed", "publications"}

EventOf(kind, record) ==
    [Kind |-> kind, Reference |-> record.Reference, State |-> record.State]

\* q is p with other slots and generations and one more event, or none
Keeps(p, q) ==
    /\ DOMAIN q = Fields
    /\ q.owned = p.owned
    /\ q.sealed = p.sealed
    /\ q.publications = p.publications

LogsTo(p, event, q) ==
    /\ Keeps(p, q)
    /\ q.events = Append(p.events, event)
    /\ q.revision = p.revision + 1

SlotsWith(slots, slot, record) ==
    [s \in DOMAIN slots \cup {slot} |-> IF s = slot THEN record ELSE slots[s]]
SlotsWithout(slots, slot) == [s \in DOMAIN slots \ {slot} |-> slots[s]]

(* The journal gets one event, the rest of the pool is kept.               *)
LEMMA LoggedFields ==
    ASSUME NEW p, DOMAIN p = Fields, NEW kind, NEW record
    PROVE  /\ LogsTo(p, EventOf(kind, record), Logged(p, kind, record))
           /\ Logged(p, kind, record).slots = p.slots
           /\ Logged(p, kind, record).generations = p.generations
  BY DEF Logged, EventOf, Fields, LogsTo, Keeps

(* One slot gets a record, the rest of the pool is kept.                   *)
LEMMA StoredFields ==
    ASSUME NEW p, DOMAIN p = Fields, NEW slot, NEW record
    PROVE  /\ Keeps(p, Stored(p, slot, record))
           /\ Stored(p, slot, record).slots = SlotsWith(p.slots, slot, record)
           /\ Stored(p, slot, record).generations = p.generations
           /\ Stored(p, slot, record).events = p.events
           /\ Stored(p, slot, record).revision = p.revision
  BY DEF Stored, Fields, Keeps, SlotsWith

AllocatedRecord(p, producer, state) ==
    [Reference |-> Reference(FirstFree(p), (p.generations[FirstFree(p)] + 1) % Generations),
     Producer |-> producer, State |-> state]

(* What Allocate leaves (NativeVehiclePool.cpp:113).                       *)
LEMMA AllocatedFields ==
    ASSUME NEW p, DOMAIN p = Fields, NEW producer, NEW state,
           NEW q, q = Allocated(p, producer, state),
           NEW record, record = AllocatedRecord(p, producer, state)
    PROVE  /\ LogsTo(p, EventOf("Allocated", record), q)
           /\ q.slots = SlotsWith(p.slots, FirstFree(p), record)
           /\ q.generations = [p.generations EXCEPT ![FirstFree(p)] =
                                  (p.generations[FirstFree(p)] + 1) % Generations]
<1>1. PICK r : r = Logged(p, "Allocated", record)
  OBVIOUS
<1>2. PICK t : t = Stored(r, FirstFree(p), record)
  OBVIOUS
<1>3. q = [t EXCEPT !.generations[FirstFree(p)] =
              (p.generations[FirstFree(p)] + 1) % Generations]
  BY <1>1, <1>2 DEF Allocated, AllocatedRecord
<1>4. /\ LogsTo(p, EventOf("Allocated", record), r)
      /\ r.slots = p.slots
      /\ r.generations = p.generations
  BY <1>1, LoggedFields
<1>5. DOMAIN r = Fields
  BY <1>4 DEF LogsTo, Keeps
<1>6. /\ Keeps(r, t)
      /\ t.slots = SlotsWith(r.slots, FirstFree(p), record)
      /\ t.generations = r.generations
      /\ t.events = r.events
      /\ t.revision = r.revision
  BY <1>2, <1>5, StoredFields
<1>7. /\ Keeps(t, q)
      /\ q.slots = t.slots
      /\ q.generations = [t.generations EXCEPT ![FirstFree(p)] =
                             (p.generations[FirstFree(p)] + 1) % Generations]
      /\ q.events = t.events
      /\ q.revision = t.revision
  BY <1>3, <1>6 DEF Fields, Keeps
<1> QED
  BY <1>4, <1>6, <1>7 DEF LogsTo, Keeps

(* What Update leaves.                                                     *)
LEMMA UpdatedFields ==
    ASSUME NEW p, DOMAIN p = Fields, NEW reference, NEW state,
           NEW q, q = Updated(p, reference, state),
           NEW slot, slot = SlotOf(reference),
           NEW record, record = [p.slots[slot] EXCEPT !.State = state]
    PROVE  /\ LogsTo(p, EventOf("Updated", record), q)
           /\ q.slots = SlotsWith(p.slots, slot, record)
           /\ q.generations = p.generations
<1>1. PICK r : r = Logged(p, "Updated", record)
  OBVIOUS
<1>2. q = Stored(r, slot, record)
  BY <1>1 DEF Updated
<1>3. /\ LogsTo(p, EventOf("Updated", record), r)
      /\ r.slots = p.slots
      /\ r.generations = p.generations
  BY <1>1, LoggedFields
<1>4. DOMAIN r = Fields
  BY <1>3 DEF LogsTo, Keeps
<1>5. /\ Keeps(r, q)
      /\ q.slots = SlotsWith(r.slots, slot, record)
      /\ q.generations = r.generations
      /\ q.events = r.events
      /\ q.revision = r.revision
  BY <1>2, <1>4, StoredFields
<1> QED
  BY <1>3, <1>5 DEF LogsTo, Keeps

(* What Release leaves.                                                    *)
LEMMA ReleasedFields ==
    ASSUME NEW p, DOMAIN p = Fields, NEW reference,
           NEW q, q = Released(p, reference),
           NEW slot, slot = SlotOf(reference)
    PROVE  /\ LogsTo(p, EventOf("Released", p.slots[slot]), q)
           /\ q.slots = SlotsWithout(p.slots, slot)
           /\ q.generations = p.generations
<1>1. PICK r : r = Logged(p, "Released", p.slots[slot])
  OBVIOUS
<1>2. q = [r EXCEPT !.slots = SlotsWithout(r.slots, slot)]
  BY <1>1 DEF Released, SlotsWithout
<1>3. /\ LogsTo(p, EventOf("Released", p.slots[slot]), r)
      /\ r.slots = p.slots
      /\ r.generations = p.generations
  BY <1>1, LoggedFields
<1> QED
  BY <1>2, <1>3 DEF LogsTo, Keeps, Fields

-----------------------------------------------------------------------------
(***************************************************************************)
(* The steps, by what they leave.                                          *)
(***************************************************************************)
Shape == DOMAIN pool = Fields

GivesSlot(slot, generation, record) ==
    /\ slot \in Slots \ DOMAIN pool.slots
    /\ generation = (pool.generations[slot] + 1) % Generations
    /\ record \in [Reference : {Reference(slot, generation)},
                    Producer : pool.owned, State : States]
    /\ pool.sealed
    /\ LogsTo(pool, EventOf("Allocated", record), pool')
    /\ pool'.slots = SlotsWith(pool.slots, slot, record)
    /\ pool'.generations = [pool.generations EXCEPT ![slot] = generation]
    /\ snapshot' = snapshot

ChangesSlot(slot, state, record) ==
    /\ slot \in DOMAIN pool.slots
    /\ state \in States
    /\ record = [pool.slots[slot] EXCEPT !.State = state]
    /\ LogsTo(pool, EventOf("Updated", record), pool')
    /\ pool'.slots = SlotsWith(pool.slots, slot, record)
    /\ pool'.generations = pool.generations
    /\ snapshot' = snapshot

TakesSlot(slot) ==
    /\ slot \in DOMAIN pool.slots
    /\ LogsTo(pool, EventOf("Released", pool.slots[slot]), pool')
    /\ pool'.slots = SlotsWithout(pool.slots, slot)
    /\ pool'.generations = pool.generations
    /\ snapshot' = snapshot

KeepsVehicles ==
    /\ DOMAIN pool' = Fields
    /\ pool'.slots = pool.slots
    /\ pool'.generations = pool.generations
    /\ pool'.events = pool.events
    /\ pool'.revision = pool.revision

\* A producer is bound, or the extent is sealed
Starts ==
    /\ KeepsVehicles
    /\ pool.publications = 0 /\ ~pool.sealed
    /\ pool'.publications = 0
    /\ pool'.owned \subseteq pool.owned \cup Producers
    /\ pool'.sealed \in {pool.sealed, TRUE}
    /\ snapshot' = snapshot

Publishes ==
    /\ KeepsVehicles
    /\ pool'.publications = pool.publications + 1
    /\ pool'.owned = pool.owned
    /\ pool'.sealed = pool.sealed
    /\ snapshot'.Census = Census(pool)
    /\ snapshot'.Events = pool.events /\ snapshot'.Slots = pool.slots

(* Every step of the pool is one of these.                                 *)
LEMMA StepLeaves ==
    ASSUME Shape, PoolNext
    PROVE  \/ \E slot, generation, record : GivesSlot(slot, generation, record)
           \/ \E slot, state, record : ChangesSlot(slot, state, record)
           \/ \E slot : TakesSlot(slot)
           \/ Starts
           \/ Publishes
<1>1. ASSUME NEW producer \in Producers, BindProducer(producer)
      PROVE  Starts
  <2>1. pool' = [pool EXCEPT !.owned = pool.owned \cup {producer}]
    BY <1>1 DEF BindProducer
  <2>2. KeepsVehicles /\ pool'.publications = pool.publications /\ pool'.sealed = pool.sealed
    BY <2>1 DEF Shape, Fields, KeepsVehicles
  <2>3. pool'.owned = pool.owned \cup {producer}
    BY <2>1 DEF Shape, Fields
  <2> QED
    BY <1>1, <2>2, <2>3 DEF BindProducer, Starts
<1>2. ASSUME SealProducerExtent
      PROVE  Starts
  <2>1. pool' = [pool EXCEPT !.sealed = TRUE]
    BY <1>2 DEF SealProducerExtent
  <2>2. KeepsVehicles /\ pool'.publications = pool.publications /\ pool'.owned = pool.owned
    BY <2>1 DEF Shape, Fields, KeepsVehicles
  <2>3. pool'.sealed = TRUE
    BY <2>1 DEF Shape, Fields
  <2> QED
    BY <1>2, <2>2, <2>3 DEF SealProducerExtent, Starts
<1>3. ASSUME NEW producer \in Producers, NEW state \in States, Allocate(producer, state)
      PROVE  \E slot, generation, record : GivesSlot(slot, generation, record)
  <2>1. PICK record : record = AllocatedRecord(pool, producer, state)
    OBVIOUS
  <2>2. PICK slot : slot = FirstFree(pool)
    OBVIOUS
  <2>3. PICK generation : generation = (pool.generations[slot] + 1) % Generations
    OBVIOUS
  <2>4. slot \in Slots \ DOMAIN pool.slots
    <3>1. FreeSlots(pool) # {}
      BY <1>3 DEF Allocate, CanAllocate
    <3> QED
      BY <2>2, <3>1, FirstFreeIsFree DEF FreeSlots
  <2>5. record \in [Reference : {Reference(slot, generation)},
                    Producer : pool.owned, State : States]
    BY <1>3, <2>1, <2>2, <2>3 DEF Allocate, CanAllocate, AllocatedRecord
  <2>6. /\ LogsTo(pool, EventOf("Allocated", record), pool')
        /\ pool'.slots = SlotsWith(pool.slots, slot, record)
        /\ pool'.generations = [pool.generations EXCEPT ![slot] = generation]
    <3>1. pool' = Allocated(pool, producer, state)
      BY <1>3 DEF Allocate
    <3>2. DOMAIN pool = Fields
      BY DEF Shape
    <3> QED
      BY <2>1, <2>2, <2>3, <3>1, <3>2, AllocatedFields
  <2>7. pool.sealed /\ snapshot' = snapshot
    BY <1>3 DEF Allocate, CanAllocate
  <2>8. GivesSlot(slot, generation, record)
    BY <2>3, <2>4, <2>5, <2>6, <2>7 DEF GivesSlot
  <2> QED
    BY <2>8
<1>4. ASSUME NEW reference, NEW state \in States, Update(reference, state)
      PROVE  \E slot, st, record : ChangesSlot(slot, st, record)
  <2>1. PICK slot : slot = SlotOf(reference)
    OBVIOUS
  <2>2. PICK record : record = [pool.slots[slot] EXCEPT !.State = state]
    OBVIOUS
  <2>3. slot \in DOMAIN pool.slots /\ snapshot' = snapshot
    BY <1>4, <2>1 DEF Update, Resolves
  <2>4. /\ LogsTo(pool, EventOf("Updated", record), pool')
        /\ pool'.slots = SlotsWith(pool.slots, slot, record)
        /\ pool'.generations = pool.generations
    <3>1. pool' = Updated(pool, reference, state)
      BY <1>4 DEF Update
    <3>2. DOMAIN pool = Fields
      BY DEF Shape
    <3> QED
      BY <2>1, <2>2, <3>1, <3>2, UpdatedFields
  <2>5. ChangesSlot(slot, state, record)
    BY <2>2, <2>3, <2>4 DEF ChangesSlot
  <2> QED
    BY <2>5
<1>5. ASSUME NEW reference, Release(reference)
      PROVE  \E slot : TakesSlot(slot)
  <2>1. PICK slot : slot = SlotOf(reference)
    OBVIOUS
  <2>2. slot \in DOMAIN pool.slots /\ snapshot' = snapshot
    BY <1>5, <2>1 DEF Release, Resolves
  <2>3. /\ LogsTo(pool, EventOf("Released", pool.slots[slot]), pool')
        /\ pool'.slots = SlotsWithout(pool.slots, slot)
        /\ pool'.generations = pool.generations
    <3>1. pool' = Released(pool, reference)
      BY <1>5 DEF Release
    <3>2. DOMAIN pool = Fields
      BY DEF Shape
    <3> QED
      BY <2>1, <3>1, <3>2, ReleasedFields
  <2>4. TakesSlot(slot)
    BY <2>2, <2>3 DEF TakesSlot
  <2> QED
    BY <2>4
<1>6. ASSUME NEW frame, Publish(frame)
      PROVE  Publishes
  <2>1. pool' = [pool EXCEPT !.publications = pool.publications + 1]
    BY <1>6 DEF Publish
  <2>2. KeepsVehicles /\ pool'.sealed = pool.sealed /\ pool'.owned = pool.owned
    BY <2>1 DEF Shape, Fields, KeepsVehicles
  <2>3. pool'.publications = pool.publications + 1
    BY <2>1 DEF Shape, Fields
  <2>4. /\ snapshot'.Census = Census(pool)
        /\ snapshot'.Events = pool.events /\ snapshot'.Slots = pool.slots
    <3> HIDE <1>6
    <3>1. snapshot' = [Frame |-> frame, Generation |-> pool.publications + 1,
                       Census |-> Census(pool), Slots |-> pool.slots,
                       Events |-> pool.events]
      BY <1>6 DEF Publish
    <3> QED
      BY <3>1
  <2> QED
    BY <2>2, <2>3, <2>4 DEF Publishes
<1> QED
  BY <1>1, <1>2, <1>3, <1>4, <1>5, <1>6 DEF PoolNext

-----------------------------------------------------------------------------
(***************************************************************************)
(* The type of the pool.                                                   *)
(***************************************************************************)
(* The slots are a finite set of naturals.                                 *)
LEMMA SlotsAreNat == Slots \subseteq Nat /\ IsFiniteSet(Slots)
  BY PoolAssumption, FS_Interval DEF Slots

(* An allocation keeps the type; its reference names its slot.             *)
LEMMA GivesSlotType ==
    ASSUME PoolTypeOK, NEW slot, NEW generation, NEW record,
           GivesSlot(slot, generation, record)
    PROVE  /\ PoolTypeOK'
           /\ EventOf("Allocated", record) \in Events
           /\ SlotOf(Reference(slot, generation)) = slot
<1>1. slot \in Slots /\ slot \in Nat /\ slot < Capacity
  BY PoolAssumption DEF GivesSlot, Slots
<1>2. generation \in 0..(Generations - 1) /\ generation \in 0..255
  <2>1. pool.generations[slot] \in 0..(Generations - 1)
    BY <1>1 DEF PoolTypeOK
  <2>2. pool.generations[slot] + 1 \in Int /\ Generations \in 1..256
    BY <2>1, PoolAssumption
  <2>3. (pool.generations[slot] + 1) % Generations \in 0..(Generations - 1)
    BY <2>2
  <2> QED
    BY <2>2, <2>3 DEF GivesSlot
<1>3. Reference(slot, generation) \in 0..(Capacity * 256)
  BY <1>1, <1>2, PoolAssumption DEF Reference
<1>4. record \in Records /\ record.Reference = Reference(slot, generation)
  BY <1>3 DEF GivesSlot, PoolTypeOK, Records
<1>5. EventOf("Allocated", record) \in Events
  BY <1>4 DEF EventOf, Events, Records
<1>6. /\ pool'.events \in Seq(Events)
      /\ pool'.revision = Len(pool'.events)
  BY <1>5 DEF GivesSlot, LogsTo, PoolTypeOK
<1>7. /\ pool'.owned \subseteq Producers
      /\ pool'.sealed \in BOOLEAN
      /\ pool'.publications \in Nat
  BY DEF GivesSlot, LogsTo, Keeps, PoolTypeOK
<1>8. pool'.generations \in [Slots -> 0..(Generations - 1)]
  BY <1>1, <1>2 DEF GivesSlot, PoolTypeOK
<1>9. DOMAIN pool'.slots \subseteq Slots
  BY <1>1 DEF GivesSlot, SlotsWith, PoolTypeOK
<1>10. ASSUME NEW s \in DOMAIN pool'.slots
       PROVE  /\ pool'.slots[s] \in Records
              /\ pool'.slots[s].Reference = Reference(s, pool'.generations[s])
  <2>1. CASE s = slot
    <3>1. pool'.slots[s] = record /\ pool'.generations[s] = generation
      BY <1>1, <2>1 DEF GivesSlot, SlotsWith, PoolTypeOK
    <3> QED
      BY <1>4, <2>1, <3>1
  <2>2. CASE s # slot
    <3>1. s \in DOMAIN pool.slots /\ pool'.slots[s] = pool.slots[s]
      BY <2>2 DEF GivesSlot, SlotsWith
    <3>2. pool'.generations[s] = pool.generations[s]
      BY <2>2, <3>1 DEF GivesSlot, PoolTypeOK
    <3> QED
      BY <3>1, <3>2 DEF PoolTypeOK
  <2> QED
    BY <2>1, <2>2
<1>11. SlotOf(Reference(slot, generation)) = slot
  BY <1>1, <1>2, ReferenceNamesSlot
<1> QED
  BY <1>5, <1>6, <1>7, <1>8, <1>9, <1>10, <1>11 DEF PoolTypeOK

(* An update keeps the type, and the reference of its vehicle.             *)
LEMMA ChangesSlotType ==
    ASSUME PoolTypeOK, NEW slot, NEW state, NEW record,
           ChangesSlot(slot, state, record)
    PROVE  /\ PoolTypeOK'
           /\ EventOf("Updated", record) \in Events
           /\ record.Reference = pool.slots[slot].Reference
<1>1. pool.slots[slot] \in Records
  BY DEF ChangesSlot, PoolTypeOK
<1>2. record \in Records /\ record.Reference = pool.slots[slot].Reference
  BY <1>1 DEF ChangesSlot, Records
<1>3. EventOf("Updated", record) \in Events
  BY <1>2 DEF EventOf, Events, Records
<1>4. /\ pool'.events \in Seq(Events)
      /\ pool'.revision = Len(pool'.events)
  BY <1>3 DEF ChangesSlot, LogsTo, PoolTypeOK
<1>5. /\ pool'.owned \subseteq Producers
      /\ pool'.sealed \in BOOLEAN
      /\ pool'.publications \in Nat
      /\ pool'.generations \in [Slots -> 0..(Generations - 1)]
      /\ DOMAIN pool'.slots \subseteq Slots
  BY DEF ChangesSlot, LogsTo, Keeps, SlotsWith, PoolTypeOK
<1>6. ASSUME NEW s \in DOMAIN pool'.slots
      PROVE  /\ pool'.slots[s] \in Records
             /\ pool'.slots[s].Reference = Reference(s, pool'.generations[s])
  <2>1. s \in DOMAIN pool.slots /\ pool'.generations = pool.generations
    BY DEF ChangesSlot, SlotsWith
  <2>2. pool'.slots[s] = IF s = slot THEN record ELSE pool.slots[s]
    BY <2>1 DEF ChangesSlot, SlotsWith
  <2> QED
    BY <1>2, <2>1, <2>2 DEF PoolTypeOK
<1> QED
  BY <1>2, <1>3, <1>4, <1>5, <1>6 DEF PoolTypeOK

(* A release keeps the type.                                               *)
LEMMA TakesSlotType ==
    ASSUME PoolTypeOK, NEW slot, TakesSlot(slot)
    PROVE  PoolTypeOK' /\ EventOf("Released", pool.slots[slot]) \in Events
<1>1. pool.slots[slot] \in Records
  BY DEF TakesSlot, PoolTypeOK
<1>2. EventOf("Released", pool.slots[slot]) \in Events
  BY <1>1 DEF EventOf, Events, Records
<1>3. /\ pool'.events \in Seq(Events)
      /\ pool'.revision = Len(pool'.events)
  BY <1>2 DEF TakesSlot, LogsTo, PoolTypeOK
<1>4. /\ pool'.owned \subseteq Producers
      /\ pool'.sealed \in BOOLEAN
      /\ pool'.publications \in Nat
      /\ pool'.generations \in [Slots -> 0..(Generations - 1)]
      /\ DOMAIN pool'.slots \subseteq Slots
  BY DEF TakesSlot, LogsTo, Keeps, SlotsWithout, PoolTypeOK
<1>5. ASSUME NEW s \in DOMAIN pool'.slots
      PROVE  /\ pool'.slots[s] \in Records
             /\ pool'.slots[s].Reference = Reference(s, pool'.generations[s])
  BY DEF TakesSlot, SlotsWithout, PoolTypeOK
<1> QED
  BY <1>2, <1>3, <1>4, <1>5 DEF PoolTypeOK

(* The startup and the snapshots keep the type.                            *)
LEMMA KeepsVehiclesType ==
    ASSUME PoolTypeOK, Starts \/ Publishes
    PROVE  PoolTypeOK'
<1>1. /\ pool'.slots = pool.slots
      /\ pool'.generations = pool.generations
      /\ pool'.events = pool.events
      /\ pool'.revision = pool.revision
  BY DEF Starts, Publishes, KeepsVehicles
<1>2. /\ pool.owned \subseteq Producers
      /\ pool.sealed \in BOOLEAN
      /\ pool.publications \in Nat
  BY DEF PoolTypeOK
<1>3. CASE Starts
  <2>1. /\ pool'.owned \subseteq Producers
        /\ pool'.sealed \in BOOLEAN
        /\ pool'.publications \in Nat
    BY <1>2, <1>3 DEF Starts
  <2> QED
    BY <1>1, <2>1 DEF PoolTypeOK
<1>4. CASE Publishes
  <2>1. /\ pool'.owned \subseteq Producers
        /\ pool'.sealed \in BOOLEAN
        /\ pool'.publications \in Nat
    BY <1>2, <1>4 DEF Publishes
  <2> QED
    BY <1>1, <2>1 DEF PoolTypeOK
<1> QED
  BY <1>3, <1>4

(* The fields stay the same.                                               *)
LEMMA ShapeStep ==
    ASSUME Shape, [PoolNext]_poolVars
    PROVE  Shape'
  BY StepLeaves DEF Shape, poolVars, GivesSlot, ChangesSlot, TakesSlot, LogsTo, Keeps,
                    Starts, Publishes, KeepsVehicles

(* The type is inductive.                                                  *)
LEMMA TypeStep ==
    ASSUME Shape, PoolTypeOK, [PoolNext]_poolVars
    PROVE  PoolTypeOK'
<1>1. CASE PoolNext
  BY <1>1, StepLeaves, GivesSlotType, ChangesSlotType, TakesSlotType, KeepsVehiclesType
<1>2. CASE UNCHANGED poolVars
  BY <1>2 DEF poolVars, PoolTypeOK
<1> QED
  BY <1>1, <1>2

(* A vehicle is in the slot its reference names.                           *)
LEMMA VehicleIsInItsSlot ==
    ASSUME PoolTypeOK, NEW s \in DOMAIN pool.slots
    PROVE  SlotOf(pool.slots[s].Reference) = s
<1>1. /\ s \in Slots
      /\ pool.generations \in [Slots -> 0..(Generations - 1)]
      /\ pool.slots[s].Reference = Reference(s, pool.generations[s])
  BY DEF PoolTypeOK
<1>2. s \in Nat /\ pool.generations[s] \in 0..255
  BY <1>1, SlotsAreNat, PoolAssumption
<1> QED
  BY <1>1, <1>2, ReferenceNamesSlot

-----------------------------------------------------------------------------
(***************************************************************************)
(* The journal tells the slots.                                            *)
(***************************************************************************)
(* The last event about a slot, after one more event.                      *)
LEMMA LastAboutAppend ==
    ASSUME NEW E, NEW events \in Seq(E), NEW e \in E, NEW s, NEW i
    PROVE  LastAbout(Append(events, e), s, i) <=>
              IF SlotOf(e.Reference) = s THEN i = Len(events) + 1
              ELSE LastAbout(events, s, i)
<1> DEFINE n == Len(events)
           after == Append(events, e)
<1>1. n \in Nat /\ Len(after) = n + 1 /\ after[n + 1] = e
  OBVIOUS
<1>2. \A j \in 1..n : after[j] = events[j]
  OBVIOUS
<1>3. About(after, s) =
         About(events, s) \cup (IF SlotOf(e.Reference) = s THEN {n + 1} ELSE {})
  <2> HIDE DEF n, after
  <2>1. About(events, s) = {j \in 1..n : SlotOf(events[j].Reference) = s}
    BY DEF About, n
  <2>2. About(after, s) = {j \in 1..(n + 1) : SlotOf(after[j].Reference) = s}
    BY <1>1 DEF About
  <2> QED
    BY <1>1, <1>2, <2>1, <2>2
<1>4. About(events, s) \subseteq 1..n
  BY DEF About
<1> HIDE DEF n, after
<1> QED
  BY <1>1, <1>3, <1>4 DEF LastAbout, n, after

(* One more event, and the change it tells of, keep the two together.      *)
LEMMA TellsSlotsAfterEvent ==
    ASSUME NEW events \in Seq(Events), NEW e \in Events, NEW slots, NEW changed,
           NEW slot \in Slots, SlotOf(e.Reference) = slot,
           TellsSlots(events, slots),
           \A s \in Slots \ {slot} : /\ s \in DOMAIN changed <=> s \in DOMAIN slots
                                     /\ s \in DOMAIN slots => changed[s] = slots[s],
           IF slot \in DOMAIN changed
           THEN /\ e.Kind # "Released"
                /\ e.Reference = changed[slot].Reference
                /\ e.State = changed[slot].State
           ELSE e.Kind = "Released"
    PROVE  TellsSlots(Append(events, e), changed)
<1>1. PICK n \in Nat : n = Len(events)
  OBVIOUS
<1>2. PICK after : after = Append(events, e)
  OBVIOUS
<1>3. Len(after) = n + 1 /\ after[n + 1] = e /\ \A j \in 1..n : after[j] = events[j]
  BY <1>1, <1>2
<1>4. \A s, i : LastAbout(after, s, i) <=>
                  IF s = slot THEN i = n + 1 ELSE LastAbout(events, s, i)
  BY <1>1, <1>2, LastAboutAppend
<1>5. ASSUME NEW s \in Slots
      PROVE  IF s \in DOMAIN changed
             THEN \E i \in 1..Len(after) :
                     /\ LastAbout(after, s, i)
                     /\ after[i].Kind # "Released"
                     /\ after[i].Reference = changed[s].Reference
                     /\ after[i].State = changed[s].State
             ELSE \A i \in 1..Len(after) :
                     LastAbout(after, s, i) => after[i].Kind = "Released"
  <2>1. CASE s = slot /\ s \in DOMAIN changed
    <3>1. /\ n + 1 \in 1..Len(after)
          /\ LastAbout(after, s, n + 1)
          /\ after[n + 1].Kind # "Released"
          /\ after[n + 1].Reference = changed[s].Reference
          /\ after[n + 1].State = changed[s].State
      BY <1>3, <1>4, <2>1
    <3> QED
      BY <2>1, <3>1
  <2>2. CASE s = slot /\ s \notin DOMAIN changed
    BY <1>3, <1>4, <2>2
  <2>3. CASE s # slot /\ s \in DOMAIN changed
    <3>1. PICK i \in 1..n : /\ LastAbout(events, s, i)
                            /\ events[i].Kind # "Released"
                            /\ events[i].Reference = slots[s].Reference
                            /\ events[i].State = slots[s].State
      BY <1>1, <2>3 DEF TellsSlots
    <3>2. /\ i \in 1..Len(after) /\ after[i] = events[i]
          /\ LastAbout(after, s, i) /\ changed[s] = slots[s]
      BY <1>3, <1>4, <2>3, <3>1
    <3> QED
      BY <2>3, <3>1, <3>2
  <2>4. CASE s # slot /\ s \notin DOMAIN changed
    <3>1. \A i \in 1..n : LastAbout(events, s, i) => events[i].Kind = "Released"
      BY <1>1, <2>4 DEF TellsSlots
    <3>2. \A i : LastAbout(events, s, i) => i \in 1..n
      BY <1>1 DEF LastAbout, About
    <3> QED
      BY <1>3, <1>4, <2>4, <3>1, <3>2
  <2> QED
    BY <2>1, <2>2, <2>3, <2>4
<1> QED
  BY <1>2, <1>5 DEF TellsSlots

(* Every step keeps the journal in line with the slots.                    *)
LEMMA JournalStep ==
    ASSUME Shape, PoolTypeOK, JournalTellsTheSlots, [PoolNext]_poolVars
    PROVE  JournalTellsTheSlots'
<1>1. pool.events \in Seq(Events) /\ DOMAIN pool.slots \subseteq Slots
  BY DEF PoolTypeOK
<1>2. ASSUME NEW slot, NEW generation, NEW record, GivesSlot(slot, generation, record)
      PROVE  JournalTellsTheSlots'
  <2>1. PICK e : e = EventOf("Allocated", record)
    OBVIOUS
  <2>2. e \in Events
    BY <1>2, <2>1, GivesSlotType
  <2>3. slot \in Slots /\ pool'.events = Append(pool.events, e)
    BY <1>2, <2>1 DEF GivesSlot, LogsTo
  <2>4. /\ e.Kind = "Allocated"
        /\ e.Reference = record.Reference
        /\ e.State = record.State
        /\ record.Reference = Reference(slot, generation)
    BY <1>2, <2>1 DEF GivesSlot, EventOf
  <2>5. SlotOf(e.Reference) = slot
    BY <1>2, <2>4, GivesSlotType
  <2>6. pool'.slots = SlotsWith(pool.slots, slot, record)
    BY <1>2 DEF GivesSlot
  <2>7. TellsSlots(pool.events, pool.slots)
    BY DEF JournalTellsTheSlots
  <2>8. TellsSlots(Append(pool.events, e), pool'.slots)
    <3>1. slot \in DOMAIN pool'.slots /\ pool'.slots[slot] = record
      BY <2>6 DEF SlotsWith
    <3>2. \A s \in Slots \ {slot} :
             /\ s \in DOMAIN pool'.slots <=> s \in DOMAIN pool.slots
             /\ s \in DOMAIN pool.slots => pool'.slots[s] = pool.slots[s]
      BY <2>6 DEF SlotsWith
    <3> QED
      BY <1>1, <2>2, <2>3, <2>4, <2>5, <2>7, <3>1, <3>2, TellsSlotsAfterEvent
  <2> QED
    BY <2>3, <2>8 DEF JournalTellsTheSlots
<1>3. ASSUME NEW slot, NEW state, NEW record, ChangesSlot(slot, state, record)
      PROVE  JournalTellsTheSlots'
  <2>1. PICK e : e = EventOf("Updated", record)
    OBVIOUS
  <2>2. e \in Events /\ record.Reference = pool.slots[slot].Reference
    BY <1>3, <2>1, ChangesSlotType
  <2>3. /\ slot \in DOMAIN pool.slots
        /\ pool'.events = Append(pool.events, e)
        /\ pool'.slots = SlotsWith(pool.slots, slot, record)
    BY <1>3, <2>1 DEF ChangesSlot, LogsTo
  <2>4. /\ e.Kind = "Updated"
        /\ e.Reference = record.Reference
        /\ e.State = record.State
    BY <2>1 DEF EventOf
  <2>5. SlotOf(e.Reference) = slot
    BY <2>2, <2>3, <2>4, VehicleIsInItsSlot
  <2>6. slot \in DOMAIN pool'.slots /\ pool'.slots[slot] = record
    BY <2>3 DEF SlotsWith
  <2>7. \A s \in Slots \ {slot} :
           /\ s \in DOMAIN pool'.slots <=> s \in DOMAIN pool.slots
           /\ s \in DOMAIN pool.slots => pool'.slots[s] = pool.slots[s]
    BY <2>3 DEF SlotsWith
  <2>8. slot \in Slots /\ TellsSlots(pool.events, pool.slots)
    BY <1>1, <2>3 DEF JournalTellsTheSlots
  <2>9. TellsSlots(Append(pool.events, e), pool'.slots)
    BY <1>1, <2>2, <2>4, <2>5, <2>6, <2>7, <2>8, TellsSlotsAfterEvent
  <2> QED
    BY <2>3, <2>9 DEF JournalTellsTheSlots
<1>4. ASSUME NEW slot, TakesSlot(slot)
      PROVE  JournalTellsTheSlots'
  <2>1. PICK e : e = EventOf("Released", pool.slots[slot])
    OBVIOUS
  <2>2. e \in Events
    BY <1>4, <2>1, TakesSlotType
  <2>3. /\ slot \in DOMAIN pool.slots
        /\ pool'.events = Append(pool.events, e)
        /\ pool'.slots = SlotsWithout(pool.slots, slot)
    BY <1>4, <2>1 DEF TakesSlot, LogsTo
  <2>4. e.Kind = "Released" /\ e.Reference = pool.slots[slot].Reference
    BY <2>1 DEF EventOf
  <2>5. SlotOf(e.Reference) = slot
    BY <2>3, <2>4, VehicleIsInItsSlot
  <2>6. slot \notin DOMAIN pool'.slots
    BY <2>3 DEF SlotsWithout
  <2>7. \A s \in Slots \ {slot} :
           /\ s \in DOMAIN pool'.slots <=> s \in DOMAIN pool.slots
           /\ s \in DOMAIN pool.slots => pool'.slots[s] = pool.slots[s]
    BY <2>3 DEF SlotsWithout
  <2>8. slot \in Slots /\ TellsSlots(pool.events, pool.slots)
    BY <1>1, <2>3 DEF JournalTellsTheSlots
  <2>9. TellsSlots(Append(pool.events, e), pool'.slots)
    BY <1>1, <2>2, <2>4, <2>5, <2>6, <2>7, <2>8, TellsSlotsAfterEvent
  <2> QED
    BY <2>3, <2>9 DEF JournalTellsTheSlots
<1>5. CASE Starts
  BY <1>5 DEF Starts, KeepsVehicles, JournalTellsTheSlots
<1>6. CASE Publishes
  BY <1>6 DEF Publishes, KeepsVehicles, JournalTellsTheSlots
<1>7. CASE UNCHANGED poolVars
  BY <1>7 DEF poolVars, JournalTellsTheSlots
<1> QED
  BY <1>2, <1>3, <1>4, <1>5, <1>6, <1>7, StepLeaves

(* What a reader was given stays as it was.                                *)
LEMMA SnapshotStep ==
    ASSUME Shape, JournalTellsTheSlots, SnapshotTellsItsSlots, [PoolNext]_poolVars
    PROVE  SnapshotTellsItsSlots'
<1>1. CASE snapshot' = snapshot
  BY <1>1 DEF SnapshotTellsItsSlots
<1>2. CASE Publishes
  BY <1>2 DEF Publishes, JournalTellsTheSlots, SnapshotTellsItsSlots
<1> QED
  BY <1>1, <1>2, StepLeaves DEF GivesSlot, ChangesSlot, TakesSlot, Starts, poolVars

-----------------------------------------------------------------------------
(***************************************************************************)
(* The census.                                                             *)
(***************************************************************************)
\* What the census counts of a kind, in a journal
Count(events, kind) == Cardinality({i \in 1..Len(events) : events[i].Kind = kind})

(* What the census counts, after one more event.                           *)
LEMMA CountAppend ==
    ASSUME NEW E, NEW events \in Seq(E), NEW e \in E, NEW kind
    PROVE  /\ Count(events, kind) \in Nat
           /\ Count(Append(events, e), kind) =
                 Count(events, kind) + (IF e.Kind = kind THEN 1 ELSE 0)
<1>1. PICK n \in Nat : n = Len(events)
  OBVIOUS
<1>2. PICK set : set = {i \in 1..n : events[i].Kind = kind}
  OBVIOUS
<1>3. IsFiniteSet(set)
  <2>1. IsFiniteSet(1..n)
    BY FS_Interval
  <2>2. set \subseteq 1..n
    BY <1>2
  <2> QED
    BY <2>1, <2>2, FS_Subset
<1>4. Count(events, kind) = Cardinality(set) /\ Cardinality(set) \in Nat
  BY <1>1, <1>2, <1>3, FS_CardinalityType DEF Count
<1>5. {i \in 1..Len(Append(events, e)) : Append(events, e)[i].Kind = kind}
         = set \cup (IF e.Kind = kind THEN {n + 1} ELSE {})
  BY <1>1, <1>2, EventsAfterAppend
<1>6. CASE e.Kind = kind
  <2>1. n + 1 \notin set
    BY <1>2
  <2>2. Cardinality(set \cup {n + 1}) = Cardinality(set) + 1
    BY <1>3, <2>1, FS_AddElement
  <2> QED
    BY <1>4, <1>5, <1>6, <2>2 DEF Count
<1>7. CASE e.Kind # kind
  <2>1. {i \in 1..Len(Append(events, e)) : Append(events, e)[i].Kind = kind} = set
    BY <1>5, <1>7
  <2>2. Count(Append(events, e), kind) = Cardinality(set)
    BY <2>1 DEF Count
  <2> QED
    BY <1>4, <1>7, <2>2
<1> QED
  BY <1>6, <1>7

\* AddsUp, of slots and journal
SlotsAddUp(slots, events) ==
    Cardinality(DOMAIN slots) + Count(events, "Released") = Count(events, "Allocated")

(* The census of a pool is about its slots and its journal only.           *)
LEMMA CensusOfPool ==
    ASSUME NEW p
    PROVE  AddsUp(Census(p)) <=> SlotsAddUp(p.slots, p.events)
<1>1. /\ Census(p).Alive = Cardinality(DOMAIN p.slots)
      /\ Census(p).Created = Count(p.events, "Allocated")
      /\ Census(p).Released = Count(p.events, "Released")
  BY DEF Census, EventsOf, Count
<1> QED
  BY <1>1 DEF AddsUp, SlotsAddUp

\* What is known of the snapshot
SnapshotAddsUp == snapshot # NoSnapshot => AddsUp(snapshot.Census)

(* Every step keeps the census even.                                       *)
LEMMA CensusStep ==
    ASSUME Shape, PoolTypeOK, CensusAddsUp, [PoolNext]_poolVars
    PROVE  CensusAddsUp'
<1>1. /\ pool.events \in Seq(Events)
      /\ DOMAIN pool.slots \subseteq Slots
      /\ IsFiniteSet(DOMAIN pool.slots)
      /\ Cardinality(DOMAIN pool.slots) \in Nat
  <2>1. pool.events \in Seq(Events) /\ DOMAIN pool.slots \subseteq Slots
    BY DEF PoolTypeOK
  <2> QED
    BY <2>1, SlotsAreNat, FS_Subset, FS_CardinalityType
<1>2. SlotsAddUp(pool.slots, pool.events) /\ SnapshotAddsUp
  BY CensusOfPool DEF CensusAddsUp, SnapshotAddsUp
<1> SUFFICES SlotsAddUp(pool'.slots, pool'.events) /\ SnapshotAddsUp'
  <2>1. SlotsAddUp(pool'.slots, pool'.events) => AddsUp(Census(pool'))
    BY CensusOfPool
  <2> QED
    BY <2>1 DEF CensusAddsUp, SnapshotAddsUp
<1>3. ASSUME NEW slot, NEW generation, NEW record, GivesSlot(slot, generation, record)
      PROVE  SlotsAddUp(pool'.slots, pool'.events) /\ SnapshotAddsUp'
  <2>1. PICK e \in Events : e = EventOf("Allocated", record)
    BY <1>3, GivesSlotType
  <2>2. /\ pool'.events = Append(pool.events, e)
        /\ e.Kind = "Allocated"
    BY <1>3, <2>1 DEF GivesSlot, LogsTo, EventOf
  <2>3. DOMAIN pool'.slots = DOMAIN pool.slots \cup {slot} /\ slot \notin DOMAIN pool.slots
    BY <1>3 DEF GivesSlot, SlotsWith
  <2>4. Cardinality(DOMAIN pool'.slots) = Cardinality(DOMAIN pool.slots) + 1
    BY <1>1, <2>3, FS_AddElement
  <2>5. /\ Count(pool.events, "Allocated") \in Nat
        /\ Count(pool.events, "Released") \in Nat
        /\ Count(pool'.events, "Allocated") = Count(pool.events, "Allocated") + 1
        /\ Count(pool'.events, "Released") = Count(pool.events, "Released")
    BY <1>1, <2>2, CountAppend
  <2>6. SlotsAddUp(pool'.slots, pool'.events)
    BY <1>1, <1>2, <2>4, <2>5 DEF SlotsAddUp
  <2> QED
    BY <1>2, <1>3, <2>6 DEF SnapshotAddsUp, GivesSlot
<1>4. ASSUME NEW slot, NEW state, NEW record, ChangesSlot(slot, state, record)
      PROVE  SlotsAddUp(pool'.slots, pool'.events) /\ SnapshotAddsUp'
  <2>1. PICK e \in Events : e = EventOf("Updated", record)
    BY <1>4, ChangesSlotType
  <2>2. /\ pool'.events = Append(pool.events, e)
        /\ e.Kind = "Updated"
    BY <1>4, <2>1 DEF ChangesSlot, LogsTo, EventOf
  <2>3. DOMAIN pool'.slots = DOMAIN pool.slots
    BY <1>4 DEF ChangesSlot, SlotsWith
  <2>4. /\ Count(pool.events, "Allocated") \in Nat
        /\ Count(pool.events, "Released") \in Nat
        /\ Count(pool'.events, "Allocated") = Count(pool.events, "Allocated")
        /\ Count(pool'.events, "Released") = Count(pool.events, "Released")
    BY <1>1, <2>2, CountAppend
  <2>5. SlotsAddUp(pool'.slots, pool'.events)
    BY <1>2, <2>3, <2>4 DEF SlotsAddUp
  <2> QED
    BY <1>2, <1>4, <2>5 DEF SnapshotAddsUp, ChangesSlot
<1>5. ASSUME NEW slot, TakesSlot(slot)
      PROVE  SlotsAddUp(pool'.slots, pool'.events) /\ SnapshotAddsUp'
  <2>1. PICK e \in Events : e = EventOf("Released", pool.slots[slot])
    BY <1>5, TakesSlotType
  <2>2. /\ pool'.events = Append(pool.events, e)
        /\ e.Kind = "Released"
    BY <1>5, <2>1 DEF TakesSlot, LogsTo, EventOf
  <2>3. DOMAIN pool'.slots = DOMAIN pool.slots \ {slot} /\ slot \in DOMAIN pool.slots
    BY <1>5 DEF TakesSlot, SlotsWithout
  <2>4. Cardinality(DOMAIN pool'.slots) = Cardinality(DOMAIN pool.slots) - 1
    BY <1>1, <2>3, FS_RemoveElement, ZenonT(30)
  <2>5. /\ Count(pool.events, "Allocated") \in Nat
        /\ Count(pool.events, "Released") \in Nat
        /\ Count(pool'.events, "Allocated") = Count(pool.events, "Allocated")
        /\ Count(pool'.events, "Released") = Count(pool.events, "Released") + 1
    BY <1>1, <2>2, CountAppend
  <2>6. SlotsAddUp(pool'.slots, pool'.events)
    BY <1>1, <1>2, <2>4, <2>5 DEF SlotsAddUp
  <2> QED
    BY <1>2, <1>5, <2>6 DEF SnapshotAddsUp, TakesSlot
<1>6. CASE Starts
  BY <1>2, <1>6 DEF Starts, KeepsVehicles, SnapshotAddsUp
<1>7. CASE Publishes
  <2>1. SlotsAddUp(pool'.slots, pool'.events)
    BY <1>2, <1>7 DEF Publishes, KeepsVehicles
  <2>2. AddsUp(snapshot'.Census)
    BY <1>2, <1>7, CensusOfPool DEF Publishes
  <2> QED
    BY <2>1, <2>2 DEF SnapshotAddsUp
<1>8. CASE UNCHANGED poolVars
  BY <1>2, <1>8 DEF poolVars, SnapshotAddsUp
<1> QED
  BY <1>3, <1>4, <1>5, <1>6, <1>7, <1>8, StepLeaves

-----------------------------------------------------------------------------
(***************************************************************************)
(* The extent.  Nobody may join after the first snapshot, because there is *)
(* none before the first publication.                                      *)
(***************************************************************************)
NoneBeforeTheFirst == snapshot # NoSnapshot => pool.publications # 0

(* Nobody joins once a reader has been told anything.                      *)
LEMMA ExtentStep ==
    ASSUME Shape, PoolTypeOK, ExtentIsFinal, NoneBeforeTheFirst, [PoolNext]_poolVars
    PROVE  ExtentIsFinal' /\ NoneBeforeTheFirst'
<1> DEFINE Known == snapshot # NoSnapshot =>
                       /\ snapshot.Census.Owned = pool.owned
                       /\ snapshot.Census.Complete = pool.sealed
           Owned == \A s \in DOMAIN pool.slots :
                       pool.sealed /\ pool.slots[s].Producer \in pool.owned
<1>1. Known /\ Owned
  BY DEF ExtentIsFinal
<1> SUFFICES Known' /\ Owned' /\ NoneBeforeTheFirst'
  BY DEF ExtentIsFinal
<1>2. ASSUME NEW slot, NEW generation, NEW record, GivesSlot(slot, generation, record)
      PROVE  Known' /\ Owned' /\ NoneBeforeTheFirst'
  <2>1. /\ pool'.owned = pool.owned /\ pool'.sealed = pool.sealed /\ pool.sealed
        /\ pool'.publications = pool.publications
        /\ snapshot' = snapshot
        /\ pool'.slots = SlotsWith(pool.slots, slot, record)
        /\ record.Producer \in pool.owned
    BY <1>2 DEF GivesSlot, LogsTo, Keeps
  <2>2. Owned'
    BY <1>1, <2>1 DEF SlotsWith
  <2>3. Known' /\ NoneBeforeTheFirst'
    BY <1>1, <2>1 DEF NoneBeforeTheFirst
  <2> QED
    BY <2>2, <2>3
<1>3. ASSUME NEW slot, NEW state, NEW record, ChangesSlot(slot, state, record)
      PROVE  Known' /\ Owned' /\ NoneBeforeTheFirst'
  <2>1. /\ pool'.owned = pool.owned /\ pool'.sealed = pool.sealed
        /\ pool'.publications = pool.publications
        /\ snapshot' = snapshot
        /\ pool'.slots = SlotsWith(pool.slots, slot, record)
        /\ slot \in DOMAIN pool.slots
    BY <1>3 DEF ChangesSlot, LogsTo, Keeps
  <2>2. record.Producer = pool.slots[slot].Producer
    <3>1. pool.slots[slot] \in Records
      BY <2>1 DEF PoolTypeOK
    <3>2. record = [pool.slots[slot] EXCEPT !.State = state]
      BY <1>3 DEF ChangesSlot
    <3> QED
      BY <3>1, <3>2 DEF Records
  <2>3. Owned'
    BY <1>1, <2>1, <2>2 DEF SlotsWith
  <2>4. Known' /\ NoneBeforeTheFirst'
    BY <1>1, <2>1 DEF NoneBeforeTheFirst
  <2> QED
    BY <2>3, <2>4
<1>4. ASSUME NEW slot, TakesSlot(slot)
      PROVE  Known' /\ Owned' /\ NoneBeforeTheFirst'
  <2>1. /\ pool'.owned = pool.owned /\ pool'.sealed = pool.sealed
        /\ pool'.publications = pool.publications
        /\ snapshot' = snapshot
        /\ pool'.slots = SlotsWithout(pool.slots, slot)
    BY <1>4 DEF TakesSlot, LogsTo, Keeps
  <2>2. Owned'
    BY <1>1, <2>1 DEF SlotsWithout
  <2>3. Known' /\ NoneBeforeTheFirst'
    BY <1>1, <2>1 DEF NoneBeforeTheFirst
  <2> QED
    BY <2>2, <2>3
<1>5. CASE Starts
  <2>1. /\ pool.publications = 0 /\ snapshot' = snapshot
        /\ ~pool.sealed /\ pool'.slots = pool.slots
    BY <1>5 DEF Starts, KeepsVehicles
  <2>2. snapshot = NoSnapshot
    BY <2>1 DEF NoneBeforeTheFirst
  <2>3. DOMAIN pool.slots = {}
    BY <1>1, <2>1
  <2>4. Known' /\ NoneBeforeTheFirst'
    BY <2>1, <2>2 DEF NoneBeforeTheFirst
  <2>5. Owned'
    BY <2>1, <2>3
  <2> QED
    BY <2>4, <2>5
<1>6. CASE Publishes
  <2>1. /\ pool'.slots = pool.slots
        /\ pool'.owned = pool.owned /\ pool'.sealed = pool.sealed
        /\ pool'.publications = pool.publications + 1
        /\ snapshot'.Census = Census(pool)
    BY <1>6 DEF Publishes, KeepsVehicles
  <2>2. Census(pool).Owned = pool.owned /\ Census(pool).Complete = pool.sealed
    BY DEF Census
  <2>3. pool.publications \in Nat
    BY DEF PoolTypeOK
  <2>4. NoneBeforeTheFirst'
    BY <2>1, <2>3 DEF NoneBeforeTheFirst
  <2>5. Known' /\ Owned'
    BY <1>1, <2>1, <2>2
  <2> QED
    BY <2>4, <2>5
<1>7. CASE UNCHANGED poolVars
  BY <1>1, <1>7 DEF poolVars, NoneBeforeTheFirst
<1> HIDE DEF Known, Owned
<1> QED
  BY <1>2, <1>3, <1>4, <1>5, <1>6, <1>7, StepLeaves

-----------------------------------------------------------------------------
(***************************************************************************)
(* Generations.                                                            *)
(***************************************************************************)
\* ReusesSince, of a journal
Reused(events, i) ==
    {j \in 1..Len(events) : /\ events[j].Kind = "Allocated"
                            /\ j > i
                            /\ SlotOf(events[j].Reference) = SlotOf(events[i].Reference)}
Reuses(events, i) == Cardinality(Reused(events, i))

(* ReusesSince looks at the journal only.                                  *)
LEMMA ReusesSinceIsReuses ==
    ASSUME NEW p, NEW i
    PROVE  ReusesSince(p, i) = Reuses(p.events, i)
<1>1. Reused(p.events, i) =
         {j \in EventsOf(p, "Allocated") :
             j > i /\ SlotOf(p.events[j].Reference) = SlotOf(p.events[i].Reference)}
  BY DEF Reused, EventsOf
<1> QED
  BY <1>1 DEF ReusesSince, Reuses

(* The reuses of a slot, after one more event.                             *)
LEMMA ReusesAppend ==
    ASSUME NEW E, NEW events \in Seq(E), NEW e \in E, NEW i \in 1..Len(events)
    PROVE  /\ Reuses(events, i) \in Nat
           /\ Reuses(Append(events, e), i) =
                 IF e.Kind = "Allocated" /\ SlotOf(e.Reference) = SlotOf(events[i].Reference)
                 THEN Reuses(events, i) + 1 ELSE Reuses(events, i)
<1>1. PICK n \in Nat : n = Len(events)
  OBVIOUS
<1>2. PICK after : after = Append(events, e)
  OBVIOUS
<1>3. Len(after) = n + 1 /\ after[n + 1] = e /\ \A j \in 1..n : after[j] = events[j]
  BY <1>1, <1>2
<1>4. PICK set : set = Reused(events, i)
  OBVIOUS
<1>5. set \subseteq 1..n /\ IsFiniteSet(set)
  <2>1. set \subseteq 1..n /\ IsFiniteSet(1..n)
    BY <1>1, <1>4, FS_Interval DEF Reused
  <2> QED
    BY <2>1, FS_Subset
<1>6. Reuses(events, i) = Cardinality(set) /\ Cardinality(set) \in Nat
  BY <1>4, <1>5, FS_CardinalityType DEF Reuses
<1>7. set = {j \in 1..n : /\ events[j].Kind = "Allocated"
                          /\ j > i
                          /\ SlotOf(events[j].Reference) = SlotOf(events[i].Reference)}
  BY <1>1, <1>4 DEF Reused
<1>8. Reused(after, i) =
         {j \in 1..(n + 1) : /\ after[j].Kind = "Allocated"
                             /\ j > i
                             /\ SlotOf(after[j].Reference) = SlotOf(events[i].Reference)}
  BY <1>1, <1>3 DEF Reused
<1>9. CASE e.Kind = "Allocated" /\ SlotOf(e.Reference) = SlotOf(events[i].Reference)
  <2>1. Reused(after, i) = set \cup {n + 1}
    BY <1>1, <1>3, <1>7, <1>8, <1>9
  <2>2. n + 1 \notin set
    BY <1>5
  <2>3. Cardinality(set \cup {n + 1}) = Cardinality(set) + 1
    BY <1>5, <2>2, FS_AddElement
  <2> QED
    BY <1>2, <1>6, <1>9, <2>1, <2>3 DEF Reuses
<1>10. CASE ~ (e.Kind = "Allocated" /\ SlotOf(e.Reference) = SlotOf(events[i].Reference))
  <2>1. Reused(after, i) = set
    BY <1>1, <1>3, <1>7, <1>8, <1>10
  <2> QED
    BY <1>2, <1>6, <1>10, <2>1 DEF Reuses
<1> QED
  BY <1>9, <1>10

(* The last event has seen no reuse.                                       *)
LEMMA ReusesOfTheLast ==
    ASSUME NEW events
    PROVE  Reuses(events, Len(events)) = 0
<1>1. Reused(events, Len(events)) = {}
  BY DEF Reused
<1> QED
  BY <1>1, FS_EmptySet DEF Reuses

\* What remains of generation g after its slot was given away r times
After(g, r) == IF g + r < Generations THEN g + r ELSE g + r - Generations

(* The generation of a slot counts, modulo Generations, how often the slot *)
(* has been given away: seen from the event that gave out generation g.    *)
CountsFrom(events, generations, i) ==
    \E s \in Slots, g \in 0..(Generations - 1) :
        /\ events[i].Reference = Reference(s, g)
        /\ \/ Reuses(events, i) >= Generations
           \/ generations[s] = After(g, Reuses(events, i))

GenerationsCount ==
    \A i \in EventsOf(pool, "Allocated") : CountsFrom(pool.events, pool.generations, i)

(* A reference names its slot, whatever the generation.                    *)
LEMMA ReferenceOfGeneration ==
    ASSUME NEW s \in Slots, NEW g \in 0..(Generations - 1)
    PROVE  SlotOf(Reference(s, g)) = s
<1>1. s \in Nat /\ g \in 0..255
  BY SlotsAreNat, PoolAssumption
<1> QED
  BY <1>1, ReferenceNamesSlot

(* An event that gives no slot away, with the generations left alone.      *)
LEMMA CountsWithout ==
    ASSUME NEW events \in Seq(Events), NEW e \in Events, NEW generations,
           e.Kind # "Allocated",
           NEW i \in 1..Len(events), CountsFrom(events, generations, i)
    PROVE  CountsFrom(Append(events, e), generations, i)
<1>1. Reuses(Append(events, e), i) = Reuses(events, i)
  BY ReusesAppend
<1>2. Append(events, e)[i] = events[i]
  OBVIOUS
<1> QED
  BY <1>1, <1>2 DEF CountsFrom

(* The generation after x.                                                 *)
LEMMA NextGeneration ==
    ASSUME NEW n \in Nat \ {0}, NEW x \in 0..(n - 1)
    PROVE  (x + 1) % n = IF x + 1 < n THEN x + 1 ELSE 0
<1>1. CASE x + 1 < n
  BY <1>1
<1>2. CASE x + 1 = n
  <2>1. n % n = 0
    OBVIOUS
  <2> QED
    BY <1>2, <2>1
<1> QED
  BY <1>1, <1>2

(* The slot given away once more.                                          *)
LEMMA AfterOneMore ==
    ASSUME NEW g \in 0..(Generations - 1), NEW r \in Nat, NEW x,
           r >= Generations \/ x = After(g, r)
    PROVE  \/ r + 1 >= Generations
           \/ (IF x + 1 < Generations THEN x + 1 ELSE 0) = After(g, r + 1)
<1>1. Generations \in Nat \ {0}
  BY PoolAssumption
<1>2. CASE r >= Generations
  BY <1>1, <1>2
<1>3. CASE r < Generations /\ g + r < Generations
  <2>1. x = g + r
    BY <1>1, <1>3 DEF After
  <2> QED
    BY <1>1, <1>3, <2>1 DEF After
<1>4. CASE r < Generations /\ g + r >= Generations
  <2>1. x = g + r - Generations
    BY <1>1, <1>4 DEF After
  <2> QED
    BY <1>1, <1>4, <2>1 DEF After
<1> QED
  BY <1>1, <1>2, <1>3, <1>4

(* An event that gives a slot away.                                        *)
LEMMA CountsWith ==
    ASSUME NEW events \in Seq(Events), NEW e \in Events,
           NEW generations \in [Slots -> 0..(Generations - 1)],
           NEW slot \in Slots, NEW generation,
           e.Kind = "Allocated", SlotOf(e.Reference) = slot,
           generation = (generations[slot] + 1) % Generations,
           NEW i \in 1..Len(events), CountsFrom(events, generations, i)
    PROVE  CountsFrom(Append(events, e), [generations EXCEPT ![slot] = generation], i)
<1>1. PICK s \in Slots, g \in 0..(Generations - 1) :
         /\ events[i].Reference = Reference(s, g)
         /\ \/ Reuses(events, i) >= Generations
            \/ generations[s] = After(g, Reuses(events, i))
  BY DEF CountsFrom
<1>2. SlotOf(events[i].Reference) = s
  BY <1>1, ReferenceOfGeneration
<1>3. Append(events, e)[i] = events[i]
  OBVIOUS
<1>4. PICK r \in Nat : r = Reuses(events, i)
  BY ReusesAppend
<1>5. PICK n : n = [generations EXCEPT ![slot] = generation]
  OBVIOUS
<1>6. CASE s = slot
  <2>1. Reuses(Append(events, e), i) = r + 1
    BY <1>2, <1>4, <1>6, ReusesAppend
  <2>2. n[s] = generation
    BY <1>5, <1>6
  <2>3. Generations \in Nat \ {0} /\ generations[s] \in 0..(Generations - 1)
    BY PoolAssumption
  <2>4. generation = IF generations[s] + 1 < Generations THEN generations[s] + 1 ELSE 0
    BY <1>6, <2>3, NextGeneration
  <2>5. r + 1 >= Generations \/ n[s] = After(g, r + 1)
    <3>1. r >= Generations \/ generations[s] = After(g, r)
      BY <1>1, <1>4
    <3> QED
      BY <2>2, <2>3, <2>4, <3>1, AfterOneMore
  <2> QED
    BY <1>1, <1>3, <1>5, <2>1, <2>5 DEF CountsFrom
<1>7. CASE s # slot
  <2>1. Reuses(Append(events, e), i) = r
    BY <1>2, <1>4, <1>7, ReusesAppend
  <2>2. n[s] = generations[s]
    BY <1>5, <1>7
  <2>3. r >= Generations \/ n[s] = After(g, r)
    BY <1>1, <1>4, <2>2
  <2> QED
    BY <1>1, <1>3, <1>5, <2>1, <2>3 DEF CountsFrom
<1> QED
  BY <1>6, <1>7

(* Every step keeps the count of the generations.                          *)
LEMMA GenerationsStep ==
    ASSUME Shape, PoolTypeOK, GenerationsCount, [PoolNext]_poolVars
    PROVE  GenerationsCount'
<1>1. /\ pool.events \in Seq(Events)
      /\ pool.generations \in [Slots -> 0..(Generations - 1)]
      /\ DOMAIN pool.slots \subseteq Slots
  BY DEF PoolTypeOK
<1>2. \A i \in 1..Len(pool.events) :
         pool.events[i].Kind = "Allocated" => CountsFrom(pool.events, pool.generations, i)
  BY DEF GenerationsCount, EventsOf
<1> SUFFICES \A i \in 1..Len(pool'.events) :
                pool'.events[i].Kind = "Allocated" => CountsFrom(pool'.events, pool'.generations, i)
  BY DEF GenerationsCount, EventsOf
<1>3. ASSUME NEW slot, NEW generation, NEW record, GivesSlot(slot, generation, record),
             NEW i \in 1..Len(pool'.events), pool'.events[i].Kind = "Allocated"
      PROVE  CountsFrom(pool'.events, pool'.generations, i)
  <2>1. PICK e \in Events : e = EventOf("Allocated", record)
    BY <1>3, GivesSlotType
  <2>2. /\ pool'.events = Append(pool.events, e)
        /\ e.Kind = "Allocated" /\ e.Reference = Reference(slot, generation)
        /\ SlotOf(e.Reference) = slot
    BY <1>3, <2>1, GivesSlotType DEF GivesSlot, LogsTo, EventOf
  <2>3. /\ slot \in Slots
        /\ generation = (pool.generations[slot] + 1) % Generations
        /\ pool'.generations = [pool.generations EXCEPT ![slot] = generation]
    BY <1>3 DEF GivesSlot
  <2>4. CASE i \in 1..Len(pool.events)
    <3>1. pool'.events[i] = pool.events[i]
      BY <1>1, <2>2, <2>4
    <3>2. CountsFrom(pool.events, pool.generations, i)
      BY <1>2, <1>3, <2>4, <3>1
    <3>3. CountsFrom(Append(pool.events, e),
                     [pool.generations EXCEPT ![slot] = generation], i)
      BY <1>1, <2>2, <2>3, <2>4, <3>2, CountsWith, Zenon
    <3> QED
      BY <2>2, <2>3, <3>3
  <2>5. CASE i \notin 1..Len(pool.events)
    <3>1. i = Len(pool'.events) /\ pool'.events[i] = e
      BY <1>1, <1>3, <2>2, <2>5
    <3>2. Reuses(pool'.events, i) = 0
      BY <3>1, ReusesOfTheLast
    <3>3. generation \in 0..(Generations - 1) /\ pool'.generations[slot] = generation
      <4>1. PoolTypeOK'
        BY <1>3, GivesSlotType
      <4>2. pool'.generations[slot] \in 0..(Generations - 1)
        BY <2>3, <4>1 DEF PoolTypeOK
      <4>3. pool'.generations[slot] = generation
        BY <1>1, <2>3
      <4> QED
        BY <4>2, <4>3
    <3>4. pool'.generations[slot] = After(generation, 0)
      BY <3>3, PoolAssumption DEF After
    <3> QED
      BY <2>2, <2>3, <3>1, <3>2, <3>3, <3>4 DEF CountsFrom
  <2> QED
    BY <2>4, <2>5
<1>4. ASSUME NEW e \in Events, e.Kind # "Allocated",
             pool'.events = Append(pool.events, e), pool'.generations = pool.generations,
             NEW i \in 1..Len(pool'.events), pool'.events[i].Kind = "Allocated"
      PROVE  CountsFrom(pool'.events, pool'.generations, i)
  <2>1. i \in 1..Len(pool.events)
    <3>1. Len(pool'.events) = Len(pool.events) + 1 /\ pool'.events[Len(pool.events) + 1] = e
      BY <1>1, <1>4
    <3> QED
      BY <1>1, <1>4, <3>1
  <2>2. pool'.events[i] = pool.events[i]
    BY <1>1, <1>4, <2>1
  <2>3. CountsFrom(pool.events, pool.generations, i)
    BY <1>2, <1>4, <2>1, <2>2
  <2> QED
    BY <1>1, <1>4, <2>1, <2>3, CountsWithout
<1>5. ASSUME NEW slot, NEW state, NEW record, ChangesSlot(slot, state, record)
      PROVE  \E e \in Events : /\ e.Kind # "Allocated"
                               /\ pool'.events = Append(pool.events, e)
                               /\ pool'.generations = pool.generations
  <2>1. PICK e \in Events : e = EventOf("Updated", record)
    BY <1>5, ChangesSlotType
  <2> QED
    BY <1>5, <2>1 DEF ChangesSlot, LogsTo, EventOf
<1>6. ASSUME NEW slot, TakesSlot(slot)
      PROVE  \E e \in Events : /\ e.Kind # "Allocated"
                               /\ pool'.events = Append(pool.events, e)
                               /\ pool'.generations = pool.generations
  <2>1. PICK e \in Events : e = EventOf("Released", pool.slots[slot])
    BY <1>6, TakesSlotType
  <2> QED
    BY <1>6, <2>1 DEF TakesSlot, LogsTo, EventOf
<1>7. ASSUME pool'.events = pool.events, pool'.generations = pool.generations,
             NEW i \in 1..Len(pool'.events), pool'.events[i].Kind = "Allocated"
      PROVE  CountsFrom(pool'.events, pool'.generations, i)
  BY <1>2, <1>7
<1>8. CASE Starts \/ Publishes \/ UNCHANGED poolVars
  <2>1. pool'.events = pool.events /\ pool'.generations = pool.generations
    BY <1>8 DEF Starts, Publishes, KeepsVehicles, poolVars
  <2> QED
    BY <1>7, <2>1
<1> QED
  BY <1>3, <1>4, <1>5, <1>6, <1>8, StepLeaves

-----------------------------------------------------------------------------
(***************************************************************************)
(* The theorems.                                                           *)
(***************************************************************************)
IInv ==
    /\ Shape
    /\ PoolTypeOK
    /\ JournalTellsTheSlots
    /\ SnapshotTellsItsSlots
    /\ CensusAddsUp
    /\ ExtentIsFinal
    /\ NoneBeforeTheFirst
    /\ GenerationsCount

(* The empty pool satisfies the invariant.                                 *)
LEMMA IInvInit == PoolInit => IInv
<1> SUFFICES ASSUME PoolInit PROVE IInv
  OBVIOUS
<1>1. /\ DOMAIN pool = Fields
      /\ DOMAIN pool.slots = {}
      /\ pool.generations = [s \in Slots |-> 0]
      /\ pool.events = <<>> /\ pool.revision = 0
      /\ pool.owned = {} /\ pool.sealed = FALSE /\ pool.publications = 0
      /\ snapshot = NoSnapshot
  BY DEF PoolInit, EmptyPool, Fields
<1>2. PoolTypeOK
  <2>1. pool.generations \in [Slots -> 0..(Generations - 1)]
    BY <1>1, PoolAssumption
  <2>2. pool.events \in Seq(Events) /\ Len(pool.events) = 0
    BY <1>1
  <2>3. \A s \in DOMAIN pool.slots :
           /\ pool.slots[s] \in Records
           /\ pool.slots[s].Reference = Reference(s, pool.generations[s])
    BY <1>1
  <2>4. /\ DOMAIN pool.slots \subseteq Slots
        /\ pool.revision = Len(pool.events)
        /\ pool.owned \subseteq Producers
        /\ pool.sealed \in BOOLEAN
        /\ pool.publications \in Nat
    <3>1. DOMAIN pool.slots \subseteq Slots /\ pool.owned \subseteq Producers
      BY <1>1
    <3>2. pool.sealed \in BOOLEAN
      BY <1>1
    <3>3. pool.revision = Len(pool.events) /\ pool.publications \in Nat
      BY <1>1, <2>2
    <3> QED
      BY <3>1, <3>2, <3>3
  <2> QED
    BY <2>1, <2>2, <2>3, <2>4 DEF PoolTypeOK
<1>3. JournalTellsTheSlots /\ SnapshotTellsItsSlots
  BY <1>1 DEF JournalTellsTheSlots, SnapshotTellsItsSlots, TellsSlots
<1>4. CensusAddsUp
  <2>1. {i \in 1..Len(pool.events) : pool.events[i].Kind = "Released"} = {}
    BY <1>1
  <2>2. {i \in 1..Len(pool.events) : pool.events[i].Kind = "Allocated"} = {}
    BY <1>1
  <2>3. SlotsAddUp(pool.slots, pool.events)
    BY <1>1, <2>1, <2>2, FS_EmptySet DEF SlotsAddUp, Count
  <2> QED
    BY <1>1, <2>3, CensusOfPool DEF CensusAddsUp
<1>5. ExtentIsFinal /\ NoneBeforeTheFirst
  BY <1>1 DEF ExtentIsFinal, NoneBeforeTheFirst
<1>6. GenerationsCount
  BY <1>1 DEF GenerationsCount, EventsOf
<1> QED
  BY <1>1, <1>2, <1>3, <1>4, <1>5, <1>6 DEF IInv, Shape

(* The invariant is inductive.                                             *)
LEMMA IInvStep == IInv /\ [PoolNext]_poolVars => IInv'
  BY ShapeStep, TypeStep, JournalStep, SnapshotStep, CensusStep, ExtentStep,
     GenerationsStep DEF IInv

(* Slots, journal, census and extent agree, in the pool and in whatever a  *)
(* reader was given of it (NativeVehiclePool.cpp:217).                     *)
THEOREM PoolCanBeTrusted == PoolSpec => []SnapshotsCanBeTrusted
<1>1. IInv => SnapshotsCanBeTrusted
  BY DEF IInv, SnapshotsCanBeTrusted
<1> QED
  BY IInvInit, IInvStep, <1>1, PTL DEF PoolSpec

(* A reference that outlived its vehicle resolves to nothing before its    *)
(* slot was given away Generations times (NativeVehiclePool.cpp:129, :192).*)
THEOREM StaleReferencesAreRejected == PoolSpec => []StaleReferenceIsRejected
<1>1. ASSUME PoolTypeOK, GenerationsCount
      PROVE  StaleReferenceIsRejected
  <2> SUFFICES ASSUME NEW i \in EventsOf(pool, "Allocated"),
                      Resolves(pool, pool.events[i].Reference)
               PROVE  \/ ReusesSince(pool, i) = 0
                      \/ ReusesSince(pool, i) >= Generations
    BY DEF StaleReferenceIsRejected
  <2>1. PICK s \in Slots, g \in 0..(Generations - 1) :
           /\ pool.events[i].Reference = Reference(s, g)
           /\ \/ Reuses(pool.events, i) >= Generations
              \/ pool.generations[s] = After(g, Reuses(pool.events, i))
    BY <1>1 DEF GenerationsCount, CountsFrom
  <2>2. SlotOf(pool.events[i].Reference) = s
    BY <2>1, ReferenceOfGeneration
  <2>3. /\ s \in DOMAIN pool.slots
        /\ pool.slots[s].Reference = Reference(s, g)
    BY <2>1, <2>2 DEF Resolves
  <2>4. /\ pool.slots[s].Reference = Reference(s, pool.generations[s])
        /\ pool.generations \in [Slots -> 0..(Generations - 1)]
        /\ pool.events \in Seq(Events)
    BY <1>1, <2>3 DEF PoolTypeOK
  <2>5. s \in Nat /\ g \in 0..255 /\ pool.generations[s] \in 0..255
    <3>1. pool.generations[s] \in 0..(Generations - 1)
      BY <2>4
    <3>2. s \in Nat
      BY SlotsAreNat
    <3>3. Generations \in 1..256
      BY PoolAssumption
    <3> QED
      BY <3>1, <3>2, <3>3
  <2>6. pool.generations[s] = g
    BY <2>3, <2>4, <2>5, ReferenceNamesGeneration
  <2>7. PICK r \in Nat : r = Reuses(pool.events, i)
    <3>1. i \in 1..Len(pool.events) /\ pool.events[i] \in Events
      BY <2>4 DEF EventsOf
    <3> QED
      BY <2>4, <3>1, ReusesAppend
  <2>8. r = 0 \/ r >= Generations
    BY <2>1, <2>6, <2>7, PoolAssumption DEF After
  <2> QED
    BY <2>7, <2>8, ReusesSinceIsReuses
<1>2. IInv => StaleReferenceIsRejected
  BY <1>1 DEF IInv
<1> QED
  BY IInvInit, IInvStep, <1>2, PTL DEF PoolSpec
=============================================================================
