------------------------- MODULE NativeVehiclePool -------------------------
(***************************************************************************)
(* The vehicles of the Linux port: slots of a fixed table, references made *)
(* of a slot and a generation of a few bits, a journal of every change and *)
(* snapshots for the readers (NativeVehiclePool.h, NativeVehiclePool.cpp). *)
(*                                                                         *)
(* The pool is one value, so that an owner who makes several calls in one  *)
(* step (NativeSourceVehicleLifecycle) can compose them.  What a vehicle   *)
(* is (model, matrix, status) is a member of States; calls with a state    *)
(* that ValidState refuses change nothing and are left out.                *)
(***************************************************************************)
EXTENDS Integers, Sequences, FiniteSets

CONSTANTS
    Capacity,       \* number of slots (110)
    Generations,    \* number of generations of a slot (0x7f + 1)
    Producers,      \* who may own vehicles
    States,         \* the states ValidState accepts
    MaxEvents,      \* bound on the journal
    MaxUpdates,     \* bound on the updates in it
    MaxFrames       \* bound on the frames of the snapshots

ASSUME PoolAssumption ==
    /\ Capacity \in Nat \ {0}
    /\ Generations \in 1..256       \* the generation has the low eight bits
    /\ MaxEvents \in Nat /\ MaxUpdates \in Nat /\ MaxFrames \in Nat

VARIABLES
    pool,           \* the NativeVehiclePool
    snapshot        \* the last NativeVehiclePoolSnapshot, NoSnapshot before

poolVars == <<pool, snapshot>>

Slots == 0..(Capacity - 1)

(***************************************************************************)
(* References.                                                             *)
(***************************************************************************)
Reference(slot, generation) == slot * 256 + generation
SlotOf(reference) == reference \div 256

Resolves(p, reference) ==
    /\ SlotOf(reference) \in DOMAIN p.slots
    /\ p.slots[SlotOf(reference)].Reference = reference

(***************************************************************************)
(* The calls that change vehicles, on a pool p.                            *)
(***************************************************************************)
FreeSlots(p) == Slots \ DOMAIN p.slots
FirstFree(p) == CHOOSE s \in FreeSlots(p) : \A t \in FreeSlots(p) : s <= t

Logged(p, kind, record) ==
    [p EXCEPT !.events = Append(@, [Kind |-> kind, Reference |-> record.Reference,
                                    State |-> record.State]),
              !.revision = @ + 1]

Stored(p, slot, record) ==
    [p EXCEPT !.slots = [s \in DOMAIN @ \cup {slot} |->
                            IF s = slot THEN record ELSE @[s]]]

CanAllocate(p, producer) ==
    /\ p.sealed
    /\ producer \in p.owned
    /\ FreeSlots(p) # {}

\* Mutant: the generation is not remembered
Allocated_ForgetsGeneration(p, producer, state) ==
    LET slot == FirstFree(p)
        record == [Reference |-> Reference(slot, (p.generations[slot] + 1) % Generations),
                   Producer |-> producer, State |-> state]
    IN Stored(Logged(p, "Allocated", record), slot, record)

\* Mutant: a slot keeps its generation
Allocated_SameGeneration(p, producer, state) ==
    LET slot == FirstFree(p)
        record == [Reference |-> Reference(slot, p.generations[slot]),
                   Producer |-> producer, State |-> state]
    IN Stored(Logged(p, "Allocated", record), slot, record)

Allocated(p, producer, state) ==
    LET slot == FirstFree(p)
        generation == (p.generations[slot] + 1) % Generations
        record == [Reference |-> Reference(slot, generation),
                   Producer |-> producer, State |-> state]
    IN [Stored(Logged(p, "Allocated", record), slot, record)
            EXCEPT !.generations[slot] = generation]

\* Mutant: the journal gets the state before the update
Updated_LogsTheOld(p, reference, state) ==
    LET slot == SlotOf(reference)
    IN Stored(Logged(p, "Updated", p.slots[slot]), slot,
              [p.slots[slot] EXCEPT !.State = state])

Updated(p, reference, state) ==
    LET slot == SlotOf(reference)
        record == [p.slots[slot] EXCEPT !.State = state]
    IN Stored(Logged(p, "Updated", record), slot, record)

\* Mutant: the journal is not told
Released_Silent(p, reference) ==
    [p EXCEPT !.revision = @ + 1,
              !.slots = [s \in DOMAIN @ \ {SlotOf(reference)} |-> @[s]]]

Released(p, reference) ==
    LET slot == SlotOf(reference)
    IN [Logged(p, "Released", p.slots[slot])
            EXCEPT !.slots = [s \in DOMAIN @ \ {slot} |-> @[s]]]

(***************************************************************************)
(* The census, and the snapshot a reader gets of it.                       *)
(***************************************************************************)
EventsOf(p, kind) == {i \in 1..Len(p.events) : p.events[i].Kind = kind}

Census(p) ==
    [Alive    |-> Cardinality(DOMAIN p.slots),
     Created  |-> Cardinality(EventsOf(p, "Allocated")),
     Updated  |-> Cardinality(EventsOf(p, "Updated")),
     Released |-> Cardinality(EventsOf(p, "Released")),
     Revision |-> p.revision,
     Owned    |-> p.owned,
     Complete |-> p.sealed]

NoSnapshot == [Frame |-> -1]

-----------------------------------------------------------------------------
EmptyPool ==
    [slots |-> [s \in {} |-> {}], generations |-> [s \in Slots |-> 0],
     events |-> <<>>, revision |-> 0, owned |-> {}, sealed |-> FALSE,
     publications |-> 0]

PoolInit == pool = EmptyPool /\ snapshot = NoSnapshot

(* BindProducer, SealProducerExtent: the startup, over as soon as the      *)
(* extent is sealed or anything has been published.                        *)
\* Mutant: a producer may come after the first snapshot
BindProducer_AfterPublish(producer) ==
    /\ ~pool.sealed
    /\ producer \notin pool.owned
    /\ pool' = [pool EXCEPT !.owned = @ \cup {producer}]
    /\ UNCHANGED snapshot

BindProducer(producer) ==
    /\ ~pool.sealed /\ pool.publications = 0
    /\ producer \notin pool.owned
    /\ pool' = [pool EXCEPT !.owned = @ \cup {producer}]
    /\ UNCHANGED snapshot

SealProducerExtent ==
    /\ ~pool.sealed /\ pool.publications = 0
    /\ pool.owned # {}
    /\ pool' = [pool EXCEPT !.sealed = TRUE]
    /\ UNCHANGED snapshot

(* A holder has a reference from the time it was returned, and may use it  *)
(* long after its vehicle is gone.                                         *)
Held(p) == {p.events[i].Reference : i \in EventsOf(p, "Allocated")}

Allocate(producer, state) ==
    /\ CanAllocate(pool, producer)
    /\ Len(pool.events) < MaxEvents
    /\ pool' = Allocated(pool, producer, state)
    /\ UNCHANGED snapshot

Update(reference, state) ==
    /\ Resolves(pool, reference)
    /\ Len(pool.events) < MaxEvents
    /\ Cardinality(EventsOf(pool, "Updated")) < MaxUpdates
    /\ pool' = Updated(pool, reference, state)
    /\ UNCHANGED snapshot

Release(reference) ==
    /\ Resolves(pool, reference)
    /\ Len(pool.events) < MaxEvents
    /\ pool' = Released(pool, reference)
    /\ UNCHANGED snapshot

\* Mutant: a reader gets the events since the last snapshot
Publish_NewEvents(frame) ==
    LET known == IF snapshot = NoSnapshot THEN 0 ELSE snapshot.Census.Revision
    IN  /\ frame > snapshot.Frame
        /\ pool' = [pool EXCEPT !.publications = @ + 1]
        /\ snapshot' = [Frame |-> frame, Generation |-> pool.publications + 1,
                        Census |-> Census(pool), Slots |-> pool.slots,
                        Events |-> SubSeq(pool.events, known + 1, Len(pool.events))]

Publish(frame) ==
    /\ frame > snapshot.Frame        \* m_LastPublishedFrame
    /\ pool' = [pool EXCEPT !.publications = @ + 1]
    /\ snapshot' = [Frame |-> frame, Generation |-> pool.publications + 1,
                    Census |-> Census(pool), Slots |-> pool.slots,
                    Events |-> pool.events]

PoolNext ==
    \/ \E producer \in Producers : BindProducer(producer)
    \/ SealProducerExtent
    \/ \E producer \in Producers, state \in States : Allocate(producer, state)
    \/ \E reference \in Held(pool), state \in States : Update(reference, state)
    \/ \E reference \in Held(pool) : Release(reference)
    \/ \E frame \in 0..(MaxFrames - 1) : Publish(frame)

PoolSpec == PoolInit /\ [][PoolNext]_poolVars

-----------------------------------------------------------------------------
(***************************************************************************)
(* Properties.                                                             *)
(***************************************************************************)
Records == [Reference : 0..(Capacity * 256), Producer : Producers, State : States]
Events == [Kind : {"Allocated", "Updated", "Released"},
           Reference : 0..(Capacity * 256), State : States]

(* The type of the pool; a vehicle sits in the slot its reference names,   *)
(* with the generation the slot has reached (NativeVehiclePool.cpp:129).   *)
PoolTypeOK ==
    /\ DOMAIN pool.slots \subseteq Slots
    /\ \A s \in DOMAIN pool.slots :
          /\ pool.slots[s] \in Records
          /\ pool.slots[s].Reference = Reference(s, pool.generations[s])
    /\ pool.generations \in [Slots -> 0..(Generations - 1)]
    /\ pool.events \in Seq(Events)
    /\ pool.revision = Len(pool.events)
    /\ pool.owned \subseteq Producers
    /\ pool.sealed \in BOOLEAN
    /\ pool.publications \in Nat

(* The journal of p tells what is in its slots: a slot is occupied exactly *)
(* when the last thing that happened to it was no release, and then by the *)
(* vehicle, in the state, the journal says.  Readers of a snapshot get     *)
(* both and combine them.                                                  *)
About(events, s) == {i \in 1..Len(events) : SlotOf(events[i].Reference) = s}
LastAbout(events, s, i) ==
    /\ i \in About(events, s)
    /\ \A j \in About(events, s) : j <= i

TellsSlots(events, slots) ==
    \A s \in Slots :
        IF s \in DOMAIN slots
        THEN \E i \in 1..Len(events) :
                /\ LastAbout(events, s, i)
                /\ events[i].Kind # "Released"
                /\ events[i].Reference = slots[s].Reference
                /\ events[i].State = slots[s].State
        ELSE \A i \in 1..Len(events) :
                LastAbout(events, s, i) => events[i].Kind = "Released"

JournalTellsTheSlots == TellsSlots(pool.events, pool.slots)
SnapshotTellsItsSlots ==
    snapshot # NoSnapshot => TellsSlots(snapshot.Events, snapshot.Slots)

(* As many vehicles are alive as were created and not released, in the     *)
(* pool and in what a reader was given, however old.                       *)
AddsUp(census) == census.Alive + census.Released = census.Created
CensusAddsUp ==
    /\ AddsUp(Census(pool))
    /\ snapshot # NoSnapshot => AddsUp(snapshot.Census)

(* How often the slot of the i-th event has been given away since.         *)
ReusesSince(p, i) ==
    Cardinality({j \in EventsOf(p, "Allocated") :
                    j > i /\ SlotOf(p.events[j].Reference) = SlotOf(p.events[i].Reference)})

(* A reference kept beyond its vehicle's life resolves to nothing, as long *)
(* as its slot was given away less than Generations times since            *)
(* (NativeVehiclePool.cpp:129, :192).                                      *)
StaleReferenceIsRejected ==
    \A i \in EventsOf(pool, "Allocated") :
        Resolves(pool, pool.events[i].Reference)
            => \/ ReusesSince(pool, i) = 0
               \/ ReusesSince(pool, i) >= Generations

(* Once a reader has been told that the producers are all known, or has    *)
(* been told anything, nobody joins; vehicles exist only with that         *)
(* (NativeVehiclePool.h:185, NativeVehiclePool.cpp:84).                    *)
ExtentIsFinal ==
    /\ snapshot # NoSnapshot =>
          /\ snapshot.Census.Owned = pool.owned
          /\ snapshot.Census.Complete = pool.sealed
    /\ \A s \in DOMAIN pool.slots : pool.sealed /\ pool.slots[s].Producer \in pool.owned

(* Slots, journal, census and extent, in the pool and as a reader has them *)
(* (NativeVehiclePool.cpp:217): all that is taken from a snapshot is true. *)
SnapshotsCanBeTrusted ==
    /\ PoolTypeOK
    /\ JournalTellsTheSlots /\ SnapshotTellsItsSlots
    /\ CensusAddsUp
    /\ ExtentIsFinal
=============================================================================
