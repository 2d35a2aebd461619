----------------------------- MODULE Streaming -----------------------------
(***************************************************************************)
(* Models on demand: CStreaming (source/game_sa/Streaming.cpp).            *)
(*                                                                         *)
(* The game requests and removes models; requests wait in a list.  Every   *)
(* frame LoadRequestedModels moves on two channels, each with a stream of  *)
(* CdStream and one half of the streaming buffer.  A channel reads models  *)
(* that lie one after another on the disc, and turns them into objects     *)
(* when the read is over.  Only the main thread is here; the streams are   *)
(* those of CdStreamService, and they move between any two calls that      *)
(* CStreaming makes to CdStream.                                           *)
(*                                                                         *)
(* st is CStreaming's static data.  The functions that change it without   *)
(* a call to CdStream are operators from a state to a state, or to the     *)
(* set of states that may come of it.  todo is what is left to do of the   *)
(* call the game has made.                                                 *)
(*                                                                         *)
(* One image file; no dictionary of textures has a parent; the references  *)
(* of entities, vehicles and scripts are not counted: a loaded model may   *)
(* be in use or not at any time.                                           *)
(***************************************************************************)
EXTENDS Integers, FiniteSets, SequencesExt

CONSTANTS Models, MODEL_INVALID,
          Type,                   \* the type of each model
          Txd, Anim,              \* what a DFF needs, or MODEL_INVALID
          CdOffset, CdSize,       \* where each model is, in sectors
          NextOnCd,               \* the model that follows it, or MODEL_INVALID
          ms_streamingBufferSize, \* half of the buffer, in sectors
          ms_memoryAvailable,
          LargeishSize,           \* 200 sectors
          NumSlots,               \* the models a channel reads at once (16)
          UINT32,                 \* 2^32, or less
          Garbage,
          GameRequests,           \* what the game requests: models and flags
          GameRemovals,           \* what the game removes
          GameReleases,           \* what missions no longer require
          MaxCalls,               \* bound on the calls of the game
          MaxFaults               \* bound on failed reads and conversions

Channels == {0, 1}

DFFs == {m \in Models : Type[m] \in {"ATOMIC", "PED", "VEHICLE"}}
Txds == {m \in Models : Type[m] = "TXD"}
Ifps == {m \in Models : Type[m] = "IFP"}

\* The dictionary of textures and the animations a model is made with
Needs(m) == IF m \in DFFs THEN {Txd[m], Anim[m]} \ {MODEL_INVALID} ELSE {}

\* The models whose conversion may fail; the models that can be evicted
MayFail == DFFs \cup {m \in Models : Type[m] \in {"TXD", "COL", "IPL"}}
Listed  == {m \in Models : Type[m] \in {"ATOMIC", "TXD", "IFP", "SCM"}}

LoadStates == {"NOT_LOADED", "LOADED", "REQUESTED", "READING", "FINISHING"}
Flags == {"GAME_REQUIRED", "MISSION_REQUIRED", "KEEP_IN_MEMORY",
          "PRIORITY_REQUEST", "LOADING_SCENE"}

Reads == [offset : {CdOffset[m] : m \in Models}, sectors : Nat]

ASSUME ModelAssumption ==
    /\ IsFiniteSet(Models)
    /\ MODEL_INVALID \notin Models
    /\ Type \in [Models -> {"ATOMIC", "PED", "VEHICLE", "TXD", "COL", "IPL",
                            "DAT", "IFP", "RRR", "SCM"}]
    /\ Txd \in [DFFs -> Txds]
    /\ Anim \in [DFFs -> Ifps \cup {MODEL_INVALID}]
ASSUME DiscAssumption ==
    /\ CdOffset \in [Models -> Nat]
    /\ CdSize \in [Models -> Nat \ {0}]
    /\ NextOnCd \in [Models -> Models \cup {MODEL_INVALID}]
    /\ \A m \in Models : NextOnCd[m] # MODEL_INVALID =>
           CdOffset[NextOnCd[m]] = CdOffset[m] + CdSize[m]
ASSUME CallAssumption ==
    /\ GameRequests \subseteq [model : Models, flags : SUBSET Flags]
    /\ GameRemovals \cup GameReleases \subseteq Models
ASSUME BoundAssumption ==
    /\ ms_streamingBufferSize \in Nat
    /\ NumSlots \in Nat
    /\ UINT32 \in Nat \ {0}

VARIABLES st, todo,
          currentChannel, \* of LoadRequestedModels
          loop,           \* the variables of LoadAllRequestedModels
          calls,          \* the calls the game has made
          phase, request, status, data, ret, \* see CdStreamService
          spare, taken                       \* see CdStreamEmptyReads

streamVars == <<phase, request, status, data, ret, spare, taken>>
vars == <<st, todo, currentChannel, loop, calls, streamVars>>

Stream == INSTANCE CdStreamEmptyReads WITH Streams <- Channels

IdleChannel == [LoadStatus |-> "IDLE", models |-> <<>>, pos |-> 0, sectorCount |-> 0]

NoLoop == [n |-> 0, ch |-> 0, only |-> FALSE]

Init ==
    /\ st = [LoadState |-> [m \in Models |-> "NOT_LOADED"],
             Flags     |-> [m \in Models |-> {}],
             requested |-> <<>>,  \* the request list, from its start
             loaded    |-> {},    \* the loaded list
             ms_numModelsRequested  |-> 0,
             ms_numPriorityRequests |-> 0,
             ms_bLoadingBigModel    |-> FALSE,
             ms_channel      |-> [c \in Channels |-> IdleChannel],
             ms_channelError |-> -1,
             ms_memoryUsed   |-> 0,
             faults |-> 0]        \* reads and conversions that failed
    /\ todo = <<>>
    /\ currentChannel = 0
    /\ loop = NoLoop
    /\ calls = 0
    /\ Stream!Init

-----------------------------------------------------------------------------
(***************************************************************************)
(* Requests.                                                               *)
(***************************************************************************)

IsMissionOrGameRequired(s, m) ==
    s.Flags[m] \cap {"MISSION_REQUIRED", "GAME_REQUIRED"} # {}

IsRequiredToBeKept(s, m) ==
    IsMissionOrGameRequired(s, m) \/ "KEEP_IN_MEMORY" \in s.Flags[m]

IsLoadedOrBeingRead(s, m) == s.LoadState[m] \in {"LOADED", "READING"}

IsPriority(flags) == "PRIORITY_REQUEST" \in flags

\* Mutant: the count goes below 0
Priorities_NoWrap(s, k) == [s EXCEPT !.ms_numPriorityRequests = @ + k]

Priorities(s, k) == [s EXCEPT !.ms_numPriorityRequests = (@ + k + UINT32) % UINT32]

\* Whether anything that is requested or being read needs a model
\* (AreTexturesUsedByRequestedModels, AreAnimsUsedByRequestedModels)
AreUsedByRequestedModels(s, n) ==
    \E m \in Range(s.requested) \cup UNION {{x.id : x \in Range(s.ms_channel[c].models)} : c \in Channels} :
        n \in Needs(m)

NewRequest(s, m, flags) ==
    Priorities([s EXCEPT !.LoadState[m] = "REQUESTED", !.Flags[m] = flags,
                         !.requested = <<m>> \o @, !.ms_numModelsRequested = @ + 1],
               IF IsPriority(flags) THEN 1 ELSE 0)

AgainRequested(s, m, flags) ==
    Priorities([s EXCEPT !.Flags[m] = @ \cup flags],
               IF IsPriority(flags) /\ ~IsPriority(s.Flags[m]) THEN 1 ELSE 0)

\* Mutant: what is wanted again is not put back on the loaded list
Touched_NotPutBack(s, m) == [s EXCEPT !.loaded = @ \ {m}]

\* A loaded model that is wanted again
Touched(s, m) ==
    IF m \in s.loaded /\ (Type[m] \in {"PED", "VEHICLE"} \/ IsMissionOrGameRequired(s, m))
    THEN [s EXCEPT !.loaded = @ \ {m}]
    ELSE s

RequestAlone(s, m, flags) ==
    LET late == [s EXCEPT !.Flags[m] = @ \cup (flags \ {"PRIORITY_REQUEST"})] IN
    CASE s.LoadState[m] = "NOT_LOADED" -> NewRequest(s, m, flags)
      [] s.LoadState[m] = "REQUESTED"  -> AgainRequested(s, m, flags)
      [] s.LoadState[m] = "LOADED"     -> Touched(late, m)
      [] OTHER                         -> late

RequestAnim(s, m) ==
    IF Anim[m] = MODEL_INVALID THEN s ELSE RequestAlone(s, Anim[m], {"KEEP_IN_MEMORY"})

RequestModel(s, m, flags) ==
    IF m \in DFFs /\ s.LoadState[m] = "NOT_LOADED"
    THEN RequestAlone(RequestAnim(RequestAlone(s, Txd[m], flags), m), m, flags)
    ELSE RequestAlone(s, m, flags)

-----------------------------------------------------------------------------
(***************************************************************************)
(* Removal.                                                                *)
(***************************************************************************)

\* Mutant: ms_numModelsRequested is not decremented
Withdrawn_NotCounted(s, m) ==
    Priorities([s EXCEPT !.requested = RemoveFirst(@, m),
                         !.Flags[m] = @ \ {"PRIORITY_REQUEST"}],
               IF IsPriority(s.Flags[m]) THEN -1 ELSE 0)

\* Off the request list
Withdrawn(s, m) ==
    Priorities([s EXCEPT !.requested = RemoveFirst(@, m),
                         !.Flags[m] = @ \ {"PRIORITY_REQUEST"},
                         !.ms_numModelsRequested = @ - 1],
               IF IsPriority(s.Flags[m]) THEN -1 ELSE 0)

\* Mutant: the channel still converts a model that was removed
Forgotten_Kept(s, m) == s

\* The channel that reads it forgets it
Forgotten(s, m) ==
    [s EXCEPT !.ms_channel = [c \in Channels |->
        [s.ms_channel[c] EXCEPT !.models = [i \in DOMAIN @ |->
            IF @[i].id = m THEN [@[i] EXCEPT !.id = MODEL_INVALID] ELSE @[i]]]]]

RemoveAlone(s, m) ==
    LET s1 == CASE s.LoadState[m] = "REQUESTED" -> Withdrawn(s, m)
                [] s.LoadState[m] = "READING"   -> Forgotten(s, m)
                [] s.LoadState[m] = "LOADED"    -> [s EXCEPT !.ms_memoryUsed = @ - CdSize[m]]
                [] OTHER                        -> s
    IN [s1 EXCEPT !.loaded = @ \ {m}, !.LoadState[m] = "NOT_LOADED"]

TxdIsReferenced(s, t) == \E m \in DFFs : Txd[m] = t /\ s.LoadState[m] = "LOADED"

\* The last object that uses a dictionary of textures takes it along
\* (DeleteRwObject, CTxdStore::RemoveRef)
RemoveModel(s, m) ==
    LET s1 == RemoveAlone(s, m) IN
    IF m \in DFFs /\ s.LoadState[m] = "LOADED" /\ ~TxdIsReferenced(s1, Txd[m])
    THEN RemoveAlone(s1, Txd[m])
    ELSE s1

\* Mutant: the conversion is tried again without a removal
RequestAgain_NotRemoved(s, m) == RequestModel(s, m, s.Flags[m])

\* How a conversion that cannot be done ends
RequestAgain(s, m) == RequestModel(RemoveModel(s, m), m, s.Flags[m])

SetModelIsDeletable(s, m) ==
    LET s1 == [s EXCEPT !.Flags[m] = @ \ {"MISSION_REQUIRED"}] IN
    IF "GAME_REQUIRED" \in s1.Flags[m] THEN s1
    ELSE IF s.LoadState[m] = "LOADED" THEN [s1 EXCEPT !.loaded = @ \cup {m}]
    ELSE IF "KEEP_IN_MEMORY" \in s1.Flags[m] THEN s1
    ELSE RemoveModel(s1, m)

SetMissionDoesntRequireModel(s, m) ==
    LET s1 == SetModelIsDeletable(s, m) IN
    IF m \in DFFs THEN SetModelIsDeletable(s1, Txd[m]) ELSE s1

\* The states as one request after another goes, if it is for one of some models
RemovedUpTo(s, models) ==
    LET after[i \in 0 .. Len(s.requested)] ==
            IF i = 0 THEN s
            ELSE IF s.requested[i] \in models THEN RemoveModel(after[i - 1], s.requested[i])
            ELSE after[i - 1]
    IN after

RemoveRequests(s, models) == RemovedUpTo(s, models)[Len(s.requested)]

PurgeRequestList(s) ==
    RemoveRequests(s, {m \in Models : ~IsRequiredToBeKept(s, m) /\ ~IsPriority(s.Flags[m])})

-----------------------------------------------------------------------------
(***************************************************************************)
(* What to read next.                                                      *)
(***************************************************************************)

Ready(s, m) == \A n \in Needs(m) : IsLoadedOrBeingRead(s, n)

\* GetNextFileOnCd at one model of the list: what a DFF lacks is requested
\* once more, its textures first
Visit(acc, m, ifpsMayLoad) ==
    LET s == acc.s
        lacking(n) == n # MODEL_INVALID /\ ~IsLoadedOrBeingRead(s, n)
    IN IF s.ms_numPriorityRequests # 0 /\ ~IsPriority(s.Flags[m]) THEN acc
       ELSE IF m \in DFFs /\ lacking(Txd[m])
            THEN [acc EXCEPT !.s = RequestModel(s, Txd[m], s.Flags[m])]
       ELSE IF m \in DFFs /\ lacking(Anim[m])
            THEN [acc EXCEPT !.s = RequestAnim(s, m)]
       ELSE IF m \in Ifps /\ ~ifpsMayLoad THEN acc
       ELSE [acc EXCEPT !.eligible = @ \cup {m}]

\* The first of some models on the disc
FirstOnCd(models) ==
    CHOOSE m \in models : \A n \in models : CdOffset[m] <= CdOffset[n]

VisitedUpTo(s, ifpsMayLoad) ==
    LET after[i \in 0 .. Len(s.requested)] ==
            IF i = 0 THEN [s |-> s, eligible |-> {}]
            ELSE Visit(after[i - 1], s.requested[i], ifpsMayLoad)
    IN after

\* The next model from a place on the disc on, or the first one; the state
NextOf(walk, posn) ==
    LET ahead == {m \in walk.eligible : CdOffset[m] >= posn}
    IN IF walk.eligible = {}
       THEN [s |-> [walk.s EXCEPT !.ms_numPriorityRequests = 0], id |-> MODEL_INVALID]
       ELSE [s |-> walk.s,
             id |-> FirstOnCd(IF ahead = {} THEN walk.eligible ELSE ahead)]

GetNextFileOnCd(s, posn, ifpsMayLoad) ==
    NextOf(VisitedUpTo(s, ifpsMayLoad)[Len(s.requested)], posn)

\* Textures and animations that nobody waits for any more are not read
IsUnused(s, m) ==
    /\ m \in Txds \cup Ifps
    /\ ~IsRequiredToBeKept(s, m)
    /\ ~AreUsedByRequestedModels(s, m)

\* The model that RequestModelStream begins with; unused ones are removed
Following(x, ifpsMayLoad) ==
    IF x.id = MODEL_INVALID \/ ~IsUnused(x.s, x.id) THEN x
    ELSE GetNextFileOnCd(RemoveModel(x.s, x.id), CdOffset[x.id] + CdSize[x.id], ifpsMayLoad)

FoundUpTo(s, posn, ifpsMayLoad) ==
    LET after[n \in 0 .. Cardinality(Models)] ==
            IF n = 0 THEN GetNextFileOnCd(s, posn, ifpsMayLoad)
            ELSE Following(after[n - 1], ifpsMayLoad)
    IN after

FirstToRead(s, posn, ifpsMayLoad) == FoundUpTo(s, posn, ifpsMayLoad)[Cardinality(Models)]

\* Whether a model may join those that a channel is going to read
MayJoin(a, m, ifpsMayLoad) ==
    /\ a.s.LoadState[m] = "REQUESTED"
    /\ a.s.ms_numPriorityRequests # 0 => IsPriority(a.s.Flags[m])
    /\ Ready(a.s, m)
    /\ a.afterPed => Type[m] # "PED"
    /\ a.afterBig => /\ Type[m] # "VEHICLE"
                     /\ m \notin DFFs \cup Ifps => CdSize[m] <= LargeishSize
    /\ m \in Ifps => ifpsMayLoad
    /\ a.models # <<>> => a.sectors + CdSize[m] <= ms_streamingBufferSize

\* Mutant: a model is looked for where it ends
Joined_AtItsEnd(a, m) ==
    [s |-> [Withdrawn(a.s, m) EXCEPT !.LoadState[m] = "READING"],
     next     |-> NextOnCd[m],
     models   |-> Append(a.models, [id |-> m, at |-> a.sectors + CdSize[m]]),
     sectors  |-> a.sectors + CdSize[m],
     afterPed |-> a.afterPed, afterBig |-> a.afterBig]

\* A model leaves the request list for a channel
Joined(a, m) ==
    [s |-> [Withdrawn(a.s, m) EXCEPT !.LoadState[m] = "READING"],
     next     |-> NextOnCd[m],
     models   |-> Append(a.models, [id |-> m, at |-> a.sectors]),
     sectors  |-> a.sectors + CdSize[m],
     afterPed |-> a.afterPed \/ Type[m] = "PED",
     afterBig |-> \/ a.afterBig
                  \/ Type[m] = "VEHICLE"
                  \/ m \notin DFFs /\ CdSize[m] > LargeishSize]

NoBatch(s, m) ==
    [s |-> s, next |-> m, models |-> <<>>, sectors |-> 0, afterPed |-> FALSE, afterBig |-> FALSE]

Continued(a, ifpsMayLoad) ==
    IF a.next # MODEL_INVALID /\ MayJoin(a, a.next, ifpsMayLoad)
    THEN Joined(a, a.next)
    ELSE [a EXCEPT !.next = MODEL_INVALID]

JoinedUpTo(s, m, ifpsMayLoad) ==
    LET after[n \in 0 .. NumSlots] ==
            IF n = 0 THEN NoBatch(s, m) ELSE Continued(after[n - 1], ifpsMayLoad)
    IN after

\* The models from m on that lie one after another and may be read in one go
Batch(s, m, ifpsMayLoad) == JoinedUpTo(s, m, ifpsMayLoad)[NumSlots]

IsBig(m) == CdSize[m] > ms_streamingBufferSize

\* Mutant: the other channel may be at work
BigMayLoad_WhileBusy(s, c) == c = 0

\* A big model is read into both halves of the buffer, through channel 0
BigMayLoad(s, c) == c = 0 /\ s.ms_channel[1].LoadStatus = "IDLE"

\* RequestModelStream up to its CdStreamRead: the state, and whether it reads
RequestModelStream(s, c, posn, ifpsMayLoad) ==
    LET first == FirstToRead(s, posn, ifpsMayLoad)
        m     == first.id
        batch == Batch(first.s, m, ifpsMayLoad)
    IN IF m = MODEL_INVALID \/ (IsBig(m) /\ ~BigMayLoad(first.s, c))
       THEN [s |-> first.s, reads |-> FALSE]
       ELSE [s |-> [batch.s EXCEPT
                !.ms_bLoadingBigModel = @ \/ IsBig(m),
                !.ms_channel[c] = [LoadStatus |-> "READING", models |-> batch.models,
                                   pos |-> CdOffset[m], sectorCount |-> batch.sectors]],
             reads |-> TRUE]

-----------------------------------------------------------------------------
(***************************************************************************)
(* Turning what was read into objects.  The operators give the set of      *)
(* states that may come of it.                                             *)
(***************************************************************************)

\* Mutant: references are not looked at
CanBeEvicted_InUse(s, m) == m \in s.loaded \cap (DFFs \cup Listed)

\* RemoveLeastUsedModel: a model of the loaded list that nobody needs, or a
\* vehicle or ped (RemoveLoadedVehicle, RemoveLoadedZoneModel)
CanBeEvicted(s, m) ==
    \/ /\ m \in s.loaded \cap (DFFs \cup Listed)
       /\ "LOADING_SCENE" \notin s.Flags[m]
       /\ m \in Txds \cup Ifps =>
              /\ ~AreUsedByRequestedModels(s, m)
              /\ \A d \in DFFs : m \in Needs(d) => s.LoadState[d] # "LOADED"
    \/ /\ Type[m] \in {"VEHICLE", "PED"}
       /\ s.LoadState[m] = "LOADED"
       /\ ~IsMissionOrGameRequired(s, m)

IsShort(s, size) == s.ms_memoryUsed >= ms_memoryAvailable - size

Evictions(states, size) ==
    {RemoveModel(x[1], x[2]) : x \in {y \in states \X Models :
                                   IsShort(y[1], size) /\ CanBeEvicted(y[1], y[2])}}

EvictedUpTo(s, size) ==
    LET after[n \in 0 .. Cardinality(Models)] ==
            IF n = 0 THEN {s} ELSE after[n - 1] \cup Evictions(after[n - 1], size)
    IN after

\* One model after another is removed, until there is space or no other
\* model is free of references
MakeSpaceFor(s, size) == EvictedUpTo(s, size)[Cardinality(Models)]

\* Mutant: a big dictionary is counted when its first half is there
Converted_CountedEarly(s, m) ==
    LET s1 == [s EXCEPT !.ms_memoryUsed = @ + CdSize[m],
                        !.loaded = IF m \in Listed /\ ~IsMissionOrGameRequired(s, m)
                                   THEN @ \cup {m} ELSE @] IN
    [s1 EXCEPT !.LoadState[m] = IF m \in Txds /\ s.ms_bLoadingBigModel
                                THEN "FINISHING" ELSE "LOADED"]

\* The loaded model, or the first half of a big dictionary
Converted(s, m) ==
    LET s1 == IF m \in Listed /\ ~IsMissionOrGameRequired(s, m)
              THEN [s EXCEPT !.loaded = @ \cup {m}] ELSE s
    IN IF m \in Txds /\ s.ms_bLoadingBigModel
       THEN [s1 EXCEPT !.LoadState[m] = "FINISHING"]
       ELSE [s1 EXCEPT !.LoadState[m] = "LOADED", !.ms_memoryUsed = @ + CdSize[m]]

Failed(s, m) ==
    IF s.faults < MaxFaults THEN {[RequestAgain(s, m) EXCEPT !.faults = @ + 1]} ELSE {}

\* Mutant: only the textures are looked for
Lacks_Textures(s, m) == m \in DFFs /\ s.LoadState[Txd[m]] # "LOADED"

Lacks(s, m) == \E n \in Needs(m) : s.LoadState[n] # "LOADED"

ConvertBufferToObject(s, m) ==
    IF Lacks(s, m) THEN {RequestAgain(s, m)}
    ELSE IF IsUnused(s, m) THEN {RemoveModel(s, m)}
    ELSE {Converted(s, m)} \cup (IF m \in MayFail THEN Failed(s, m) ELSE {})

\* The second half of a big model
FinishLoadingLargeFile(s, m) ==
    LET s1 == [s EXCEPT !.LoadState[m] = "LOADED", !.ms_memoryUsed = @ + CdSize[m]] IN
    IF s.LoadState[m] = "FINISHING" THEN {s1} \cup Failed(s1, m) ELSE {s}

\* RemoveLoadedVehicle may make room for a vehicle
WithRoomFor(s, m) ==
    {s} \cup {RemoveModel(s, v) : v \in {w \in Models :
        /\ Type[m] = "VEHICLE" /\ Type[w] = "VEHICLE"
        /\ s.LoadState[w] = "LOADED" /\ ~IsMissionOrGameRequired(s, w)}}

\* Mutant: the dictionary goes without regard to other vehicles
Dropped_WithItsTextures(s, m) == RemoveModel(RemoveModel(s, m), Txd[m])

\* There is no room for a vehicle that is not required
Dropped(s, m) ==
    LET s1 == RemoveModel(s, m) IN
    IF TxdIsReferenced(s1, Txd[m]) THEN s1 ELSE RemoveModel(s1, Txd[m])

Emptied(s, c, i) == [s EXCEPT !.ms_channel[c].models[i].id = MODEL_INVALID]

\* One model of a channel
LoadOne(s, c, i) ==
    LET m     == s.ms_channel[c].models[i].id
        space == UNION {IF Type[m] = "IPL" THEN {x} ELSE MakeSpaceFor(x, CdSize[m]) :
                            x \in WithRoomFor(s, m)}
        started(x) == IF x.LoadState[m] = "FINISHING"
                      THEN [x EXCEPT !.ms_channel[c].LoadStatus = "STARTED"] ELSE x
        ended(x) == IF x.LoadState[m] = "FINISHING" /\ i = 1
                    THEN started(x) ELSE Emptied(started(x), c, i)
    IN IF m = MODEL_INVALID THEN {s}
       ELSE {ended(x) : x \in UNION {ConvertBufferToObject(y, m) : y \in space}}
            \cup IF Type[m] = "VEHICLE" /\ ~IsMissionOrGameRequired(s, m)
                 THEN {Dropped(x, m) : x \in WithRoomFor(s, m)} ELSE {}

\* Mutant: ms_bLoadingBigModel is never reset
NoBigModel_StillBig(s, c) == s

NoBigModel(s, c) ==
    IF s.ms_bLoadingBigModel /\ s.ms_channel[c].LoadStatus # "STARTED"
    THEN [s EXCEPT !.ms_bLoadingBigModel = FALSE, !.ms_channel[1].models = <<>>]
    ELSE s

LoadedUpTo(s, c, n) ==
    LET after[i \in 0 .. n] == IF i = 0 THEN {s} ELSE UNION {LoadOne(x, c, i) : x \in after[i - 1]}
    IN after

Cleared(s, c) ==
    IF s.ms_channel[c].LoadStatus = "IDLE" THEN [s EXCEPT !.ms_channel[c].models = <<>>] ELSE s

\* ProcessLoadingChannel once the read is over
LoadChannel(s, c) ==
    LET ch   == s.ms_channel[c]
        idle == [s EXCEPT !.ms_channel[c].LoadStatus = "IDLE"]
        n    == Len(ch.models)
        results == IF ch.LoadStatus = "STARTED"
                   THEN {Emptied(x, c, 1) : x \in FinishLoadingLargeFile(idle, ch.models[1].id)}
                   ELSE LoadedUpTo(idle, c, n)[n]
    IN {NoBigModel(Cleared(x, c), c) : x \in results}

-----------------------------------------------------------------------------
(***************************************************************************)
(* The calls the game makes, one at a time.                                *)
(***************************************************************************)

Task(op, c) == [op |-> op, ch |-> c]

Flush ==
    <<Task("Finish", 1), Task("Flush", 0), Task("Finish", 0),
      Task("Flush", 1), Task("Finish", 1), Task("Flushed", 0)>>

\* A call that is over at once
Changes(s) ==
    /\ todo = <<>>
    /\ calls < MaxCalls
    /\ calls' = calls + 1
    /\ st' = s
    /\ UNCHANGED <<todo, currentChannel, loop>>
    /\ Stream!Call

CallRequestModel(r) == Changes(RequestModel(st, r.model, r.flags))

\* Textures and animations are removed only when nothing refers to them
\* (CTxdStore::RemoveRef, TaskComplexPlayHandSignalAnim.cpp:51)
CallRemoveModel(m) ==
    /\ \A d \in DFFs : m \in Needs(d) => st.LoadState[d] # "LOADED"
    /\ Changes(RemoveModel(st, m))

CallMissionDoesntRequireModel(m) == Changes(SetMissionDoesntRequireModel(st, m))

CallPurgeRequestList == Changes(PurgeRequestList(st))

FlushRequestList ==
    /\ todo = <<>>
    /\ calls < MaxCalls
    /\ calls' = calls + 1
    /\ st' = RemoveRequests(st, Models)
    /\ todo' = Flush
    /\ UNCHANGED <<currentChannel, loop>>
    /\ Stream!Call

LoadAllRequestedModels(bOnlyPriorityRequests) ==
    /\ todo = <<>>
    /\ calls < MaxCalls
    /\ calls' = calls + 1
    /\ todo' = Flush \o <<Task("Count", 0)>>
    /\ loop' = [NoLoop EXCEPT !.only = bOnlyPriorityRequests]
    /\ UNCHANGED <<st, currentChannel>>
    /\ Stream!Call

\* Every frame
LoadRequestedModels ==
    LET cur == IF st.ms_bLoadingBigModel THEN 0 ELSE currentChannel IN
    /\ todo = <<>>
    /\ currentChannel' = cur
    /\ todo' = <<Task("ProcessBusy", cur), Task("Fill", 1 - cur), Task("Fill", cur),
                 Task("Switch", cur)>>
    /\ UNCHANGED <<st, loop, calls>>
    /\ Stream!Call

-----------------------------------------------------------------------------
(***************************************************************************)
(* The steps of a call.                                                    *)
(***************************************************************************)

Doing(op, c) == todo # <<>> /\ Head(todo) = Task(op, c)

LoadStatus(c) == st.ms_channel[c].LoadStatus

\* The step does some tasks and then the rest of the call
GoesOnWith(tasks) == todo' = tasks \o Tail(todo)

Busy == {"READING", "WAITING_TO_READ"}

\* CdStreamGetStatus
GetStatus(c) == Stream!ReportBusy(c) \/ Stream!ReportResult(c)

\* ProcessLoadingChannel when the stream has answered
ProcessLoadingChannel(c) ==
    /\ GetStatus(c)
    /\ \/ /\ ret'.val \in Busy
          /\ GoesOnWith(<<>>)
          /\ UNCHANGED st
       \/ /\ ret'.val = "READING_FAILURE"
          /\ st' = [st EXCEPT !.ms_channel[c].LoadStatus = "ERR",
                              !.ms_channelError = IF @ = -1 THEN c ELSE @]
          /\ GoesOnWith(IF st.ms_channelError = -1 THEN <<Task("Retry", c)>> ELSE <<>>)
       \/ /\ ret'.val = "SUCCESS"
          /\ st' \in LoadChannel(st, c)
          /\ GoesOnWith(<<>>)
    /\ UNCHANGED <<currentChannel, loop, calls>>

\* A task that is skipped unless the channel is in one of some states
Skips(op, c, states) ==
    /\ Doing(op, c)
    /\ LoadStatus(c) \notin states
    /\ GoesOnWith(<<>>)
    /\ UNCHANGED <<st, currentChannel, loop, calls>>
    /\ Stream!Call

ProcessBusy(c) ==
    \/ Skips("ProcessBusy", c, {"READING", "STARTED", "ERR"})
    \/ /\ Doing("ProcessBusy", c)
       /\ LoadStatus(c) # "IDLE"
       /\ ProcessLoadingChannel(c)

Finish(c) ==
    \/ Skips("Finish", c, {"STARTED"})
    \/ /\ Doing("Finish", c)
       /\ LoadStatus(c) = "STARTED"
       /\ ProcessLoadingChannel(c)

\* A channel that is reading is waited for and processed
FlushChannel(c) ==
    \/ Skips("Flush", c, {"READING"})
    \/ /\ Doing("Flush", c)
       /\ LoadStatus(c) = "READING"
       /\ Stream!SyncReturns(c)
       /\ GoesOnWith(<<Task("ProcessBusy", c)>>)
       /\ UNCHANGED <<st, currentChannel, loop, calls>>

Flushed ==
    /\ Doing("Flushed", 0)
    /\ GoesOnWith(<<>>)
    /\ UNCHANGED <<st, currentChannel, loop, calls>>
    /\ Stream!Call

\* CdStreamRead: what it returns is not looked at
Read(c, s) ==
    LET ch == s.ms_channel[c] IN
    \/ ch.sectorCount # 0 /\ Stream!Accept(c, [offset |-> ch.pos, sectors |-> ch.sectorCount])
    \/ ch.sectorCount = 0 /\ Stream!AcceptEmpty(c)
    \/ Stream!Refuse(c)

Fill(c) ==
    \/ /\ Doing("Fill", c)
       /\ LoadStatus(c) # "IDLE" \/ st.ms_bLoadingBigModel
       /\ GoesOnWith(<<>>)
       /\ UNCHANGED <<st, currentChannel, loop, calls>>
       /\ Stream!Call
    \/ \E posn \in {CdOffset[m] : m \in Models}, ifpsMayLoad \in BOOLEAN :
       LET to == RequestModelStream(st, c, posn, ifpsMayLoad) IN
       /\ Doing("Fill", c)
       /\ LoadStatus(c) = "IDLE"
       /\ ~st.ms_bLoadingBigModel
       /\ st' = to.s
       /\ IF to.reads THEN Read(c, to.s) ELSE Stream!Call
       /\ GoesOnWith(<<>>)
       /\ UNCHANGED <<currentChannel, loop, calls>>

Switch(c) ==
    /\ Doing("Switch", c)
    /\ currentChannel' = IF LoadStatus(c) = "STARTED" THEN c ELSE 1 - c
    /\ GoesOnWith(<<>>)
    /\ UNCHANGED <<st, loop, calls>>
    /\ Stream!Call

-----------------------------------------------------------------------------
(***************************************************************************)
(* LoadAllRequestedModels: channel loop.ch, at most loop.n rounds more.    *)
(***************************************************************************)

BothIdle == LoadStatus(0) = "IDLE" /\ LoadStatus(1) = "IDLE"

Count ==
    /\ Doing("Count", 0)
    /\ loop' = [loop EXCEPT !.n = IF 2 * st.ms_numModelsRequested > 10
                                  THEN 2 * st.ms_numModelsRequested ELSE 10]
    /\ GoesOnWith(<<Task("Round", 0)>>)
    /\ UNCHANGED <<st, currentChannel, calls>>
    /\ Stream!Call

Round ==
    LET over == (st.requested = <<>> /\ BothIdle) \/ loop.n <= 0
        c    == IF st.ms_bLoadingBigModel THEN 0 ELSE loop.ch
    IN
    /\ Doing("Round", 0)
    /\ loop' = IF over THEN NoLoop ELSE [loop EXCEPT !.ch = c]
    /\ GoesOnWith(IF over THEN Flush
                  ELSE <<Task("Sync", c), Task("ProcessReading", c), Task("After", c)>>)
    /\ UNCHANGED <<st, currentChannel, calls>>
    /\ Stream!Call

SyncBusy(c) ==
    \/ Skips("Sync", c, {"READING", "STARTED", "ERR"})
    \/ /\ Doing("Sync", c)
       /\ LoadStatus(c) # "IDLE"
       /\ Stream!SyncReturns(c)
       /\ GoesOnWith(<<>>)
       /\ UNCHANGED <<st, currentChannel, loop, calls>>

ProcessReading(c) ==
    /\ Doing("ProcessReading", c)
    /\ GoesOnWith(IF LoadStatus(c) = "READING"
                  THEN <<Task("ProcessBusy", c), Task("Finish", c)>> ELSE <<>>)
    /\ UNCHANGED <<st, currentChannel, loop, calls>>
    /\ Stream!Call

After(c) ==
    /\ Doing("After", c)
    /\ \/ /\ loop.only /\ st.ms_numPriorityRequests = 0
          /\ GoesOnWith(Flush)
          /\ loop' = NoLoop
       \/ /\ ~(loop.only /\ st.ms_numPriorityRequests = 0)
          /\ GoesOnWith(<<Task("Fill", 1 - c), Task("Fill", c), Task("NextRound", c)>>)
          /\ UNCHANGED loop
    /\ UNCHANGED <<st, currentChannel, calls>>
    /\ Stream!Call

NextRound(c) ==
    /\ Doing("NextRound", c)
    /\ loop' = IF BothIdle THEN NoLoop ELSE [loop EXCEPT !.ch = 1 - c, !.n = @ - 1]
    /\ GoesOnWith(IF BothIdle THEN Flush ELSE <<Task("Round", 0)>>)
    /\ UNCHANGED <<st, currentChannel, calls>>
    /\ Stream!Call

-----------------------------------------------------------------------------
(***************************************************************************)
(* RetryLoadFile: the game stands still until the channel has been read.   *)
(***************************************************************************)

\* A channel that is reading is processed; one more failure and it goes on
RetryReading(c) ==
    /\ Doing("Retry", c)
    /\ LoadStatus(c) = "READING"
    /\ GetStatus(c)
    /\ \/ /\ ret'.val \in Busy
          /\ UNCHANGED <<st, todo>>
       \/ /\ ret'.val = "READING_FAILURE"
          /\ st' = [st EXCEPT !.ms_channel[c].LoadStatus = "ERR"]
          /\ UNCHANGED todo
       \/ /\ ret'.val = "SUCCESS"
          /\ st' \in LoadChannel(st, c)
          /\ GoesOnWith(<<Task("Finish", c), Task("Continue", c)>>)
    /\ UNCHANGED <<currentChannel, loop, calls>>

RetryError(c) ==
    /\ Doing("Retry", c)
    /\ LoadStatus(c) = "ERR"
    /\ GetStatus(c)
    /\ todo' = CASE ret'.val = "WAITING_TO_READ" -> todo
                 [] ret'.val = "READING" -> <<Task("Again", c)>> \o todo
                 [] OTHER -> <<Task("Reread", c)>> \o todo
    /\ UNCHANGED <<st, currentChannel, loop, calls>>

\* The second CdStreamGetStatus drops the result if there is one by now
RetryAgain(c) ==
    /\ Doing("Again", c)
    /\ GetStatus(c)
    /\ GoesOnWith(IF ret'.val = "READING" THEN <<Task("Reread", c)>> ELSE <<>>)
    /\ UNCHANGED <<st, currentChannel, loop, calls>>

RetryRead(c) ==
    /\ Doing("Reread", c)
    /\ Read(c, st)
    /\ st' = [st EXCEPT !.ms_channel[c].LoadStatus = "READING"]
    /\ GoesOnWith(<<>>)
    /\ UNCHANGED <<currentChannel, loop, calls>>

RetryContinue(c) ==
    /\ Doing("Continue", c)
    /\ st' = [st EXCEPT !.ms_channelError = -1]
    /\ GoesOnWith(<<>>)
    /\ UNCHANGED <<currentChannel, loop, calls>>
    /\ Stream!Call

Retry(c) ==
    \/ RetryReading(c) \/ RetryError(c) \/ RetryAgain(c)
    \/ RetryRead(c) \/ RetryContinue(c)

-----------------------------------------------------------------------------
\* The streaming thread; a read fails MaxFaults times at most
Progress(c) ==
    /\ Stream!Progress(c)
    /\ IF status'[c] = status[c] THEN UNCHANGED st
       ELSE st.faults < MaxFaults /\ st' = [st EXCEPT !.faults = @ + 1]
    /\ UNCHANGED <<todo, currentChannel, loop, calls>>

Call ==
    \/ \E r \in GameRequests : CallRequestModel(r)
    \/ \E m \in GameRemovals : CallRemoveModel(m)
    \/ \E m \in GameReleases : CallMissionDoesntRequireModel(m)
    \/ CallPurgeRequestList
    \/ FlushRequestList
    \/ \E only \in BOOLEAN : LoadAllRequestedModels(only)

Step ==
    \/ LoadRequestedModels
    \/ Flushed \/ Count \/ Round
    \/ \E c \in Channels :
          \/ ProcessBusy(c) \/ Finish(c) \/ FlushChannel(c) \/ Fill(c) \/ Switch(c)
          \/ SyncBusy(c) \/ ProcessReading(c) \/ After(c) \/ NextRound(c)
          \/ Retry(c)

Next == Call \/ Step \/ \E c \in Channels : Progress(c)

Spec == Init /\ [][Next]_vars

\* CdStreamSync keeps the main thread waiting
Waits ==
    \E c \in Channels :
        /\ \/ Doing("Flush", c) /\ LoadStatus(c) = "READING"
           \/ Doing("Sync", c) /\ LoadStatus(c) # "IDLE"
        /\ phase[c] # "idle"

\* The first formula is WF_vars(Step): a step is possible unless Waits
FairSpec ==
    /\ Spec
    /\ []<>Waits \/ []<><<Step>>_vars
    /\ \A c \in Channels : WF_vars(Progress(c))

-----------------------------------------------------------------------------
(***************************************************************************)
(* Properties.                                                             *)
(***************************************************************************)

\* The models that the channel holds
Holds(c) == {x.id : x \in Range(st.ms_channel[c].models)} \ {MODEL_INVALID}

\* The type invariant.  That ms_numPriorityRequests is unsigned matters: it
\* wraps when a request is withdrawn after it was reset (GetNextFileOnCd).
TypeOK ==
    /\ st.LoadState \in [Models -> LoadStates]
    /\ st.Flags \in [Models -> SUBSET Flags]
    /\ st.requested \in Seq(Models)
    /\ st.loaded \subseteq Models
    /\ st.ms_numPriorityRequests \in 0 .. UINT32 - 1
    /\ st.ms_channelError \in Channels \cup {-1}
    /\ \A c \in Channels : LoadStatus(c) \in {"IDLE", "READING", "STARTED", "ERR"}
    /\ currentChannel \in Channels

\* The request list holds each requested model once, and
\* ms_numModelsRequested is its length: RequestModel, RemoveModel and
\* RequestModelStream change the state, the list and the count separately, and
\* failed conversions put a model back while its channel is gone through.
RequestListIsConsistent ==
    /\ IsInjective(st.requested)
    /\ Range(st.requested) = {m \in Models : st.LoadState[m] = "REQUESTED"}
    /\ st.ms_numModelsRequested = Len(st.requested)

\* The dictionaries that may be lost from the loaded list: if a mission that
\* wanted one kept in memory gives it up between its two halves, nothing puts
\* it there (SetModelIsDeletable, FinishLoadingLargeFile)
MayBeLost == {m \in Txds : IsBig(m) /\ "KEEP_IN_MEMORY" \in st.Flags[m]}

\* Only what is loaded, or half of it, is on the loaded list, and every loaded
\* model of a kind that the list is for is there unless it is required.  A
\* model that is lost from the list could never be evicted (RequestModel,
\* SetModelIsDeletable, ConvertBufferToObject).
LoadedListIsConsistent ==
    \A m \in Models :
        /\ m \in st.loaded => st.LoadState[m] \in {"LOADED", "FINISHING"}
        /\ m \in Listed \ MayBeLost /\ st.LoadState[m] = "LOADED" /\ ~IsMissionOrGameRequired(st, m)
           => m \in st.loaded

\* A model in state READING is held by exactly one busy channel, and a channel
\* that reads holds only such models: one that was removed meanwhile
\* (RemoveModel), even if it was requested again, is not converted.
ReadingMeansInOneChannel ==
    /\ \A m \in Models : st.LoadState[m] = "READING" =>
           Cardinality({c \in Channels : m \in Holds(c) /\ LoadStatus(c) # "IDLE"}) = 1
    /\ \A c \in Channels : LoadStatus(c) \in {"READING", "ERR"} =>
           \A m \in Holds(c) : st.LoadState[m] = "READING"
    /\ Holds(0) \cap Holds(1) = {}

\* The read that CdStream carries out for a channel covers every model the
\* channel will convert, at the place in the buffer where it will look for it
\* (RequestModelStream, RetryLoadFile), whatever was removed since.
ChannelReadsItsModels ==
    \A c \in Channels : phase[c] \in {"waiting", "reading"} =>
        LET ch == st.ms_channel[c] IN
        /\ LoadStatus(c) \in {"READING", "ERR"}
        /\ request[c] = [offset |-> ch.pos, sectors |-> ch.sectorCount]
        /\ \A x \in Range(ch.models) : x.id # MODEL_INVALID =>
               /\ CdOffset[x.id] = ch.pos + x.at
               /\ x.at + CdSize[x.id] <= ch.sectorCount

\* A read that is longer than half the buffer has the other half for itself:
\* the other channel is idle, and its stream has no read outstanding that
\* would write over it (RequestModelStream, LoadRequestedModels).
BigModelHasBothHalves ==
    \A c \in Channels :
        LoadStatus(c) # "IDLE" /\ st.ms_channel[c].sectorCount > ms_streamingBufferSize =>
            /\ c = 0
            /\ st.ms_bLoadingBigModel
            /\ LoadStatus(1) = "IDLE"
            /\ phase[1] \notin {"waiting", "reading"}

\* ms_memoryUsed is the size of what is loaded, also after a big model whose
\* second half failed (FinishLoadingLargeFile) and after evictions.
MemoryIsAccounted ==
    st.ms_memoryUsed = MapThenSumSet(LAMBDA m : CdSize[m],
                                     {m \in Models : st.LoadState[m] = "LOADED"})

\* A loaded DFF has its textures and its animations: no eviction
\* (RemoveLeastUsedModel), release or dropped vehicle (ProcessLoadingChannel)
\* takes them away.
LoadedModelHasWhatItNeeds ==
    \A m \in DFFs : st.LoadState[m] = "LOADED" =>
        \A n \in Needs(m) : st.LoadState[n] = "LOADED"

\* The books that RequestModel, RemoveModel and the channels keep by hand, each
\* in a place of its own, agree with the states of the models.
BooksAgree ==
    /\ TypeOK
    /\ RequestListIsConsistent
    /\ LoadedListIsConsistent
    /\ MemoryIsAccounted

\* The channels agree with the models and with the streams.
ChannelsAgree == ReadingMeansInOneChannel /\ ChannelReadsItsModels

\* Lists, channels and dependencies all at once, where GetNextFileOnCd requests
\* again what a model lacks and a read of no sectors may come of it
\* (Streaming.cpp:1744).  The entry this leaves in CdStream's queue is free to
\* carry out, or to swallow, any later read of the channel.
NothingIsAtOdds ==
    BooksAgree /\ ChannelsAgree /\ LoadedModelHasWhatItNeeds /\ BigModelHasBothHalves

\* A requested model is loaded or removed in the end: no failure, eviction or
\* re-request keeps it waiting for ever, if the game keeps calling
\* LoadRequestedModels and makes a bounded number of other calls.
RequestsAreServed ==
    \A m \in Models :
        st.LoadState[m] = "REQUESTED" ~> st.LoadState[m] \in {"LOADED", "NOT_LOADED"}
=============================================================================
