------------------------- MODULE StreamingProofs -------------------------
(***************************************************************************)
(* Proofs about Streaming, for every set of models, every disc, every size *)
(* of the buffer and every bound.                                          *)
(*                                                                         *)
(* None of the properties is inductive: the list of requests is right      *)
(* because the states of the models are, these because the slots are, and  *)
(* the slots because of what the streams carry out and what is left to do  *)
(* of the call under way.  The invariant has a part for each.              *)
(*                                                                         *)
(* CStreaming changes its books through operators on the whole state, so   *)
(* most lemmas say of one operator that it keeps the books Sound and what  *)
(* it may do to everything else: a request (Asked), a removal (Thinned),   *)
(* an eviction (Evicted), a conversion (Emptier).  The steps follow.       *)
(***************************************************************************)
EXTENDS Streaming, FiniteSetTheorems, WellFoundedInduction, TLAPS

-----------------------------------------------------------------------------
(* The invariant                                                           *)

\* A slot of a channel
Slot == [id : Models \cup {MODEL_INVALID}, at : Nat]

\* A channel
Channel == [LoadStatus : {"IDLE", "READING", "STARTED", "ERR"}, models : Seq(Slot),
            pos : Nat, sectorCount : Nat]

\* What the books and the channels are made of
State == [LoadState : [Models -> LoadStates],
          Flags     : [Models -> SUBSET Flags],
          requested : Seq(Models),
          loaded    : SUBSET Models,
          ms_numModelsRequested  : Int,
          ms_numPriorityRequests : 0 .. UINT32 - 1,
          ms_bLoadingBigModel    : BOOLEAN,
          ms_channel      : [Channels -> Channel],
          ms_channelError : Channels \cup {-1},
          ms_memoryUsed   : Int,
          faults : Nat]

\* The list of requests has the requested models, each once
RequestsFit(s) ==
    /\ IsInjective(s.requested)
    /\ Range(s.requested) = {m \in Models : s.LoadState[m] = "REQUESTED"}
    /\ s.ms_numModelsRequested = Len(s.requested)

\* The loaded list, and who may be missing on it
LoadedFit(s) ==
    \A m \in Models :
        /\ m \in s.loaded => s.LoadState[m] \in {"LOADED", "FINISHING"}
        /\ s.LoadState[m] = "FINISHING" => m \in Txds /\ IsBig(m)
        /\ m \in Listed /\ s.LoadState[m] \in {"LOADED", "FINISHING"} /\ ~IsMissionOrGameRequired(s, m)
           => m \in s.loaded \/ (m \in Txds /\ IsBig(m) /\ "KEEP_IN_MEMORY" \in s.Flags[m])

LoadedModels(s) == {m \in Models : s.LoadState[m] = "LOADED"}

SizeOf(models) == MapThenSumSet(LAMBDA m : CdSize[m], models)

\* The memory that is counted is that of the loaded models
MemoryFits(s) == s.ms_memoryUsed = SizeOf(LoadedModels(s))

\* What a loaded model needs is loaded
NeedsFit(s) ==
    \A m \in DFFs : s.LoadState[m] = "LOADED" => \A n \in Needs(m) : s.LoadState[n] = "LOADED"

\* The slots of a channel, and the models in them
Places(s, c) == DOMAIN s.ms_channel[c].models
Id(s, c, k) == s.ms_channel[c].models[k].id

\* No big dictionary is half loaded
NoPlace == <<0, 0>>

\* A slot whose model is being read says where in the read it is, and a model
\* is in one slot only. half is the slot of a big dictionary that is half
\* loaded: its model is not being read any more
SlotsFit(s, half) ==
    /\ \A c \in Channels : \A k \in Places(s, c) :
           Id(s, c, k) # MODEL_INVALID =>
               /\ <<c, k>> # half => s.LoadState[Id(s, c, k)] = "READING"
               /\ CdOffset[Id(s, c, k)] = s.ms_channel[c].pos + s.ms_channel[c].models[k].at
               /\ s.ms_channel[c].models[k].at + CdSize[Id(s, c, k)] <= s.ms_channel[c].sectorCount
               /\ \A d \in Channels : \A l \in Places(s, d) :
                      Id(s, d, l) = Id(s, c, k) => d = c /\ l = k
    /\ \A m \in Models : s.LoadState[m] = "READING" =>
           \E c \in Channels : \E k \in Places(s, c) : Id(s, c, k) = m
    /\ half # NoPlace =>
           /\ half \in Channels \X Nat /\ half[2] \in Places(s, half[1])
           /\ Id(s, half[1], half[2]) \in Models
           /\ s.LoadState[Id(s, half[1], half[2])] # "READING"
    /\ \A m \in Models : s.LoadState[m] = "FINISHING" =>
           half # NoPlace /\ Id(s, half[1], half[2]) = m

\* Everything between the books and the slots
Sound(s, half) ==
    /\ s \in State
    /\ RequestsFit(s)
    /\ LoadedFit(s)
    /\ MemoryFits(s)
    /\ NeedsFit(s)
    /\ SlotsFit(s, half)

\* The states of the channels: what is started is a big dictionary, and what is
\* longer than half the buffer has both halves
ChannelsFit(s) ==
    /\ \A c \in Channels :
           LET ch == s.ms_channel[c] IN
           /\ ch.LoadStatus = "IDLE" => ch.models = <<>>
           /\ ch.LoadStatus = "STARTED" => c = 0 /\ s.ms_bLoadingBigModel /\ Len(ch.models) = 1
           /\ ch.LoadStatus # "IDLE" /\ ch.sectorCount > ms_streamingBufferSize
              => c = 0 /\ s.ms_bLoadingBigModel
    /\ s.ms_bLoadingBigModel =>
           /\ s.ms_channel[0].LoadStatus # "IDLE"
           /\ s.ms_channel[1].LoadStatus = "IDLE"
           /\ Len(s.ms_channel[0].models) <= 1
           /\ \A k \in Places(s, 0) : Id(s, 0, k) # MODEL_INVALID => IsBig(Id(s, 0, k))

\* The slot of a big dictionary that is half loaded
HalfLoaded(s) == IF s.ms_channel[0].LoadStatus = "STARTED" THEN <<0, 1>> ELSE NoPlace

\* All of it
Fits(s) == Sound(s, HalfLoaded(s)) /\ ChannelsFit(s)

\* What a stream carries out is what its channel asked for
StreamFits(c) ==
    /\ phase[c] \in {"waiting", "reading"} =>
           /\ LoadStatus(c) \in {"READING", "ERR"}
           /\ request[c] = [offset  |-> st.ms_channel[c].pos,
                            sectors |-> st.ms_channel[c].sectorCount]
    /\ LoadStatus(c) = "STARTED" => phase[c] \in {"idle", "settling"} /\ status[c] = "SUCCESS"

StreamsFit ==
    /\ phase \in [Channels -> Stream!Service!Phases]
    /\ request = [c \in Channels |-> request[c]]
    /\ status = [c \in Channels |-> status[c]]
    /\ \A c \in Channels : StreamFits(c)

\* What is left to do of a call
Ops == {"ProcessBusy", "Finish", "Flush", "Flushed", "Fill", "Switch", "Count", "Round", "Sync",
        "ProcessReading", "After", "NextRound", "Retry", "Again", "Reread", "Continue"}

Tasks == [op : Ops, ch : Channels]

\* Tasks that need no state of their channel
IsQuiet(task) == task \in Tasks /\ task.op \notin {"Again", "Reread"}

Quiet(tasks) == tasks \in Seq(Tasks) /\ \A i \in 1 .. Len(tasks) : IsQuiet(tasks[i])

Loops == [n : Int, ch : Channels, only : BOOLEAN]

\* A read is begun again on a channel that has failed, and only as the first
\* task
TodoFits ==
    /\ todo \in Seq(Tasks)
    /\ \A i \in 1 .. Len(todo) :
           IsQuiet(todo[i]) \/ (i = 1 /\ LoadStatus(todo[i].ch) = "ERR")
    /\ loop \in Loops
    /\ currentChannel \in Channels

\* The inductive invariant
Invariant == Fits(st) /\ StreamsFit /\ TodoFits

-----------------------------------------------------------------------------
(* Sums and recursion                                                      *)

\* A set of numbers with 0 and, with each number, the next one has all of them
LEMMA NatInductionOnSets ==
    ASSUME NEW P, 0 \in P, \A n \in Nat : n \in P => n + 1 \in P
    PROVE  Nat \subseteq P
<1> SUFFICES ASSUME NEW x \in Nat, x \notin P PROVE FALSE OBVIOUS
<1> DEFINE S == Nat \ P
<1>1. S \subseteq Nat /\ S # {} OBVIOUS
<1>2. PICK m \in S : \A y \in S : ~(<<y, m>> \in OpToRel(<, Nat))
  BY <1>1, NatLessThanWellFounded, WFMin
<1>3. \A y \in S : ~ (y < m)
  BY <1>1, <1>2 DEF OpToRel
<1>4. m # 0 /\ m \in Nat OBVIOUS
<1>5. m - 1 \in Nat /\ m - 1 < m BY <1>4
<1>6. m - 1 \in P BY <1>3, <1>5
<1> QED BY <1>5, <1>6

\* Any member of a set
Member(T) == CHOOSE x \in T : TRUE

\* The sizes of the members of each set, added up
SumsOver(f, S) ==
    f = [T \in S |-> IF T = {} THEN 0 ELSE CdSize[Member(T)] + f[T \ {Member(T)}]]

\* What MapThenSumSet chooses to add the sizes of a set up with
LEMMA SizeOfDef ==
    ASSUME NEW S, NEW f, SumsOver(f, SUBSET S)
    PROVE  \E g : SumsOver(g, SUBSET S) /\ SizeOf(S) = g[S]
<1> DEFINE g == CHOOSE h : SumsOver(h, SUBSET S)
<1>1. SumsOver(g, SUBSET S) OBVIOUS
<1>2. SizeOf(S) = g[S]
  BY DEF SizeOf, MapThenSumSet, MapThenFoldSet, SumsOver, Member
<1> QED BY <1>1, <1>2

\* A set that is not empty has a member
LEMMA MemberOf == ASSUME NEW T, T # {} PROVE Member(T) \in T
  BY DEF Member

\* The subsets of at most n members
Upto(S, n) == {T \in SUBSET S : Cardinality(T) <= n}

\* A finite set without one of its members
LEMMA SmallerByOne ==
    ASSUME NEW S, IsFiniteSet(S), NEW T \in SUBSET S, NEW x \in T
    PROVE  /\ IsFiniteSet(T) /\ Cardinality(T) \in Nat
           /\ T \ {x} \in SUBSET S
           /\ Cardinality(T \ {x}) = Cardinality(T) - 1 /\ Cardinality(T) > 0
<1>1. IsFiniteSet(T) BY FS_Subset
<1>2. IsFiniteSet(T \ {x}) /\ Cardinality(T \ {x}) = Cardinality(T) - 1 BY <1>1, FS_RemoveElement
<1>3. Cardinality(T) \in Nat /\ Cardinality(T \ {x}) \in Nat BY <1>1, <1>2, FS_CardinalityType
<1> QED BY <1>1, <1>2, <1>3

\* The sizes of the subsets of a finite set can be added up
LEMMA SumsExist ==
    ASSUME NEW S, IsFiniteSet(S)
    PROVE  \E f : SumsOver(f, SUBSET S)
<1> DEFINE P == {n \in Nat : \E f : SumsOver(f, Upto(S, n))}
<1>0. \A T \in SUBSET S : IsFiniteSet(T) /\ Cardinality(T) \in Nat BY FS_Subset, FS_CardinalityType
<1>1. 0 \in P
  <2> DEFINE f == [T \in Upto(S, 0) |-> 0]
  <2>1. ASSUME NEW T \in Upto(S, 0) PROVE T = {}
    BY <1>0, FS_EmptySet DEF Upto
  <2>2. SumsOver(f, Upto(S, 0)) BY <2>1 DEF SumsOver
  <2> QED BY <2>2
<1>2. ASSUME NEW n \in Nat, n \in P PROVE n + 1 \in P
  <2>1. PICK f : SumsOver(f, Upto(S, n)) BY <1>2
  <2> DEFINE V(T) == IF T = {} THEN 0 ELSE CdSize[Member(T)] + f[T \ {Member(T)}]
             g == [T \in Upto(S, n + 1) |-> V(T)]
  <2>2. ASSUME NEW T \in Upto(S, n + 1), T # {} PROVE f[T \ {Member(T)}] = g[T \ {Member(T)}]
    <3> DEFINE U == T \ {Member(T)}
    <3>1. Member(T) \in T BY <2>2, MemberOf
    <3>2. U \in Upto(S, n) /\ U \in Upto(S, n + 1)
      <4>1. T \in SUBSET S /\ Cardinality(T) <= n + 1 BY DEF Upto
      <4>2. U \in SUBSET S /\ Cardinality(U) = Cardinality(T) - 1 /\ Cardinality(T) \in Nat
        <5>1. \A x \in T : /\ T \ {x} \in SUBSET S /\ Cardinality(T) \in Nat
                           /\ Cardinality(T \ {x}) = Cardinality(T) - 1
          BY <4>1, SmallerByOne
        <5> QED BY ONLY <3>1, <5>1
      <4> QED BY <4>1, <4>2 DEF Upto
    <3>3. f[U] = V(U) BY <2>1, <3>2 DEF SumsOver
    <3> QED BY <3>2, <3>3
  <2>3. SumsOver(g, Upto(S, n + 1)) BY <2>2 DEF SumsOver
  <2> HIDE DEF g
  <2> QED BY <2>3
<1>3. Cardinality(S) \in Nat BY FS_CardinalityType
<1>4. Cardinality(S) \in P
  <2> HIDE DEF P
  <2> QED BY <1>1, <1>2, <1>3, NatInductionOnSets
<1>5. Upto(S, Cardinality(S)) = SUBSET S BY FS_Subset DEF Upto
<1> QED BY <1>4, <1>5

\* in one way only, whatever set the subset is taken from
LEMMA SumsAgree ==
    ASSUME NEW S, NEW U, IsFiniteSet(S), IsFiniteSet(U),
           NEW f, NEW g, SumsOver(f, SUBSET S), SumsOver(g, SUBSET U),
           NEW T \in SUBSET S, T \in SUBSET U
    PROVE  f[T] = g[T]
<1> DEFINE P == {n \in Nat : \A V \in SUBSET (S \cap U) : Cardinality(V) = n => f[V] = g[V]}
<1>0. \A V \in SUBSET S : IsFiniteSet(V) /\ Cardinality(V) \in Nat BY FS_Subset, FS_CardinalityType
<1>1. 0 \in P
  <2> SUFFICES ASSUME NEW V \in SUBSET (S \cap U), Cardinality(V) = 0 PROVE f[V] = g[V] OBVIOUS
  <2>1. V = {} BY <1>0, FS_EmptySet
  <2> QED BY <2>1 DEF SumsOver
<1>2. ASSUME NEW n \in Nat, n \in P PROVE n + 1 \in P
  <2> SUFFICES ASSUME NEW V \in SUBSET (S \cap U), Cardinality(V) = n + 1 PROVE f[V] = g[V] OBVIOUS
  <2>0. Cardinality({}) = 0 /\ n + 1 # 0 BY FS_EmptySet
  <2>1. V # {} BY ONLY <2>0, Cardinality(V) = n + 1
  <2>2. Member(V) \in V BY <2>1, MemberOf
  <2> DEFINE W == V \ {Member(V)}
  <2>3. W \in SUBSET (S \cap U) OBVIOUS
  <2>4. Cardinality(W) = n BY <2>2, SmallerByOne
  <2>5. f[W] = g[W] BY <1>2, <2>3, <2>4
  <2>6. f[V] = CdSize[Member(V)] + f[W] BY <2>1 DEF SumsOver
  <2>7. g[V] = CdSize[Member(V)] + g[W]
    <3>1. V \in SUBSET U OBVIOUS
    <3> QED BY <2>1, <3>1 DEF SumsOver
  <2> QED BY <2>5, <2>6, <2>7
<1>3. Cardinality(T) \in P
  <2> HIDE DEF P
  <2> QED BY <1>0, <1>1, <1>2, NatInductionOnSets
<1>4. T \in SUBSET (S \cap U) OBVIOUS
<1> QED BY <1>3, <1>4

\* SizeOf is what any such function says
LEMMA SizeOfSubset ==
    ASSUME NEW S, NEW T, NEW f, IsFiniteSet(S), SumsOver(f, SUBSET S), T \in SUBSET S
    PROVE  SizeOf(T) = f[T]
<1>1. IsFiniteSet(T) BY FS_Subset
<1>2. PICK h : SumsOver(h, SUBSET T) BY <1>1, SumsExist
<1>3. PICK g : SumsOver(g, SUBSET T) /\ SizeOf(T) = g[T] BY <1>2, SizeOfDef
<1>4. T \in SUBSET T OBVIOUS
<1>5. SumsOver(g, SUBSET T) BY <1>3
<1>6. g[T] = f[T] BY <1>1, <1>4, <1>5, SumsAgree
<1> QED BY <1>3, <1>6

\* Nothing takes no space
LEMMA SizeOfNone == SizeOf({}) = 0
<1>1. IsFiniteSet({}) BY FS_EmptySet
<1>2. PICK f : SumsOver(f, SUBSET {}) BY <1>1, SumsExist
<1>3. SizeOf({}) = f[{}] BY <1>1, <1>2, SizeOfSubset
<1> QED BY <1>2, <1>3 DEF SumsOver

\* One member and the rest
LEMMA SizeOfStep ==
    ASSUME NEW T, IsFiniteSet(T), T # {}
    PROVE  SizeOf(T) = CdSize[Member(T)] + SizeOf(T \ {Member(T)})
<1>1. PICK f : SumsOver(f, SUBSET T) BY SumsExist
<1> DEFINE W == T \ {Member(T)}
<1>2. SizeOf(T) = f[T] BY <1>1, SizeOfSubset
<1>3. W \in SUBSET T OBVIOUS
<1>4. SizeOf(W) = f[W] BY <1>1, <1>3, SizeOfSubset
<1>5. f[T] = CdSize[Member(T)] + f[W] BY <1>1 DEF SumsOver
<1> QED BY <1>2, <1>4, <1>5

\* The size of a set of models is a number
LEMMA SizeOfType ==
    ASSUME NEW T \in SUBSET Models
    PROVE  SizeOf(T) \in Nat
<1> DEFINE P == {n \in Nat : \A V \in SUBSET Models : Cardinality(V) = n => SizeOf(V) \in Nat}
<1>0. \A V \in SUBSET Models : IsFiniteSet(V) /\ Cardinality(V) \in Nat
  BY ModelAssumption, FS_Subset, FS_CardinalityType
<1>1. 0 \in P
  <2> SUFFICES ASSUME NEW V \in SUBSET Models, Cardinality(V) = 0 PROVE SizeOf(V) \in Nat OBVIOUS
  <2>1. V = {} BY <1>0, FS_EmptySet
  <2> QED BY <2>1, SizeOfNone
<1>2. ASSUME NEW n \in Nat, n \in P PROVE n + 1 \in P
  <2> SUFFICES ASSUME NEW V \in SUBSET Models, Cardinality(V) = n + 1 PROVE SizeOf(V) \in Nat OBVIOUS
  <2>1. V # {} BY FS_EmptySet
  <2>2. Member(V) \in V BY <2>1, MemberOf
  <2> DEFINE W == V \ {Member(V)}
  <2>4. Cardinality(W) = n /\ W \in SUBSET Models BY <2>2, SmallerByOne, ModelAssumption
  <2>5. SizeOf(W) \in Nat BY <1>2, <2>4
  <2>6. SizeOf(V) = CdSize[Member(V)] + SizeOf(W) BY <1>0, <2>1, SizeOfStep
  <2>7. CdSize[Member(V)] \in Nat BY <2>2, DiscAssumption
  <2> QED BY <2>5, <2>6, <2>7
<1>3. Cardinality(T) \in P
  <2> HIDE DEF P
  <2> QED BY <1>0, <1>1, <1>2, NatInductionOnSets
<1> QED BY <1>3

\* A set without any one of its members, not only the one that was chosen
LEMMA SizeWithout ==
    ASSUME NEW T \in SUBSET Models, NEW x \in T
    PROVE  SizeOf(T \ {x}) = SizeOf(T) - CdSize[x]
<1> DEFINE P == {n \in Nat : \A V \in SUBSET Models : Cardinality(V) = n =>
                    \A y \in V : SizeOf(V) = CdSize[y] + SizeOf(V \ {y})}
<1>0. \A V \in SUBSET Models : IsFiniteSet(V) /\ Cardinality(V) \in Nat
  BY ModelAssumption, FS_Subset, FS_CardinalityType
<1>1. 0 \in P
  <2> SUFFICES ASSUME NEW V \in SUBSET Models, Cardinality(V) = 0 PROVE V = {} OBVIOUS
  <2> QED BY <1>0, FS_EmptySet
<1>2. ASSUME NEW n \in Nat, n \in P PROVE n + 1 \in P
  <2> SUFFICES ASSUME NEW V \in SUBSET Models, Cardinality(V) = n + 1, NEW y \in V
               PROVE  SizeOf(V) = CdSize[y] + SizeOf(V \ {y})
    OBVIOUS
  <2> DEFINE z == Member(V)
             W == V \ {z}
             U == V \ {y}
  <2>1. z \in V /\ SizeOf(V) = CdSize[z] + SizeOf(W) BY <1>0, MemberOf, SizeOfStep
  <2>2. CASE y = z BY <2>1, <2>2
  <2>3. CASE y # z
    <3> HIDE DEF z
    <3>1. W \in SUBSET Models /\ Cardinality(W) = n /\ y \in W
      BY <2>1, <2>3, SmallerByOne, ModelAssumption
    <3>2. U \in SUBSET Models /\ Cardinality(U) = n /\ z \in U
      BY <2>1, <2>3, SmallerByOne, ModelAssumption
    <3>3. SizeOf(W) = CdSize[y] + SizeOf(W \ {y}) BY <1>2, <3>1
    <3>4. SizeOf(U) = CdSize[z] + SizeOf(U \ {z}) BY <1>2, <3>2
    <3>5. W \ {y} = U \ {z} OBVIOUS
    <3>6. CdSize[y] \in Nat /\ CdSize[z] \in Nat BY <2>1, DiscAssumption
    <3>7. SizeOf(W \ {y}) \in Nat BY SizeOfType
    <3>8. SizeOf(V) = CdSize[z] + SizeOf(W) BY <2>1
    <3> HIDE DEF W, U
    <3>9. SizeOf(V) = CdSize[y] + SizeOf(U) BY <3>3, <3>4, <3>5, <3>6, <3>7, <3>8
    <3> QED BY <3>9 DEF U
  <2> QED BY <2>2, <2>3
<1>3. Cardinality(T) \in P
  <2> HIDE DEF P
  <2> QED BY <1>0, <1>1, <1>2, NatInductionOnSets
<1>4. SizeOf(T) = CdSize[x] + SizeOf(T \ {x}) BY <1>3
<1>5. SizeOf(T \ {x}) \in Nat /\ CdSize[x] \in Nat BY SizeOfType, DiscAssumption
<1> QED BY <1>4, <1>5

\* RemovedUpTo is the recursion it is written as
LEMMA RemovedUpToDef ==
    ASSUME NEW s, NEW models,
           Len(s.requested) \in Nat
    PROVE  RemovedUpTo(s, models) =
               [n \in 0 .. Len(s.requested) |->
                   IF n = 0 THEN s
                   ELSE IF s.requested[n] \in models
                        THEN RemoveModel(RemovedUpTo(s, models)[n - 1], s.requested[n])
                        ELSE RemovedUpTo(s, models)[n - 1]]
<1> DEFINE Base == s
           Value(v, n) == IF s.requested[n] \in models THEN RemoveModel(v, s.requested[n]) ELSE v
           Def(f, k) == f = [n \in 0 .. k |-> IF n = 0 THEN Base ELSE Value(f[n - 1], n)]
           P == {k \in Nat : \E f : Def(f, k)}
<1> HIDE DEF Base, Value
<1>1. 0 \in P
  <2>1. Def([n \in 0 .. 0 |-> Base], 0) OBVIOUS
  <2> QED BY <2>1
<1>2. ASSUME NEW k \in Nat, k \in P PROVE k + 1 \in P
  <2>1. PICK f : Def(f, k) BY <1>2
  <2> DEFINE g == [n \in 0 .. k + 1 |-> IF n <= k THEN f[n] ELSE Value(f[k], k + 1)]
  <2>2. ASSUME NEW n \in 0 .. k + 1
        PROVE  g[n] = IF n = 0 THEN Base ELSE Value(g[n - 1], n)
    <3>1. CASE n = k + 1
      <4>1. n - 1 = k /\ n # 0 /\ ~(n <= k) BY <3>1
      <4>2. g[k] = f[k] OBVIOUS
      <4> QED BY <3>1, <4>1, <4>2
    <3>2. CASE n \in 0 .. k
      <4>1. g[n] = f[n] BY <3>2
      <4>2. f[n] = IF n = 0 THEN Base ELSE Value(f[n - 1], n) BY <2>1, <3>2
      <4>3. n # 0 => g[n - 1] = f[n - 1] BY <3>2
      <4> QED BY <4>1, <4>2, <4>3
    <3> QED BY <3>1, <3>2
  <2>3. Def(g, k + 1) BY <2>2
  <2> HIDE DEF g, Def
  <2> QED BY <2>3
<1>3. Len(s.requested) \in P
  <2> HIDE DEF P
  <2> QED BY <1>1, <1>2, NatInductionOnSets
<1> QED BY <1>3 DEF RemovedUpTo, Base, Value

\* So is VisitedUpTo
LEMMA VisitedUpToDef ==
    ASSUME NEW s, NEW ifpsMayLoad, Len(s.requested) \in Nat
    PROVE  VisitedUpTo(s, ifpsMayLoad) =
               [n \in 0 .. Len(s.requested) |->
                   IF n = 0 THEN [s |-> s, eligible |-> {}]
                   ELSE Visit(VisitedUpTo(s, ifpsMayLoad)[n - 1], s.requested[n], ifpsMayLoad)]
<1> DEFINE Base == [s |-> s, eligible |-> {}]
           Value(v, n) == Visit(v, s.requested[n], ifpsMayLoad)
           Def(f, k) == f = [n \in 0 .. k |-> IF n = 0 THEN Base ELSE Value(f[n - 1], n)]
           P == {k \in Nat : \E f : Def(f, k)}
<1> HIDE DEF Base, Value
<1>1. 0 \in P
  <2>1. Def([n \in 0 .. 0 |-> Base], 0) OBVIOUS
  <2> QED BY <2>1
<1>2. ASSUME NEW k \in Nat, k \in P PROVE k + 1 \in P
  <2>1. PICK f : Def(f, k) BY <1>2
  <2> DEFINE g == [n \in 0 .. k + 1 |-> IF n <= k THEN f[n] ELSE Value(f[k], k + 1)]
  <2>2. ASSUME NEW n \in 0 .. k + 1
        PROVE  g[n] = IF n = 0 THEN Base ELSE Value(g[n - 1], n)
    <3>1. CASE n = k + 1
      <4>1. n - 1 = k /\ n # 0 /\ ~(n <= k) BY <3>1
      <4>2. g[k] = f[k] OBVIOUS
      <4> QED BY <3>1, <4>1, <4>2
    <3>2. CASE n \in 0 .. k
      <4>1. g[n] = f[n] BY <3>2
      <4>2. f[n] = IF n = 0 THEN Base ELSE Value(f[n - 1], n) BY <2>1, <3>2
      <4>3. n # 0 => g[n - 1] = f[n - 1] BY <3>2
      <4> QED BY <4>1, <4>2, <4>3
    <3> QED BY <3>1, <3>2
  <2>3. Def(g, k + 1) BY <2>2
  <2> HIDE DEF g, Def
  <2> QED BY <2>3
<1>3. Len(s.requested) \in P
  <2> HIDE DEF P
  <2> QED BY <1>1, <1>2, NatInductionOnSets
<1> QED BY <1>3 DEF VisitedUpTo, Base, Value

\* So is FoundUpTo
LEMMA FoundUpToDef ==
    ASSUME NEW s, NEW posn, NEW ifpsMayLoad
    PROVE  FoundUpTo(s, posn, ifpsMayLoad) =
               [n \in 0 .. Cardinality(Models) |->
                   IF n = 0 THEN GetNextFileOnCd(s, posn, ifpsMayLoad)
                   ELSE Following(FoundUpTo(s, posn, ifpsMayLoad)[n - 1], ifpsMayLoad)]
<1> DEFINE Base == GetNextFileOnCd(s, posn, ifpsMayLoad)
           Value(v, n) == Following(v, ifpsMayLoad)
           Def(f, k) == f = [n \in 0 .. k |-> IF n = 0 THEN Base ELSE Value(f[n - 1], n)]
           P == {k \in Nat : \E f : Def(f, k)}
<1> HIDE DEF Base, Value
<1>1. 0 \in P
  <2>1. Def([n \in 0 .. 0 |-> Base], 0) OBVIOUS
  <2> QED BY <2>1
<1>2. ASSUME NEW k \in Nat, k \in P PROVE k + 1 \in P
  <2>1. PICK f : Def(f, k) BY <1>2
  <2> DEFINE g == [n \in 0 .. k + 1 |-> IF n <= k THEN f[n] ELSE Value(f[k], k + 1)]
  <2>2. ASSUME NEW n \in 0 .. k + 1
        PROVE  g[n] = IF n = 0 THEN Base ELSE Value(g[n - 1], n)
    <3>1. CASE n = k + 1
      <4>1. n - 1 = k /\ n # 0 /\ ~(n <= k) BY <3>1
      <4>2. g[k] = f[k] OBVIOUS
      <4> QED BY <3>1, <4>1, <4>2
    <3>2. CASE n \in 0 .. k
      <4>1. g[n] = f[n] BY <3>2
      <4>2. f[n] = IF n = 0 THEN Base ELSE Value(f[n - 1], n) BY <2>1, <3>2
      <4>3. n # 0 => g[n - 1] = f[n - 1] BY <3>2
      <4> QED BY <4>1, <4>2, <4>3
    <3> QED BY <3>1, <3>2
  <2>3. Def(g, k + 1) BY <2>2
  <2> HIDE DEF g, Def
  <2> QED BY <2>3
<1>3. Cardinality(Models) \in P
  <2> HIDE DEF P
  <2> QED BY <1>1, <1>2, NatInductionOnSets, ModelAssumption, FS_CardinalityType
<1> QED BY <1>3 DEF FoundUpTo, Base, Value

\* So is JoinedUpTo
LEMMA JoinedUpToDef ==
    ASSUME NEW s, NEW m, NEW ifpsMayLoad
    PROVE  JoinedUpTo(s, m, ifpsMayLoad) =
               [n \in 0 .. NumSlots |->
                   IF n = 0 THEN NoBatch(s, m)
                   ELSE Continued(JoinedUpTo(s, m, ifpsMayLoad)[n - 1], ifpsMayLoad)]
<1> DEFINE Base == NoBatch(s, m)
           Value(v, n) == Continued(v, ifpsMayLoad)
           Def(f, k) == f = [n \in 0 .. k |-> IF n = 0 THEN Base ELSE Value(f[n - 1], n)]
           P == {k \in Nat : \E f : Def(f, k)}
<1> HIDE DEF Base, Value
<1>1. 0 \in P
  <2>1. Def([n \in 0 .. 0 |-> Base], 0) OBVIOUS
  <2> QED BY <2>1
<1>2. ASSUME NEW k \in Nat, k \in P PROVE k + 1 \in P
  <2>1. PICK f : Def(f, k) BY <1>2
  <2> DEFINE g == [n \in 0 .. k + 1 |-> IF n <= k THEN f[n] ELSE Value(f[k], k + 1)]
  <2>2. ASSUME NEW n \in 0 .. k + 1
        PROVE  g[n] = IF n = 0 THEN Base ELSE Value(g[n - 1], n)
    <3>1. CASE n = k + 1
      <4>1. n - 1 = k /\ n # 0 /\ ~(n <= k) BY <3>1
      <4>2. g[k] = f[k] OBVIOUS
      <4> QED BY <3>1, <4>1, <4>2
    <3>2. CASE n \in 0 .. k
      <4>1. g[n] = f[n] BY <3>2
      <4>2. f[n] = IF n = 0 THEN Base ELSE Value(f[n - 1], n) BY <2>1, <3>2
      <4>3. n # 0 => g[n - 1] = f[n - 1] BY <3>2
      <4> QED BY <4>1, <4>2, <4>3
    <3> QED BY <3>1, <3>2
  <2>3. Def(g, k + 1) BY <2>2
  <2> HIDE DEF g, Def
  <2> QED BY <2>3
<1>3. NumSlots \in P
  <2> HIDE DEF P
  <2> QED BY <1>1, <1>2, NatInductionOnSets, BoundAssumption
<1> QED BY <1>3 DEF JoinedUpTo, Base, Value

\* So is EvictedUpTo
LEMMA EvictedUpToDef ==
    ASSUME NEW s, NEW size
    PROVE  EvictedUpTo(s, size) =
               [n \in 0 .. Cardinality(Models) |->
                   IF n = 0 THEN {s}
                   ELSE EvictedUpTo(s, size)[n - 1] \cup Evictions(EvictedUpTo(s, size)[n - 1], size)]
<1> DEFINE Base == {s}
           Value(v, n) == v \cup Evictions(v, size)
           Def(f, k) == f = [n \in 0 .. k |-> IF n = 0 THEN Base ELSE Value(f[n - 1], n)]
           P == {k \in Nat : \E f : Def(f, k)}
<1> HIDE DEF Base, Value
<1>1. 0 \in P
  <2>1. Def([n \in 0 .. 0 |-> Base], 0) OBVIOUS
  <2> QED BY <2>1
<1>2. ASSUME NEW k \in Nat, k \in P PROVE k + 1 \in P
  <2>1. PICK f : Def(f, k) BY <1>2
  <2> DEFINE g == [n \in 0 .. k + 1 |-> IF n <= k THEN f[n] ELSE Value(f[k], k + 1)]
  <2>2. ASSUME NEW n \in 0 .. k + 1
        PROVE  g[n] = IF n = 0 THEN Base ELSE Value(g[n - 1], n)
    <3>1. CASE n = k + 1
      <4>1. n - 1 = k /\ n # 0 /\ ~(n <= k) BY <3>1
      <4>2. g[k] = f[k] OBVIOUS
      <4> QED BY <3>1, <4>1, <4>2
    <3>2. CASE n \in 0 .. k
      <4>1. g[n] = f[n] BY <3>2
      <4>2. f[n] = IF n = 0 THEN Base ELSE Value(f[n - 1], n) BY <2>1, <3>2
      <4>3. n # 0 => g[n - 1] = f[n - 1] BY <3>2
      <4> QED BY <4>1, <4>2, <4>3
    <3> QED BY <3>1, <3>2
  <2>3. Def(g, k + 1) BY <2>2
  <2> HIDE DEF g, Def
  <2> QED BY <2>3
<1>3. Cardinality(Models) \in P
  <2> HIDE DEF P
  <2> QED BY <1>1, <1>2, NatInductionOnSets, ModelAssumption, FS_CardinalityType
<1> QED BY <1>3 DEF EvictedUpTo, Base, Value

\* So is LoadedUpTo
LEMMA LoadedUpToDef ==
    ASSUME NEW s, NEW c, NEW N, N \in Nat
    PROVE  LoadedUpTo(s, c, N) =
               [n \in 0 .. N |->
                   IF n = 0 THEN {s}
                   ELSE UNION {LoadOne(x, c, n) : x \in LoadedUpTo(s, c, N)[n - 1]}]
<1> DEFINE Base == {s}
           Value(v, n) == UNION {LoadOne(x, c, n) : x \in v}
           Def(f, k) == f = [n \in 0 .. k |-> IF n = 0 THEN Base ELSE Value(f[n - 1], n)]
           P == {k \in Nat : \E f : Def(f, k)}
<1> HIDE DEF Base, Value
<1>1. 0 \in P
  <2>1. Def([n \in 0 .. 0 |-> Base], 0) OBVIOUS
  <2> QED BY <2>1
<1>2. ASSUME NEW k \in Nat, k \in P PROVE k + 1 \in P
  <2>1. PICK f : Def(f, k) BY <1>2
  <2> DEFINE g == [n \in 0 .. k + 1 |-> IF n <= k THEN f[n] ELSE Value(f[k], k + 1)]
  <2>2. ASSUME NEW n \in 0 .. k + 1
        PROVE  g[n] = IF n = 0 THEN Base ELSE Value(g[n - 1], n)
    <3>1. CASE n = k + 1
      <4>1. n - 1 = k /\ n # 0 /\ ~(n <= k) BY <3>1
      <4>2. g[k] = f[k] OBVIOUS
      <4> QED BY <3>1, <4>1, <4>2
    <3>2. CASE n \in 0 .. k
      <4>1. g[n] = f[n] BY <3>2
      <4>2. f[n] = IF n = 0 THEN Base ELSE Value(f[n - 1], n) BY <2>1, <3>2
      <4>3. n # 0 => g[n - 1] = f[n - 1] BY <3>2
      <4> QED BY <4>1, <4>2, <4>3
    <3> QED BY <3>1, <3>2
  <2>3. Def(g, k + 1) BY <2>2
  <2> HIDE DEF g, Def
  <2> QED BY <2>3
<1>3. N \in P
  <2> HIDE DEF P
  <2> QED BY <1>1, <1>2, NatInductionOnSets
<1> QED BY <1>3 DEF LoadedUpTo, Base, Value

-----------------------------------------------------------------------------
(* Lists                                                                   *)

\* An entry at the front of a list that has none twice
LEMMA FirstOfList ==
    ASSUME NEW S, NEW q, NEW m, q \in Seq(S), m \in S
    PROVE  LET r == <<m>> \o q IN
           /\ r \in Seq(S) /\ Len(r) = Len(q) + 1
           /\ Range(r) = Range(q) \cup {m}
           /\ IsInjective(q) /\ m \notin Range(q) => IsInjective(r)
<1> DEFINE r == <<m>> \o q
<1>1. r \in Seq(S) /\ Len(r) = Len(q) + 1 /\ Len(q) \in Nat OBVIOUS
<1>2. \A i \in 1 .. Len(r) : r[i] = IF i = 1 THEN m ELSE q[i - 1] OBVIOUS
<1>3. DOMAIN r = 1 .. Len(q) + 1 /\ DOMAIN q = 1 .. Len(q) BY <1>1
<1> HIDE DEF r
<1>4. Range(r) = Range(q) \cup {m}
  <2>1. ASSUME NEW i \in DOMAIN r PROVE r[i] \in Range(q) \cup {m}
    <3>1. CASE i = 1 BY <1>1, <1>2, <1>3, <3>1
    <3>2. CASE i # 1
      <4>1. i - 1 \in DOMAIN q /\ r[i] = q[i - 1] BY <1>1, <1>2, <1>3, <3>2
      <4> QED BY <4>1 DEF Range
    <3> QED BY <3>1, <3>2
  <2>2. m \in Range(r)
    <3>1. 1 \in DOMAIN r /\ r[1] = m BY <1>1, <1>2, <1>3
    <3> QED BY <3>1 DEF Range
  <2>3. ASSUME NEW i \in DOMAIN q PROVE q[i] \in Range(r)
    <3>1. i + 1 \in DOMAIN r /\ r[i + 1] = q[i] BY <1>1, <1>2, <1>3
    <3> QED BY <3>1 DEF Range
  <2> QED BY <2>1, <2>2, <2>3 DEF Range
<1>5. ASSUME IsInjective(q), m \notin Range(q) PROVE IsInjective(r)
  <2> SUFFICES ASSUME NEW a \in DOMAIN r, NEW b \in DOMAIN r, r[a] = r[b] PROVE a = b
    BY DEF IsInjective
  <2>1. ASSUME NEW i \in DOMAIN r, i # 1 PROVE i - 1 \in DOMAIN q /\ r[i] = q[i - 1] /\ r[i] # m
    <3>1. i - 1 \in DOMAIN q /\ r[i] = q[i - 1] BY <1>1, <1>2, <1>3, <2>1
    <3> QED BY <1>5, <3>1 DEF Range
  <2>2. r[1] = m BY <1>1, <1>2, <1>3
  <2> QED BY <1>3, <1>5, <2>1, <2>2 DEF IsInjective
<1> QED BY <1>1, <1>4, <1>5 DEF r

\* A list without the entry at a place
LEMMA RemoveAtPlace ==
    ASSUME NEW S, NEW q, NEW j, q \in Seq(S), j \in 1 .. Len(q)
    PROVE  LET r == RemoveAt(q, j) IN
           /\ r \in Seq(S) /\ Len(r) = Len(q) - 1
           /\ \A i \in 1 .. Len(q) - 1 : r[i] = IF i < j THEN q[i] ELSE q[i + 1]
<1> DEFINE a == SubSeq(q, 1, j - 1)
           b == SubSeq(q, j + 1, Len(q))
<1>0. Len(q) \in Nat OBVIOUS
<1>1. a \in Seq(S) /\ Len(a) = j - 1 /\ \A i \in 1 .. j - 1 : a[i] = q[i] OBVIOUS
<1>2. b \in Seq(S) /\ Len(b) = Len(q) - j /\ \A i \in 1 .. Len(q) - j : b[i] = q[i + j]
  OBVIOUS
<1>3. RemoveAt(q, j) = a \o b BY DEF RemoveAt
<1> HIDE DEF a, b
<1>4. (a \o b) \in Seq(S) /\ Len(a \o b) = Len(q) - 1
  <2>1. a \in Seq(S) /\ b \in Seq(S) BY <1>1, <1>2
  <2>2. (a \o b) \in Seq(S) BY ONLY <2>1
  <2>3. Len(a \o b) = Len(a) + Len(b) BY ONLY <2>1
  <2> QED BY <1>0, <1>1, <1>2, <2>2, <2>3
<1>5. ASSUME NEW i \in 1 .. Len(q) - 1 PROVE (a \o b)[i] = IF i < j THEN q[i] ELSE q[i + 1]
  <2>1. CASE i < j BY <1>0, <1>1, <1>2, <2>1
  <2>2. CASE ~(i < j)
    <3>1. (a \o b)[i] = b[i - (j - 1)] BY <1>0, <1>1, <1>2, <2>2
    <3>2. i - (j - 1) \in 1 .. Len(q) - j BY <1>0, <2>2
    <3>3. b[i - (j - 1)] = q[i - (j - 1) + j] BY <1>2, <3>2
    <3>4. i - (j - 1) + j = i + 1 BY <1>0
    <3> QED BY <2>2, <3>1, <3>3, <3>4
  <2> QED BY <2>1, <2>2
<1> QED BY <1>3, <1>4, <1>5

\* A list that has no entry twice, without one of them
LEMMA RemovedFromList ==
    ASSUME NEW S, NEW q, NEW m, q \in Seq(S), IsInjective(q), m \in Range(q)
    PROVE  LET r == RemoveFirst(q, m) IN
           /\ r \in Seq(S) /\ Len(r) = Len(q) - 1
           /\ Range(r) = Range(q) \ {m}
           /\ IsInjective(r)
<1>0. Len(q) \in Nat /\ DOMAIN q = 1 .. Len(q) OBVIOUS
<1>1. PICK j \in 1 .. Len(q) : q[j] = m BY <1>0 DEF Range
<1>2. {i \in 1 .. Len(q) : q[i] = m} = {j} BY <1>0, <1>1 DEF IsInjective
<1>3. SelectInSeq(q, LAMBDA v : v = m) = j
  <2>1. SelectInSeq(q, LAMBDA v : v = m) = Min({j}) BY <1>2 DEF SelectInSeq
  <2>2. Min({j}) = j BY <1>1 DEF Min
  <2> QED BY <2>1, <2>2
<1>4. RemoveFirst(q, m) = RemoveAt(q, j) BY <1>1, <1>3 DEF RemoveFirst
<1> DEFINE r == RemoveAt(q, j)
<1>5. /\ r \in Seq(S) /\ Len(r) = Len(q) - 1 /\ DOMAIN r = 1 .. Len(q) - 1
      /\ \A i \in 1 .. Len(q) - 1 : r[i] = IF i < j THEN q[i] ELSE q[i + 1]
  BY <1>1, RemoveAtPlace
<1> HIDE DEF r
<1>6. Range(r) = Range(q) \ {m}
  <2>1. ASSUME NEW i \in DOMAIN r PROVE r[i] \in Range(q) \ {m}
    <3>1. CASE i < j
      <4>1. i \in DOMAIN q /\ i # j /\ r[i] = q[i] BY <1>0, <1>1, <1>5, <3>1
      <4> QED BY <1>0, <1>1, <4>1 DEF Range, IsInjective
    <3>2. CASE ~(i < j)
      <4>1. i + 1 \in DOMAIN q /\ i + 1 # j /\ r[i] = q[i + 1] BY <1>0, <1>1, <1>5, <3>2
      <4> QED BY <1>0, <1>1, <4>1 DEF Range, IsInjective
    <3> QED BY <3>1, <3>2
  <2>2. ASSUME NEW i \in DOMAIN q, q[i] # m PROVE q[i] \in Range(r)
    <3>1. CASE i < j
      <4>1. i \in DOMAIN r /\ r[i] = q[i] BY <1>0, <1>1, <1>5, <3>1
      <4> QED BY <4>1 DEF Range
    <3>2. CASE ~(i < j)
      <4>0. i # j BY <1>1, <2>2
      <4>1. i - 1 \in DOMAIN r /\ r[i - 1] = q[i] BY <1>0, <1>1, <1>5, <3>2, <4>0
      <4> QED BY <4>1 DEF Range
    <3> QED BY <3>1, <3>2
  <2> QED BY <2>1, <2>2 DEF Range
<1>7. IsInjective(r)
  <2> SUFFICES ASSUME NEW a \in DOMAIN r, NEW b \in DOMAIN r, r[a] = r[b] PROVE a = b
    BY DEF IsInjective
  <2> DEFINE x(i) == IF i < j THEN i ELSE i + 1
  <2>1. \A i \in DOMAIN r : x(i) \in DOMAIN q /\ r[i] = q[x(i)] BY <1>0, <1>1, <1>5
  <2>2. x(a) = x(b) BY <2>1 DEF IsInjective
  <2> QED BY <1>0, <1>1, <1>5, <2>2
<1> QED BY <1>4, <1>5, <1>6, <1>7 DEF r

-----------------------------------------------------------------------------
(* Requests                                                                *)

\* What requests do: a model that was not loaded may be requested, nothing else
Asked(s, t) ==
    /\ t.ms_channel = s.ms_channel
    /\ t.ms_bLoadingBigModel = s.ms_bLoadingBigModel
    /\ \A n \in Models :
           \/ t.LoadState[n] = s.LoadState[n]
           \/ s.LoadState[n] = "NOT_LOADED" /\ t.LoadState[n] = "REQUESTED"

\* The counter of priority requests wraps around
LEMMA CountInRange ==
    ASSUME NEW x, NEW k, x \in Int, k \in Int
    PROVE  (x + k + UINT32) % UINT32 \in 0 .. UINT32 - 1
  BY BoundAssumption

\* and nothing else changes with it
LEMMA PrioritiesType ==
    ASSUME NEW s, NEW k, s \in State, k \in {-1, 0, 1}
    PROVE  LET t == Priorities(s, k) IN
           /\ t \in State
           /\ t = [s EXCEPT !.ms_numPriorityRequests = t.ms_numPriorityRequests]
<1> DEFINE v == (s.ms_numPriorityRequests + k + UINT32) % UINT32
           t == [s EXCEPT !.ms_numPriorityRequests = v]
<1>1. s.ms_numPriorityRequests \in Int /\ k \in Int BY BoundAssumption DEF State
<1>2. v \in 0 .. UINT32 - 1 BY <1>1, CountInRange
<1> HIDE DEF v
<1>3. t \in State BY <1>2 DEF State
<1>4. t.ms_numPriorityRequests = v BY DEF State
<1> QED BY <1>3, <1>4 DEF Priorities, v

\* What a channel is made of
LEMMA SlotTypes ==
    ASSUME NEW s, NEW c, s \in State, c \in Channels
    PROVE  /\ s.ms_channel[c] \in Channel
           /\ s.ms_channel[c].models \in Seq(Slot) /\ Len(s.ms_channel[c].models) \in Nat
           /\ s.ms_channel[c].pos \in Nat /\ s.ms_channel[c].sectorCount \in Nat
           /\ Places(s, c) = 1 .. Len(s.ms_channel[c].models)
           /\ \A k \in Places(s, c) : /\ s.ms_channel[c].models[k] \in Slot
                                      /\ Id(s, c, k) \in Models \cup {MODEL_INVALID}
                                      /\ s.ms_channel[c].models[k].at \in Nat
<1>1. s.ms_channel[c] \in Channel BY DEF State
<1> DEFINE q == s.ms_channel[c].models
<1>2. q \in Seq(Slot) BY <1>1 DEF Channel
<1>3. s.ms_channel[c].pos \in Nat /\ s.ms_channel[c].sectorCount \in Nat BY <1>1 DEF Channel
<1>4. Len(q) \in Nat /\ DOMAIN q = 1 .. Len(q) /\ \A k \in DOMAIN q : q[k] \in Slot
  <2> HIDE DEF q
  <2> QED BY <1>2
<1>5. \A k \in DOMAIN q : q[k].id \in Models \cup {MODEL_INVALID} /\ q[k].at \in Nat
  <2> HIDE DEF q
  <2> QED BY <1>4 DEF Slot
<1> QED BY <1>1, <1>2, <1>3, <1>4, <1>5 DEF Places, Id

\* The slots stay right while no model begins or ends to be read
LEMMA SameSlots ==
    ASSUME NEW s, NEW t, NEW half, SlotsFit(s, half), t.ms_channel = s.ms_channel,
           s \in State,
           \A n \in Models : \/ t.LoadState[n] = s.LoadState[n]
                             \/ /\ s.LoadState[n] \notin {"READING", "FINISHING"}
                                /\ t.LoadState[n] \notin {"READING", "FINISHING"}
    PROVE  SlotsFit(t, half)
<1>1. \A c \in Channels : Places(t, c) = Places(s, c) /\ \A k \in Places(s, c) : Id(t, c, k) = Id(s, c, k)
  BY DEF Places, Id
<1>2. \A c \in Channels : \A k \in Places(s, c) : Id(s, c, k) \in Models \cup {MODEL_INVALID}
  BY SlotTypes
<1> QED BY <1>1, <1>2 DEF SlotsFit

\* Nothing but a model that was not loaded is put on the request list
LEMMA NewRequestSound ==
    ASSUME NEW s, NEW m, NEW flags, NEW half, Sound(s, half), m \in Models,
           flags \in SUBSET Flags, s.LoadState[m] = "NOT_LOADED"
    PROVE  LET t == NewRequest(s, m, flags) IN Sound(t, half) /\ Asked(s, t)
<1> DEFINE u == [s EXCEPT !.LoadState[m] = "REQUESTED", !.Flags[m] = flags,
                          !.requested = <<m>> \o @, !.ms_numModelsRequested = @ + 1]
           t == NewRequest(s, m, flags)
           q == <<m>> \o s.requested
<1>0. s \in State /\ s.requested \in Seq(Models) BY DEF Sound, State
<1>1. /\ q \in Seq(Models) /\ Len(q) = Len(s.requested) + 1
      /\ Range(q) = Range(s.requested) \cup {m}
      /\ IsInjective(s.requested) /\ m \notin Range(s.requested) => IsInjective(q)
  BY <1>0, FirstOfList
<1> HIDE DEF q
<1>6. s.LoadState \in [Models -> LoadStates] /\ s.Flags \in [Models -> SUBSET Flags] BY <1>0 DEF State
<1>2. u \in State
  <2> DEFINE a == [s.LoadState EXCEPT ![m] = "REQUESTED"]
             b == [s.Flags EXCEPT ![m] = flags]
             n == s.ms_numModelsRequested + 1
  <2>1. a \in [Models -> LoadStates] /\ b \in [Models -> SUBSET Flags] BY <1>6 DEF LoadStates
  <2>2. n \in Int BY <1>0 DEF State
  <2>3. u = [s EXCEPT !.LoadState = a, !.Flags = b, !.requested = q, !.ms_numModelsRequested = n]
    BY <1>0 DEF q, State
  <2> HIDE DEF u, a, b, n
  <2> QED BY <1>0, <1>1, <2>1, <2>2, <2>3 DEF State
<1>3. /\ u.LoadState = [s.LoadState EXCEPT ![m] = "REQUESTED"]
      /\ u.Flags = [s.Flags EXCEPT ![m] = flags] /\ u.requested = q
      /\ u.loaded = s.loaded /\ u.ms_numModelsRequested = s.ms_numModelsRequested + 1
      /\ u.ms_channel = s.ms_channel /\ u.ms_memoryUsed = s.ms_memoryUsed
      /\ u.ms_bLoadingBigModel = s.ms_bLoadingBigModel
  BY <1>0 DEF State, q
<1> HIDE DEF u
<1>4. /\ t \in State
      /\ t = [u EXCEPT !.ms_numPriorityRequests = t.ms_numPriorityRequests]
  <2> DEFINE k == IF IsPriority(flags) THEN 1 ELSE 0
  <2>1. k \in {-1, 0, 1} OBVIOUS
  <2>2. t = Priorities(u, k) BY DEF NewRequest, u
  <2> HIDE DEF k, t
  <2> QED BY <1>2, <2>1, <2>2, PrioritiesType
<1>5. /\ t.LoadState = [s.LoadState EXCEPT ![m] = "REQUESTED"]
      /\ t.Flags = [s.Flags EXCEPT ![m] = flags] /\ t.requested = q
      /\ t.loaded = s.loaded /\ t.ms_numModelsRequested = s.ms_numModelsRequested + 1
      /\ t.ms_channel = s.ms_channel /\ t.ms_memoryUsed = s.ms_memoryUsed
      /\ t.ms_bLoadingBigModel = s.ms_bLoadingBigModel
  BY <1>2, <1>3, <1>4 DEF State
<1> HIDE DEF t
<1>7. RequestsFit(t)
  <2>1. RequestsFit(s) BY DEF Sound
  <2>2. m \notin Range(s.requested) BY <2>1 DEF RequestsFit
  <2>3. Range(q) = {n \in Models : t.LoadState[n] = "REQUESTED"}
    BY <1>1, <1>5, <1>6, <2>1 DEF RequestsFit
  <2> QED BY <1>1, <1>5, <2>1, <2>2, <2>3 DEF RequestsFit
<1>8. LoadedModels(t) = LoadedModels(s) BY <1>5, <1>6 DEF LoadedModels
<1>9. MemoryFits(t) BY <1>5, <1>8 DEF Sound, MemoryFits
<1>10. NeedsFit(t)
  <2>1. NeedsFit(s) BY DEF Sound
  <2>2. \A n \in DFFs : n \in Models /\ Needs(n) \subseteq Models
    BY ModelAssumption DEF DFFs, Needs, Txds, Ifps
  <2> QED BY <1>5, <1>6, <2>1, <2>2 DEF NeedsFit
<1>11. LoadedFit(t)
  <2>1. LoadedFit(s) BY DEF Sound
  <2> QED BY <1>5, <1>6, <2>1 DEF LoadedFit, IsMissionOrGameRequired
<1>12. SlotsFit(t, half)
  <2>1. SlotsFit(s, half) BY DEF Sound
  <2> QED BY <1>0, <1>5, <1>6, <2>1, SameSlots
<1>13. Asked(s, t) BY <1>5, <1>6 DEF Asked
<1> QED BY <1>4, <1>7, <1>9, <1>10, <1>11, <1>12, <1>13 DEF Sound, t

\* The textures and the animations of a DFF
LEMMA NeedsAreModels ==
    ASSUME NEW d, d \in DFFs
    PROVE  d \in Models /\ Needs(d) \subseteq Models /\ Txd[d] \in Models /\ Txd[d] \in Txds
           /\ Anim[d] \in Models \cup {MODEL_INVALID} /\ d \notin Needs(d) /\ Txd[d] \in Needs(d)
           /\ Needs(d) = {Txd[d], Anim[d]} \ {MODEL_INVALID}
           /\ (Anim[d] # MODEL_INVALID => Anim[d] \in Ifps)
<1>1. d \in Models /\ Txd[d] \in Txds /\ Anim[d] \in Ifps \cup {MODEL_INVALID}
  BY ModelAssumption DEF DFFs
<1>2. Txds \subseteq Models /\ Ifps \subseteq Models /\ DFFs \cap Txds = {} /\ DFFs \cap Ifps = {}
  BY DEF DFFs, Txds, Ifps
<1> QED BY <1>1, <1>2, ModelAssumption DEF Needs

\* Flags and the loaded list may change while nothing else does
LEMMA SameStatesSound ==
    ASSUME NEW s, NEW t, NEW half, Sound(s, half), t \in State, LoadedFit(t),
           t.LoadState = s.LoadState, t.requested = s.requested,
           t.ms_numModelsRequested = s.ms_numModelsRequested,
           t.ms_channel = s.ms_channel, t.ms_memoryUsed = s.ms_memoryUsed
    PROVE  Sound(t, half)
<1>1. RequestsFit(t) BY DEF Sound, RequestsFit
<1>2. MemoryFits(t) BY DEF Sound, MemoryFits, LoadedModels
<1>3. NeedsFit(t) BY DEF Sound, NeedsFit
<1>4. SlotsFit(t, half) BY SameSlots DEF Sound
<1> QED BY <1>1, <1>2, <1>3, <1>4 DEF Sound

\* A request may change nothing
LEMMA AskedRefl == ASSUME NEW s PROVE Asked(s, s)
  BY DEF Asked

\* Two requests are like one
LEMMA AskedTrans ==
    ASSUME NEW s, NEW t, NEW u, Asked(s, t), Asked(t, u)
    PROVE  Asked(s, u)
  BY DEF Asked

\* More flags for a model
LEMMA MoreFlagsSound ==
    ASSUME NEW s, NEW m, NEW flags, NEW half, Sound(s, half), m \in Models,
           flags \in SUBSET Flags
    PROVE  LET t == [s EXCEPT !.Flags[m] = @ \cup flags] IN
           /\ Sound(t, half) /\ Asked(s, t) /\ t.LoadState = s.LoadState
<1> DEFINE b == [s.Flags EXCEPT ![m] = s.Flags[m] \cup flags]
           t == [s EXCEPT !.Flags = b]
<1>0. s \in State /\ s.Flags \in [Models -> SUBSET Flags] BY DEF Sound, State
<1>1. b \in [Models -> SUBSET Flags] /\ \A n \in Models : s.Flags[n] \subseteq b[n] BY <1>0
<1>2. [s EXCEPT !.Flags[m] = @ \cup flags] = t BY <1>0 DEF State
<1> HIDE DEF b
<1>3. /\ t \in State /\ t.LoadState = s.LoadState /\ t.requested = s.requested
      /\ t.ms_numModelsRequested = s.ms_numModelsRequested
      /\ t.ms_channel = s.ms_channel /\ t.ms_memoryUsed = s.ms_memoryUsed
      /\ t.ms_bLoadingBigModel = s.ms_bLoadingBigModel
      /\ t.loaded = s.loaded /\ t.Flags = b
  BY <1>0, <1>1 DEF State
<1> HIDE DEF t
<1>4. LoadedFit(t)
  <2>1. LoadedFit(s) BY DEF Sound
  <2> QED BY <1>1, <1>3, <2>1 DEF LoadedFit, IsMissionOrGameRequired
<1>5. Sound(t, half) BY <1>3, <1>4, SameStatesSound
<1>6. Asked(s, t) BY <1>3 DEF Asked
<1> QED BY <1>2, <1>3, <1>5, <1>6

\* The count of priority requests does not matter to anything else
LEMMA PrioritiesSound ==
    ASSUME NEW s, NEW k, NEW half, Sound(s, half), k \in {-1, 0, 1}
    PROVE  LET t == Priorities(s, k) IN
           /\ Sound(t, half) /\ Asked(s, t) /\ t.LoadState = s.LoadState
<1> DEFINE t == Priorities(s, k)
<1>0. s \in State BY DEF Sound
<1>1. /\ t \in State
      /\ t = [s EXCEPT !.ms_numPriorityRequests = t.ms_numPriorityRequests]
  BY <1>0, PrioritiesType
<1> HIDE DEF t
<1>2. /\ t.LoadState = s.LoadState /\ t.requested = s.requested
      /\ t.ms_numModelsRequested = s.ms_numModelsRequested
      /\ t.ms_channel = s.ms_channel /\ t.ms_memoryUsed = s.ms_memoryUsed
      /\ t.ms_bLoadingBigModel = s.ms_bLoadingBigModel
      /\ t.loaded = s.loaded /\ t.Flags = s.Flags
  BY <1>0, <1>1 DEF State
<1>3. LoadedFit(t) BY <1>2 DEF Sound, LoadedFit, IsMissionOrGameRequired
<1>4. Sound(t, half) BY <1>1, <1>2, <1>3, SameStatesSound
<1>5. Asked(s, t) BY <1>2 DEF Asked
<1> QED BY <1>2, <1>4, <1>5 DEF t

\* A model on the loaded list is the first there again
LEMMA TouchedSound ==
    ASSUME NEW s, NEW m, NEW half, Sound(s, half), m \in Models
    PROVE  LET t == Touched(s, m) IN
           /\ Sound(t, half) /\ Asked(s, t) /\ t.LoadState = s.LoadState
<1>1. CASE m \in s.loaded /\ (Type[m] \in {"PED", "VEHICLE"} \/ IsMissionOrGameRequired(s, m))
  <2> DEFINE l == s.loaded \ {m}
             t == [s EXCEPT !.loaded = l]
  <2>0. s \in State BY DEF Sound
  <2>1. l \in SUBSET Models BY <2>0 DEF State
  <2>2. Touched(s, m) = t BY <1>1, <2>0 DEF Touched, State
  <2> HIDE DEF l
  <2>3. /\ t \in State /\ t.LoadState = s.LoadState /\ t.requested = s.requested
        /\ t.ms_numModelsRequested = s.ms_numModelsRequested
        /\ t.ms_channel = s.ms_channel /\ t.ms_memoryUsed = s.ms_memoryUsed
        /\ t.ms_bLoadingBigModel = s.ms_bLoadingBigModel
        /\ t.loaded = l /\ t.Flags = s.Flags
    BY <2>0, <2>1 DEF State
  <2> HIDE DEF t
  <2>4. LoadedFit(t)
    <3>1. LoadedFit(s) BY DEF Sound
    <3>2. m \in Listed => IsMissionOrGameRequired(s, m) BY <1>1 DEF Listed
    <3> QED BY <2>3, <3>1, <3>2 DEF LoadedFit, IsMissionOrGameRequired, l
  <2>5. Sound(t, half) BY <2>3, <2>4, SameStatesSound
  <2>6. Asked(s, t) BY <2>3 DEF Asked
  <2> QED BY <2>2, <2>3, <2>5, <2>6
<1>2. CASE ~(m \in s.loaded /\ (Type[m] \in {"PED", "VEHICLE"} \/ IsMissionOrGameRequired(s, m)))
  <2>1. Touched(s, m) = s BY <1>2 DEF Touched
  <2> QED BY <2>1, AskedRefl
<1> QED BY <1>1, <1>2

\* A request for one model
LEMMA RequestAloneSound ==
    ASSUME NEW s, NEW m, NEW flags, NEW half, Sound(s, half), m \in Models,
           flags \in SUBSET Flags
    PROVE  LET t == RequestAlone(s, m, flags) IN Sound(t, half) /\ Asked(s, t)
<1> DEFINE more == flags \ {"PRIORITY_REQUEST"}
           late == [s EXCEPT !.Flags[m] = @ \cup more]
           t == RequestAlone(s, m, flags)
<1> SUFFICES Sound(t, half) /\ Asked(s, t) OBVIOUS
<1>0. s.LoadState[m] \in LoadStates BY DEF Sound, State
<1>1. ASSUME s.LoadState[m] = "NOT_LOADED" PROVE t = NewRequest(s, m, flags)
  BY <1>1 DEF RequestAlone
<1>2. ASSUME s.LoadState[m] = "REQUESTED" PROVE t = AgainRequested(s, m, flags)
  BY <1>2 DEF RequestAlone
<1>3. ASSUME s.LoadState[m] \notin {"NOT_LOADED", "REQUESTED"}
      PROVE t = IF s.LoadState[m] = "LOADED" THEN Touched(late, m) ELSE late
  BY <1>0, <1>3 DEF RequestAlone, LoadStates
<1> HIDE DEF t
<1>4. CASE s.LoadState[m] = "NOT_LOADED" BY <1>1, <1>4, NewRequestSound
<1>5. CASE s.LoadState[m] = "REQUESTED"
  <2> DEFINE u == [s EXCEPT !.Flags[m] = @ \cup flags]
             k == IF IsPriority(flags) /\ ~IsPriority(s.Flags[m]) THEN 1 ELSE 0
  <2>1. t = Priorities(u, k) BY <1>2, <1>5 DEF AgainRequested
  <2>2. Sound(u, half) /\ Asked(s, u) BY MoreFlagsSound
  <2>3. k \in {-1, 0, 1} OBVIOUS
  <2> HIDE DEF u, k
  <2>4. Sound(t, half) /\ Asked(u, t) BY <2>1, <2>2, <2>3, PrioritiesSound
  <2> QED BY <2>2, <2>4, AskedTrans
<1>6. CASE s.LoadState[m] \notin {"NOT_LOADED", "REQUESTED"}
  <2>1. more \in SUBSET Flags OBVIOUS
  <2>2. Sound(late, half) /\ Asked(s, late) BY <2>1, MoreFlagsSound
  <2> HIDE DEF late
  <2>4. CASE s.LoadState[m] = "LOADED"
    <3>1. t = Touched(late, m) BY <1>3, <1>6, <2>4
    <3>2. Sound(t, half) /\ Asked(late, t) BY <2>2, <3>1, TouchedSound
    <3> QED BY <2>2, <3>2, AskedTrans
  <2>5. CASE s.LoadState[m] # "LOADED"
    <3>1. t = late BY <1>3, <1>6, <2>5
    <3> QED BY <2>2, <3>1
  <2> QED BY <2>4, <2>5
<1> QED BY <1>4, <1>5, <1>6

\* A request for the animations of a DFF
LEMMA RequestAnimSound ==
    ASSUME NEW s, NEW m, NEW half, Sound(s, half), m \in DFFs
    PROVE  LET t == RequestAnim(s, m) IN Sound(t, half) /\ Asked(s, t)
<1> DEFINE t == RequestAnim(s, m)
           keep == {"KEEP_IN_MEMORY"}
<1> SUFFICES Sound(t, half) /\ Asked(s, t) OBVIOUS
<1>1. t = IF Anim[m] = MODEL_INVALID THEN s ELSE RequestAlone(s, Anim[m], keep)
  BY DEF RequestAnim
<1>2. keep \in SUBSET Flags BY DEF Flags
<1> HIDE DEF t, keep
<1>3. CASE Anim[m] = MODEL_INVALID BY <1>1, <1>3, AskedRefl
<1>4. CASE Anim[m] # MODEL_INVALID
  <2>1. Anim[m] \in Models BY <1>4, NeedsAreModels
  <2>2. t = RequestAlone(s, Anim[m], keep) BY <1>1, <1>4
  <2> QED BY <1>2, <2>1, <2>2, RequestAloneSound
<1> QED BY <1>3, <1>4

\* RequestModel keeps everything in order, and does nothing to a model that
\* was asked for before
LEMMA RequestModelSound ==
    ASSUME NEW s, NEW m, NEW flags, NEW half, Sound(s, half), m \in Models,
           flags \in SUBSET Flags
    PROVE  LET t == RequestModel(s, m, flags) IN Sound(t, half) /\ Asked(s, t)
<1> DEFINE t == RequestModel(s, m, flags)
           u == RequestAlone(s, Txd[m], flags)
           v == RequestAnim(u, m)
<1> SUFFICES Sound(t, half) /\ Asked(s, t) OBVIOUS
<1>1. t = IF m \in DFFs /\ s.LoadState[m] = "NOT_LOADED"
          THEN RequestAlone(v, m, flags) ELSE RequestAlone(s, m, flags)
  BY DEF RequestModel
<1> HIDE DEF t
<1>2. CASE m \in DFFs /\ s.LoadState[m] = "NOT_LOADED"
  <2>1. t = RequestAlone(v, m, flags) BY <1>1, <1>2
  <2>2. Txd[m] \in Models BY <1>2, NeedsAreModels
  <2>3. Sound(u, half) /\ Asked(s, u) BY <2>2, RequestAloneSound
  <2> HIDE DEF u
  <2>4. Sound(v, half) /\ Asked(u, v) BY <1>2, <2>3, RequestAnimSound
  <2> HIDE DEF v
  <2>5. Sound(t, half) /\ Asked(v, t) BY <2>1, <2>4, RequestAloneSound
  <2>6. Asked(s, v) BY <2>3, <2>4, AskedTrans
  <2> QED BY <2>5, <2>6, AskedTrans
<1>3. CASE ~(m \in DFFs /\ s.LoadState[m] = "NOT_LOADED")
  <2>1. t = RequestAlone(s, m, flags) BY <1>1, <1>3
  <2> QED BY <2>1, RequestAloneSound
<1> QED BY <1>2, <1>3

-----------------------------------------------------------------------------
(* Removal                                                                 *)

\* What requests and removals do to the channels: some slots are emptied
Thinned(s, t) ==
    /\ t.ms_bLoadingBigModel = s.ms_bLoadingBigModel
    /\ \A c \in Channels :
           /\ t.ms_channel[c].LoadStatus = s.ms_channel[c].LoadStatus
           /\ t.ms_channel[c].pos = s.ms_channel[c].pos
           /\ t.ms_channel[c].sectorCount = s.ms_channel[c].sectorCount
           /\ Places(t, c) = Places(s, c)
           /\ \A k \in Places(s, c) :
                  /\ t.ms_channel[c].models[k].at = s.ms_channel[c].models[k].at
                  /\ Id(t, c, k) \in {Id(s, c, k), MODEL_INVALID}
    /\ \A n \in Models : t.LoadState[n] \in {"LOADED", "READING", "FINISHING"} =>
           t.LoadState[n] = s.LoadState[n]

\* They may change nothing
LEMMA ThinnedRefl == ASSUME NEW s PROVE Thinned(s, s)
  BY DEF Thinned

\* Two of them are like one
LEMMA ThinnedTrans ==
    ASSUME NEW s, NEW t, NEW u, Thinned(s, t), Thinned(t, u)
    PROVE  Thinned(s, u)
  BY DEF Thinned

\* A request is one
LEMMA AskedThinned ==
    ASSUME NEW s, NEW t, Asked(s, t)
    PROVE  Thinned(s, t)
  BY DEF Asked, Thinned, Places, Id

\* The slots stay right without a model that is not loaded any more
LEMMA ThinnedSlots ==
    ASSUME NEW s, NEW t, NEW half, NEW m, s \in State, m \in Models,
           SlotsFit(s, half), Thinned(s, t),
           t.LoadState = [s.LoadState EXCEPT ![m] = "NOT_LOADED"],
           \A c \in Channels : \A k \in Places(s, c) :
               /\ Id(t, c, k) = m => <<c, k>> = half
               /\ Id(t, c, k) # Id(s, c, k) => Id(s, c, k) = m /\ <<c, k>> # half
    PROVE  SlotsFit(t, half)
<1>0. s.LoadState \in [Models -> LoadStates] BY DEF State
<1>1. \A c \in Channels : \A k \in Places(s, c) : Id(s, c, k) \in Models \cup {MODEL_INVALID}
  BY SlotTypes
<1>2. \A n \in Models : t.LoadState[n] = IF n = m THEN "NOT_LOADED" ELSE s.LoadState[n] BY <1>0
<1>3. \A c \in Channels :
           /\ t.ms_channel[c].pos = s.ms_channel[c].pos
           /\ t.ms_channel[c].sectorCount = s.ms_channel[c].sectorCount
           /\ Places(t, c) = Places(s, c)
           /\ \A k \in Places(s, c) :
                  /\ t.ms_channel[c].models[k].at = s.ms_channel[c].models[k].at
                  /\ Id(t, c, k) \in {Id(s, c, k), MODEL_INVALID}
  BY DEF Thinned
<1>4. ASSUME NEW c \in Channels, NEW k \in Places(t, c), Id(t, c, k) # MODEL_INVALID
      PROVE  /\ <<c, k>> # half => t.LoadState[Id(t, c, k)] = "READING"
             /\ CdOffset[Id(t, c, k)] = t.ms_channel[c].pos + t.ms_channel[c].models[k].at
             /\ t.ms_channel[c].models[k].at + CdSize[Id(t, c, k)] <= t.ms_channel[c].sectorCount
             /\ \A d \in Channels : \A l \in Places(t, d) :
                      Id(t, d, l) = Id(t, c, k) => d = c /\ l = k
  <2>1. k \in Places(s, c) /\ Id(t, c, k) = Id(s, c, k) /\ Id(s, c, k) \in Models
    BY <1>1, <1>3, <1>4
  <2>2. /\ <<c, k>> # half => s.LoadState[Id(s, c, k)] = "READING"
        /\ CdOffset[Id(s, c, k)] = s.ms_channel[c].pos + s.ms_channel[c].models[k].at
        /\ s.ms_channel[c].models[k].at + CdSize[Id(s, c, k)] <= s.ms_channel[c].sectorCount
        /\ \A d \in Channels : \A l \in Places(s, d) :
                 Id(s, d, l) = Id(s, c, k) => d = c /\ l = k
    BY <1>4, <2>1 DEF SlotsFit
  <2>3. <<c, k>> # half => t.LoadState[Id(t, c, k)] = "READING"
    BY <1>2, <2>1, <2>2
  <2>4. ASSUME NEW d \in Channels, NEW l \in Places(t, d), Id(t, d, l) = Id(t, c, k)
        PROVE  d = c /\ l = k
    BY <1>3, <1>4, <2>1, <2>2, <2>4
  <2> QED BY <1>3, <2>1, <2>2, <2>3, <2>4
<1>5. ASSUME NEW n \in Models, t.LoadState[n] = "READING"
      PROVE  \E c \in Channels : \E k \in Places(t, c) : Id(t, c, k) = n
  <2>1. n # m /\ s.LoadState[n] = "READING" BY <1>2, <1>5
  <2>4. \E c \in Channels : \E k \in Places(s, c) : Id(s, c, k) = n BY <2>1 DEF SlotsFit
  <2>2. PICK c \in Channels : \E k \in Places(s, c) : Id(s, c, k) = n BY <2>4
  <2>5. PICK k \in Places(s, c) : Id(s, c, k) = n BY <2>2
  <2>3. k \in Places(t, c) /\ Id(t, c, k) = n BY <1>3, <2>1, <2>5
  <2> QED BY <2>3
<1>6. ASSUME half # NoPlace
      PROVE  /\ half[1] \in Channels /\ half[2] \in Places(t, half[1])
             /\ Id(t, half[1], half[2]) = Id(s, half[1], half[2])
             /\ Id(t, half[1], half[2]) \in Models
             /\ t.LoadState[Id(t, half[1], half[2])] # "READING"
  <2>1. /\ half = <<half[1], half[2]>>
        /\ half[1] \in Channels /\ half[2] \in Places(s, half[1])
        /\ Id(s, half[1], half[2]) \in Models
        /\ s.LoadState[Id(s, half[1], half[2])] # "READING"
    BY <1>6 DEF SlotsFit
  <2>2. Id(t, half[1], half[2]) = Id(s, half[1], half[2])
    <3>1. SUFFICES ASSUME Id(t, half[1], half[2]) # Id(s, half[1], half[2]) PROVE FALSE OBVIOUS
    <3>2. Id(s, half[1], half[2]) = m /\ <<half[1], half[2]>> # half BY <2>1, <3>1
    <3> QED BY <2>1, <3>2
  <2> QED BY <1>2, <1>3, <2>1, <2>2
<1>7. \A n \in Models : t.LoadState[n] = "FINISHING" =>
           half # NoPlace /\ Id(t, half[1], half[2]) = n
  <2>1. \A n \in Models : s.LoadState[n] = "FINISHING" =>
             half # NoPlace /\ Id(s, half[1], half[2]) = n
    BY DEF SlotsFit
  <2> QED BY <1>2, <1>6, <2>1
<1> QED BY <1>4, <1>5, <1>6, <1>7 DEF SlotsFit

\* Nothing that is loaded needs the model
Free(s, m) == \A d \in DFFs : m \in Needs(d) => s.LoadState[d] # "LOADED"

\* A model is off the request list, out of the channels and not counted
Gone(s, u, half, m) ==
    /\ u \in State /\ u.LoadState = s.LoadState /\ u.loaded = s.loaded
    /\ Thinned(s, u)
    /\ \A n \in Models \ {m} : u.Flags[n] = s.Flags[n]
    /\ IsInjective(u.requested) /\ Range(u.requested) = Range(s.requested) \ {m}
    /\ u.ms_numModelsRequested = Len(u.requested)
    /\ u.ms_memoryUsed = SizeOf(LoadedModels(s) \ {m})
    /\ \A c \in Channels : \A k \in Places(s, c) :
           /\ Id(u, c, k) = m => <<c, k>> = half
           /\ Id(u, c, k) # Id(s, c, k) => Id(s, c, k) = m /\ <<c, k>> # half

\* What is left of a removal
NotLoaded(u, m) == [u EXCEPT !.loaded = @ \ {m}, !.LoadState[m] = "NOT_LOADED"]

\* Once a model is off the request list, out of the channels and not counted
\* any more, it may be called not loaded
LEMMA RemovedSound ==
    ASSUME NEW s, NEW u, NEW half, NEW m, Sound(s, half), m \in Models, Free(s, m),
           Gone(s, u, half, m)
    PROVE  LET t == NotLoaded(u, m) IN
           /\ Sound(t, half) /\ Thinned(s, t)
           /\ t.LoadState = [s.LoadState EXCEPT ![m] = "NOT_LOADED"]
           /\ t.ms_channel = u.ms_channel
<1> DEFINE a == [s.LoadState EXCEPT ![m] = "NOT_LOADED"]
           l == s.loaded \ {m}
           t == NotLoaded(u, m)
<1> SUFFICES /\ Sound(t, half) /\ Thinned(s, t)
             /\ t.LoadState = a /\ t.ms_channel = u.ms_channel
  OBVIOUS
<1>g. Gone(s, u, half, m) OBVIOUS
<1>0. s \in State /\ s.LoadState \in [Models -> LoadStates] BY DEF Sound, State
<1>1. a \in [Models -> LoadStates] BY <1>0 DEF LoadStates
<1>2. l \in SUBSET Models BY <1>0 DEF State
<1>3. t = [u EXCEPT !.LoadState = a, !.loaded = l] BY <1>g DEF State, Gone, NotLoaded
<1>4. \A n \in Models : a[n] = IF n = m THEN "NOT_LOADED" ELSE s.LoadState[n] BY <1>0
<1> HIDE DEF t, a
<1>5. /\ t \in State /\ t.LoadState = a /\ t.loaded = l /\ t.Flags = u.Flags
      /\ t.requested = u.requested /\ t.ms_numModelsRequested = u.ms_numModelsRequested
      /\ t.ms_channel = u.ms_channel /\ t.ms_memoryUsed = u.ms_memoryUsed
      /\ t.ms_bLoadingBigModel = u.ms_bLoadingBigModel
  BY <1>g, <1>1, <1>2, <1>3 DEF State, Gone
<1>6. RequestsFit(t) BY <1>g, <1>4, <1>5 DEF Sound, RequestsFit, Gone
<1>7. MemoryFits(t)
  <2>1. LoadedModels(t) = LoadedModels(s) \ {m} BY <1>4, <1>5 DEF LoadedModels
  <2> QED BY <1>g, <1>5, <2>1 DEF MemoryFits, Gone
<1>8. NeedsFit(t)
  <2>1. \A d \in DFFs : d \in Models /\ Needs(d) \subseteq Models BY NeedsAreModels
  <2>2. NeedsFit(s) BY DEF Sound
  <2> QED BY <1>4, <1>5, <2>1, <2>2 DEF NeedsFit, Free
<1>9. LoadedFit(t)
  <2>1. LoadedFit(s) BY DEF Sound
  <2>2. \A n \in Models \ {m} : IsMissionOrGameRequired(t, n) <=> IsMissionOrGameRequired(s, n)
    BY <1>g, <1>5 DEF IsMissionOrGameRequired, Gone
  <2> QED BY <1>g, <1>4, <1>5, <2>1, <2>2 DEF LoadedFit, Gone
<1>10. Thinned(s, t)
  <2>1. \A n \in Models : t.LoadState[n] \in {"LOADED", "READING", "FINISHING"} =>
            t.LoadState[n] = u.LoadState[n]
    BY <1>g, <1>4, <1>5 DEF Gone
  <2>2. Thinned(u, t) BY <1>5, <2>1 DEF Thinned, Places, Id
  <2> QED BY <1>g, <2>2, ThinnedTrans DEF Gone
<1>11. SlotsFit(t, half)
  <2>1. \A c \in Channels : \A k \in Places(s, c) :
            /\ Id(t, c, k) = m => <<c, k>> = half
            /\ Id(t, c, k) # Id(s, c, k) => Id(s, c, k) = m /\ <<c, k>> # half
    BY <1>g, <1>5 DEF Id, Gone
  <2>2. SlotsFit(s, half) BY DEF Sound
  <2>3. t.LoadState = [s.LoadState EXCEPT ![m] = "NOT_LOADED"] BY <1>5 DEF a
  <2> QED BY <1>0, <1>10, <2>1, <2>2, <2>3, ThinnedSlots
<1> QED BY <1>5, <1>6, <1>7, <1>8, <1>9, <1>10, <1>11 DEF Sound

\* A model of the list is taken off it, with its priority
LEMMA WithdrawnFits ==
    ASSUME NEW s, NEW m, s \in State, RequestsFit(s), m \in Models, s.LoadState[m] = "REQUESTED"
    PROVE  LET u == Withdrawn(s, m) IN
           /\ u \in State /\ u.LoadState = s.LoadState /\ u.loaded = s.loaded
           /\ u.ms_channel = s.ms_channel /\ u.ms_memoryUsed = s.ms_memoryUsed
           /\ u.ms_bLoadingBigModel = s.ms_bLoadingBigModel
           /\ \A n \in Models \ {m} : u.Flags[n] = s.Flags[n]
           /\ u.Flags[m] = s.Flags[m] \ {"PRIORITY_REQUEST"}
           /\ IsInjective(u.requested) /\ Range(u.requested) = Range(s.requested) \ {m}
           /\ u.ms_numModelsRequested = Len(u.requested)
<1> DEFINE q == RemoveFirst(s.requested, m)
           b == [s.Flags EXCEPT ![m] = s.Flags[m] \ {"PRIORITY_REQUEST"}]
           n == s.ms_numModelsRequested - 1
           v == [s EXCEPT !.requested = q, !.Flags = b, !.ms_numModelsRequested = n]
           k == IF IsPriority(s.Flags[m]) THEN -1 ELSE 0
           u == Withdrawn(s, m)
<1>0. s.requested \in Seq(Models) /\ s.Flags \in [Models -> SUBSET Flags] BY DEF State
<1>1. /\ q \in Seq(Models) /\ Len(q) = Len(s.requested) - 1
      /\ Range(q) = Range(s.requested) \ {m} /\ IsInjective(q)
  BY <1>0, RemovedFromList DEF RequestsFit
<1>2. b \in [Models -> SUBSET Flags] BY <1>0
<1>3. \A x \in Models : b[x] = IF x = m THEN s.Flags[m] \ {"PRIORITY_REQUEST"} ELSE s.Flags[x]
  BY <1>0
<1>4. n \in Int BY DEF State
<1>5. u = Priorities(v, k) BY DEF Withdrawn, State
<1>6. k \in {-1, 0, 1} OBVIOUS
<1>7. n = Len(q) BY <1>1 DEF RequestsFit
<1> HIDE DEF q, b, n, k, u
<1>8. v \in State BY <1>1, <1>2, <1>4 DEF State
<1>9. u \in State /\ u = [v EXCEPT !.ms_numPriorityRequests = u.ms_numPriorityRequests]
  <2> HIDE DEF v
  <2> QED BY <1>5, <1>6, <1>8, PrioritiesType
<1>10. /\ u.LoadState = s.LoadState /\ u.loaded = s.loaded
       /\ u.ms_channel = s.ms_channel /\ u.ms_memoryUsed = s.ms_memoryUsed
       /\ u.ms_bLoadingBigModel = s.ms_bLoadingBigModel
       /\ u.Flags = b /\ u.requested = q /\ u.ms_numModelsRequested = n
  BY <1>9 DEF State
<1> QED BY <1>1, <1>3, <1>7, <1>9, <1>10 DEF u

\* A channel forgets a model it reads
LEMMA ForgottenFits ==
    ASSUME NEW s, NEW m, s \in State, m \in Models
    PROVE  LET u == Forgotten(s, m) IN
           /\ u \in State /\ u.LoadState = s.LoadState /\ u.loaded = s.loaded
           /\ u.ms_memoryUsed = s.ms_memoryUsed /\ u.Flags = s.Flags
           /\ u.requested = s.requested /\ u.ms_numModelsRequested = s.ms_numModelsRequested
           /\ Thinned(s, u)
           /\ \A c \in Channels : \A k \in Places(s, c) :
                  Id(u, c, k) = IF Id(s, c, k) = m THEN MODEL_INVALID ELSE Id(s, c, k)
<1> DEFINE q(c) == [i \in DOMAIN s.ms_channel[c].models |->
                        IF s.ms_channel[c].models[i].id = m
                        THEN [s.ms_channel[c].models[i] EXCEPT !.id = MODEL_INVALID]
                        ELSE s.ms_channel[c].models[i]]
           chs == [c \in Channels |-> [s.ms_channel[c] EXCEPT !.models = q(c)]]
           u == Forgotten(s, m)
<1>1. ASSUME NEW c \in Channels
      PROVE  /\ q(c) \in Seq(Slot) /\ DOMAIN q(c) = DOMAIN s.ms_channel[c].models
             /\ \A k \in DOMAIN s.ms_channel[c].models :
                    /\ q(c)[k].at = s.ms_channel[c].models[k].at
                    /\ q(c)[k].id = IF s.ms_channel[c].models[k].id = m THEN MODEL_INVALID
                                    ELSE s.ms_channel[c].models[k].id
  <2> DEFINE p == s.ms_channel[c].models
  <2>1. Len(p) \in Nat /\ DOMAIN p = 1 .. Len(p) /\ \A k \in DOMAIN p : p[k] \in Slot
    BY SlotTypes DEF Places
  <2> HIDE DEF p
  <2> DEFINE r == [i \in DOMAIN p |-> IF p[i].id = m THEN [p[i] EXCEPT !.id = MODEL_INVALID] ELSE p[i]]
  <2>2. \A k \in DOMAIN p : r[k] \in Slot /\ r[k].at = p[k].at
                            /\ r[k].id = IF p[k].id = m THEN MODEL_INVALID ELSE p[k].id
    BY <2>1 DEF Slot
  <2>3. r \in [1 .. Len(p) -> Slot] BY <2>1, <2>2
  <2>4. r \in Seq(Slot)
    <3> HIDE DEF r
    <3> QED BY <2>1, <2>3
  <2> QED BY <2>1, <2>2, <2>4 DEF p
<1> HIDE DEF q
<1>2. chs \in [Channels -> Channel]
  <2> SUFFICES ASSUME NEW c \in Channels PROVE [s.ms_channel[c] EXCEPT !.models = q(c)] \in Channel
    OBVIOUS
  <2>1. s.ms_channel[c] \in Channel BY DEF State
  <2> QED BY <1>1, <2>1 DEF Channel
<1>3. \A c \in Channels :
           /\ chs[c].LoadStatus = s.ms_channel[c].LoadStatus
           /\ chs[c].pos = s.ms_channel[c].pos
           /\ chs[c].sectorCount = s.ms_channel[c].sectorCount
           /\ chs[c].models = q(c)
  <2> SUFFICES ASSUME NEW c \in Channels
               PROVE  /\ chs[c].LoadStatus = s.ms_channel[c].LoadStatus
                      /\ chs[c].pos = s.ms_channel[c].pos
                      /\ chs[c].sectorCount = s.ms_channel[c].sectorCount
                      /\ chs[c].models = q(c)
    OBVIOUS
  <2>1. s.ms_channel[c] \in Channel BY DEF State
  <2> QED BY <2>1 DEF Channel
<1>4. u = [s EXCEPT !.ms_channel = chs] BY DEF Forgotten, q
<1> HIDE DEF chs, u
<1>5. /\ u \in State /\ u.LoadState = s.LoadState /\ u.loaded = s.loaded
      /\ u.ms_memoryUsed = s.ms_memoryUsed /\ u.Flags = s.Flags
      /\ u.requested = s.requested /\ u.ms_numModelsRequested = s.ms_numModelsRequested
      /\ u.ms_bLoadingBigModel = s.ms_bLoadingBigModel
      /\ u.ms_channel = chs
  BY <1>2, <1>4 DEF State
<1>6. \A c \in Channels : \A k \in Places(s, c) :
          Id(u, c, k) = IF Id(s, c, k) = m THEN MODEL_INVALID ELSE Id(s, c, k)
  BY <1>1, <1>3, <1>5 DEF Places, Id
<1>7. Thinned(s, u)
  <2>1. \A c \in Channels : Places(u, c) = Places(s, c)
    BY <1>1, <1>3, <1>5 DEF Places
  <2>2. \A c \in Channels : \A k \in Places(s, c) :
            u.ms_channel[c].models[k].at = s.ms_channel[c].models[k].at
    BY <1>1, <1>3, <1>5 DEF Places
  <2> QED BY <1>3, <1>5, <1>6, <2>1, <2>2 DEF Thinned
<1> QED BY <1>5, <1>6, <1>7 DEF u

\* RemoveModel without what it takes along
LEMMA RemoveAloneSound ==
    ASSUME NEW s, NEW m, NEW half, Sound(s, half), m \in Models, Free(s, m)
    PROVE  LET t == RemoveAlone(s, m) IN
           /\ Sound(t, half) /\ Thinned(s, t)
           /\ t.LoadState = [s.LoadState EXCEPT ![m] = "NOT_LOADED"]
           /\ s.LoadState[m] # "READING" => t.ms_channel = s.ms_channel
<1> DEFINE u == CASE s.LoadState[m] = "REQUESTED" -> Withdrawn(s, m)
                  [] s.LoadState[m] = "READING"   -> Forgotten(s, m)
                  [] s.LoadState[m] = "LOADED"    -> [s EXCEPT !.ms_memoryUsed = @ - CdSize[m]]
                  [] OTHER                        -> s
           t == NotLoaded(u, m)
<1> SUFFICES /\ Sound(t, half) /\ Thinned(s, t)
             /\ t.LoadState = [s.LoadState EXCEPT ![m] = "NOT_LOADED"]
             /\ s.LoadState[m] # "READING" => t.ms_channel = s.ms_channel
  BY DEF RemoveAlone, NotLoaded
<1>0. s \in State /\ RequestsFit(s) /\ MemoryFits(s) /\ SlotsFit(s, half) /\ s.LoadState[m] \in LoadStates
  BY DEF Sound, State
<1>1. \A c \in Channels : \A k \in Places(s, c) : Id(s, c, k) \in Models \cup {MODEL_INVALID}
  BY <1>0, SlotTypes
<1>2. ASSUME s.LoadState[m] # "READING", NEW c \in Channels, NEW k \in Places(s, c), Id(s, c, k) = m
      PROVE <<c, k>> = half
  BY <1>0, <1>2, ModelAssumption DEF SlotsFit
<1>3. ASSUME s.LoadState[m] # "LOADED" PROVE s.ms_memoryUsed = SizeOf(LoadedModels(s) \ {m})
  <2>1. LoadedModels(s) \ {m} = LoadedModels(s) BY <1>3 DEF LoadedModels
  <2> QED BY <1>0, <2>1 DEF MemoryFits
<1>4. ASSUME s.LoadState[m] # "REQUESTED"
      PROVE  /\ IsInjective(s.requested) /\ Range(s.requested) = Range(s.requested) \ {m}
             /\ s.ms_numModelsRequested = Len(s.requested)
  BY <1>0, <1>4 DEF RequestsFit
<1>5. CASE s.LoadState[m] = "REQUESTED"
  <2>1. u = Withdrawn(s, m) BY <1>5
  <2> HIDE DEF u
  <2>2. /\ u \in State /\ u.LoadState = s.LoadState /\ u.loaded = s.loaded
        /\ u.ms_channel = s.ms_channel /\ u.ms_memoryUsed = s.ms_memoryUsed
        /\ u.ms_bLoadingBigModel = s.ms_bLoadingBigModel
        /\ \A n \in Models \ {m} : u.Flags[n] = s.Flags[n]
        /\ IsInjective(u.requested) /\ Range(u.requested) = Range(s.requested) \ {m}
        /\ u.ms_numModelsRequested = Len(u.requested)
    BY <1>0, <1>5, <2>1, WithdrawnFits
  <2>3. Thinned(s, u) BY <2>2 DEF Thinned, Places, Id
  <2>4. \A c \in Channels : \A k \in Places(s, c) :
            /\ Id(u, c, k) = m => <<c, k>> = half
            /\ Id(u, c, k) # Id(s, c, k) => Id(s, c, k) = m /\ <<c, k>> # half
    BY <1>2, <1>5, <2>2 DEF Id
  <2>5. u.ms_memoryUsed = SizeOf(LoadedModels(s) \ {m}) BY <1>3, <1>5, <2>2
  <2>g. Gone(s, u, half, m) BY <2>2, <2>3, <2>4, <2>5 DEF Gone
  <2> HIDE DEF t
  <2>6. Sound(t, half) /\ Thinned(s, t) /\ t.LoadState = [s.LoadState EXCEPT ![m] = "NOT_LOADED"]
        /\ t.ms_channel = u.ms_channel
    BY <2>g, RemovedSound DEF t
  <2> QED BY <2>2, <2>6
<1>6. CASE s.LoadState[m] = "READING"
  <2>1. u = Forgotten(s, m) BY <1>6
  <2> HIDE DEF u
  <2>2. /\ u \in State /\ u.LoadState = s.LoadState /\ u.loaded = s.loaded
        /\ u.ms_memoryUsed = s.ms_memoryUsed /\ u.Flags = s.Flags
        /\ u.requested = s.requested /\ u.ms_numModelsRequested = s.ms_numModelsRequested
        /\ Thinned(s, u)
        /\ \A c \in Channels : \A k \in Places(s, c) :
               Id(u, c, k) = IF Id(s, c, k) = m THEN MODEL_INVALID ELSE Id(s, c, k)
    BY <1>0, <2>1, ForgottenFits
  <2>3. \A c \in Channels : \A k \in Places(s, c) : Id(s, c, k) = m => <<c, k>> # half
    <3> SUFFICES ASSUME NEW c \in Channels, NEW k \in Places(s, c), Id(s, c, k) = m, <<c, k>> = half
                 PROVE FALSE
      OBVIOUS
    <3>1. half # NoPlace BY <1>0, SlotTypes DEF NoPlace
    <3>2. s.LoadState[Id(s, c, k)] # "READING" BY <1>0, <3>1 DEF SlotsFit
    <3> QED BY <1>6, <3>2
  <2>4. \A c \in Channels : \A k \in Places(s, c) :
            /\ Id(u, c, k) = m => <<c, k>> = half
            /\ Id(u, c, k) # Id(s, c, k) => Id(s, c, k) = m /\ <<c, k>> # half
    BY <2>2, <2>3, ModelAssumption
  <2>5. u.ms_memoryUsed = SizeOf(LoadedModels(s) \ {m}) BY <1>3, <1>6, <2>2
  <2>g. Gone(s, u, half, m) BY <1>4, <1>6, <2>2, <2>4, <2>5 DEF Gone
  <2> HIDE DEF t
  <2>6. Sound(t, half) /\ Thinned(s, t) /\ t.LoadState = [s.LoadState EXCEPT ![m] = "NOT_LOADED"]
    BY <2>g, RemovedSound DEF t
  <2> QED BY <1>6, <2>6
<1>7. CASE s.LoadState[m] \notin {"REQUESTED", "READING"}
  <2> DEFINE n == IF s.LoadState[m] = "LOADED" THEN s.ms_memoryUsed - CdSize[m] ELSE s.ms_memoryUsed
  <2>0. s.ms_memoryUsed \in Int /\ CdSize[m] \in Nat BY <1>0, DiscAssumption DEF State
  <2>1. u = [s EXCEPT !.ms_memoryUsed = n] BY <1>7, <1>0 DEF State, LoadStates
  <2>2. n \in Int /\ n = SizeOf(LoadedModels(s) \ {m})
    <3>1. CASE s.LoadState[m] = "LOADED"
      <4>1. m \in LoadedModels(s) /\ LoadedModels(s) \in SUBSET Models BY <3>1 DEF LoadedModels
      <4>2. SizeOf(LoadedModels(s) \ {m}) = SizeOf(LoadedModels(s)) - CdSize[m] BY <4>1, SizeWithout
      <4> QED BY <1>0, <2>0, <3>1, <4>2 DEF MemoryFits
    <3>2. CASE s.LoadState[m] # "LOADED" BY <1>3, <2>0, <3>2
    <3> QED BY <3>1, <3>2
  <2> HIDE DEF u, n
  <2>3. /\ u \in State /\ u.LoadState = s.LoadState /\ u.loaded = s.loaded
        /\ u.ms_channel = s.ms_channel /\ u.ms_memoryUsed = n
        /\ u.ms_bLoadingBigModel = s.ms_bLoadingBigModel /\ u.Flags = s.Flags
        /\ u.requested = s.requested /\ u.ms_numModelsRequested = s.ms_numModelsRequested
    BY <1>0, <2>1, <2>2 DEF State
  <2>4. Thinned(s, u) BY <2>3 DEF Thinned, Places, Id
  <2>5. \A c \in Channels : \A k \in Places(s, c) :
            /\ Id(u, c, k) = m => <<c, k>> = half
            /\ Id(u, c, k) # Id(s, c, k) => Id(s, c, k) = m /\ <<c, k>> # half
    BY <1>2, <1>7, <2>3 DEF Id
  <2>g. Gone(s, u, half, m) BY <1>4, <1>7, <2>2, <2>3, <2>4, <2>5 DEF Gone
  <2> HIDE DEF t
  <2>6. Sound(t, half) /\ Thinned(s, t) /\ t.LoadState = [s.LoadState EXCEPT ![m] = "NOT_LOADED"]
        /\ t.ms_channel = u.ms_channel
    BY <2>g, RemovedSound DEF t
  <2> QED BY <2>3, <2>6
<1> QED BY <1>5, <1>6, <1>7

\* Nothing that is loaded needs what is not
LEMMA FreeUnlessLoaded ==
    ASSUME NEW s, NEW m, NEW half, Sound(s, half), m \in Models, s.LoadState[m] # "LOADED"
    PROVE  Free(s, m)
  BY DEF Sound, NeedsFit, Free

\* RemoveModel, with the dictionary that the last object takes along
LEMMA RemoveModelSound ==
    ASSUME NEW s, NEW m, NEW half, Sound(s, half), m \in Models, Free(s, m)
    PROVE  LET t == RemoveModel(s, m) IN
           /\ Sound(t, half) /\ Thinned(s, t) /\ t.LoadState[m] = "NOT_LOADED"
           /\ \A n \in Models \ {m} :
                  \/ t.LoadState[n] = s.LoadState[n]
                  \/ s.LoadState[n] = "LOADED" /\ t.LoadState[n] = "NOT_LOADED"
           /\ s.LoadState[m] # "READING" => t.ms_channel = s.ms_channel
<1> DEFINE u == RemoveAlone(s, m)
           x == Txd[m]
           t == RemoveModel(s, m)
<1> SUFFICES /\ Sound(t, half) /\ Thinned(s, t) /\ t.LoadState[m] = "NOT_LOADED"
             /\ \A n \in Models \ {m} :
                    \/ t.LoadState[n] = s.LoadState[n]
                    \/ s.LoadState[n] = "LOADED" /\ t.LoadState[n] = "NOT_LOADED"
             /\ s.LoadState[m] # "READING" => t.ms_channel = s.ms_channel
  OBVIOUS
<1>0. s.LoadState \in [Models -> LoadStates] BY DEF Sound, State
<1>1. t = IF m \in DFFs /\ s.LoadState[m] = "LOADED" /\ ~TxdIsReferenced(u, x)
          THEN RemoveAlone(u, x) ELSE u
  BY DEF RemoveModel
<1>2. /\ Sound(u, half) /\ Thinned(s, u)
      /\ u.LoadState = [s.LoadState EXCEPT ![m] = "NOT_LOADED"]
      /\ s.LoadState[m] # "READING" => u.ms_channel = s.ms_channel
  BY RemoveAloneSound
<1> HIDE DEF t, u
<1>3. \A n \in Models : u.LoadState[n] = IF n = m THEN "NOT_LOADED" ELSE s.LoadState[n]
  BY <1>0, <1>2
<1>4. CASE m \in DFFs /\ s.LoadState[m] = "LOADED" /\ ~TxdIsReferenced(u, x)
  <2>1. t = RemoveAlone(u, x) BY <1>1, <1>4
  <2>2. /\ x \in Models /\ x \in Txds /\ x \in Needs(m) /\ m \notin Needs(m)
    BY <1>4, NeedsAreModels
  <2>3. s.LoadState[x] = "LOADED" BY <1>4, <2>2 DEF Sound, NeedsFit
  <2>4. u.LoadState[x] = "LOADED" BY <1>3, <2>2, <2>3
  <2>5. ASSUME NEW d \in DFFs, x \in Needs(d) PROVE u.LoadState[d] # "LOADED"
    <3>1. Txds \cap Ifps = {} BY DEF Txds, Ifps
    <3>2. x = Txd[d] BY <2>2, <2>5, <3>1, NeedsAreModels
    <3> QED BY <1>4, <3>2 DEF TxdIsReferenced
  <2>6. Free(u, x) BY <2>5 DEF Free
  <2> HIDE DEF x
  <2>7. /\ Sound(t, half) /\ Thinned(u, t)
        /\ t.LoadState = [u.LoadState EXCEPT ![x] = "NOT_LOADED"]
        /\ t.ms_channel = u.ms_channel
    BY <1>2, <2>1, <2>2, <2>4, <2>6, RemoveAloneSound
  <2>8. Thinned(s, t) BY <1>2, <2>7, ThinnedTrans
  <2>9. \A n \in Models : t.LoadState[n] = IF n = x THEN "NOT_LOADED" ELSE u.LoadState[n]
    <3>1. u.LoadState \in [Models -> LoadStates] BY <1>2 DEF Sound, State
    <3> QED BY <2>7, <3>1
  <2> QED BY <1>2, <1>3, <2>3, <2>7, <2>8, <2>9
<1>5. CASE ~(m \in DFFs /\ s.LoadState[m] = "LOADED" /\ ~TxdIsReferenced(u, x))
  <2>1. t = u BY <1>1, <1>5
  <2> QED BY <1>2, <1>3, <2>1
<1> QED BY <1>4, <1>5

\* What was asked for once more is not loaded, nor being read
LEMMA RequestAgainSound ==
    ASSUME NEW s, NEW m, NEW half, Sound(s, half), m \in Models, Free(s, m)
    PROVE  LET t == RequestAgain(s, m) IN
           /\ Sound(t, half) /\ Thinned(s, t) /\ t.LoadState[m] \in {"NOT_LOADED", "REQUESTED"}
           /\ s.LoadState[m] # "READING" => t.ms_channel = s.ms_channel
<1> DEFINE u == RemoveModel(s, m)
           t == RequestAgain(s, m)
<1> SUFFICES /\ Sound(t, half) /\ Thinned(s, t) /\ t.LoadState[m] \in {"NOT_LOADED", "REQUESTED"}
             /\ s.LoadState[m] # "READING" => t.ms_channel = s.ms_channel
  OBVIOUS
<1>1. t = RequestModel(u, m, s.Flags[m]) BY DEF RequestAgain
<1>2. s.Flags[m] \in SUBSET Flags BY DEF Sound, State
<1>3. /\ Sound(u, half) /\ Thinned(s, u) /\ u.LoadState[m] = "NOT_LOADED"
      /\ s.LoadState[m] # "READING" => u.ms_channel = s.ms_channel
  BY RemoveModelSound
<1> HIDE DEF t, u
<1>4. Sound(t, half) /\ Asked(u, t) BY <1>1, <1>2, <1>3, RequestModelSound
<1>5. Thinned(s, t) BY <1>3, <1>4, AskedThinned, ThinnedTrans
<1> QED BY <1>3, <1>4, <1>5 DEF Asked

\* A model may have fewer flags if its place on the loaded list allows it
LEMMA FewerFlagsSound ==
    ASSUME NEW s, NEW t, NEW m, NEW half, Sound(s, half), m \in Models,
           t = [s EXCEPT !.Flags[m] = @ \ {"MISSION_REQUIRED"}]
    PROVE  /\ t \in State /\ Thinned(s, t)
           /\ t.LoadState = s.LoadState /\ t.loaded = s.loaded
           /\ t.requested = s.requested /\ t.ms_numModelsRequested = s.ms_numModelsRequested
           /\ t.ms_channel = s.ms_channel /\ t.ms_memoryUsed = s.ms_memoryUsed
           /\ t.ms_bLoadingBigModel = s.ms_bLoadingBigModel
           /\ \A n \in Models : t.Flags[n] = IF n = m THEN s.Flags[m] \ {"MISSION_REQUIRED"}
                                             ELSE s.Flags[n]
           /\ LoadedFit(t) => Sound(t, half)
<1> DEFINE b == [s.Flags EXCEPT ![m] = s.Flags[m] \ {"MISSION_REQUIRED"}]
<1>0. s \in State /\ s.Flags \in [Models -> SUBSET Flags] BY DEF Sound, State
<1>1. b \in [Models -> SUBSET Flags] BY <1>0
<1>2. \A n \in Models : b[n] = IF n = m THEN s.Flags[m] \ {"MISSION_REQUIRED"} ELSE s.Flags[n]
  BY <1>0
<1>3. t = [s EXCEPT !.Flags = b] BY <1>0 DEF State
<1> HIDE DEF b
<1>4. /\ t \in State /\ t.LoadState = s.LoadState /\ t.requested = s.requested
      /\ t.ms_numModelsRequested = s.ms_numModelsRequested
      /\ t.ms_channel = s.ms_channel /\ t.ms_memoryUsed = s.ms_memoryUsed
      /\ t.ms_bLoadingBigModel = s.ms_bLoadingBigModel
      /\ t.loaded = s.loaded /\ t.Flags = b
  BY <1>0, <1>1, <1>3 DEF State
<1>5. Thinned(s, t) BY <1>4 DEF Thinned, Places, Id
<1>6. LoadedFit(t) => Sound(t, half) BY <1>4, SameStatesSound
<1> QED BY <1>2, <1>4, <1>5, <1>6

\* A mission that gives a model up
LEMMA SetModelIsDeletableSound ==
    ASSUME NEW s, NEW m, NEW half, Sound(s, half), m \in Models
    PROVE  LET t == SetModelIsDeletable(s, m) IN Sound(t, half) /\ Thinned(s, t)
<1> DEFINE u == [s EXCEPT !.Flags[m] = @ \ {"MISSION_REQUIRED"}]
           t == SetModelIsDeletable(s, m)
<1> SUFFICES Sound(t, half) /\ Thinned(s, t) OBVIOUS
<1>1. t = IF "GAME_REQUIRED" \in u.Flags[m] THEN u
          ELSE IF s.LoadState[m] = "LOADED" THEN [u EXCEPT !.loaded = @ \cup {m}]
          ELSE IF "KEEP_IN_MEMORY" \in u.Flags[m] THEN u
          ELSE RemoveModel(u, m)
  BY DEF SetModelIsDeletable
<1>2. /\ u \in State /\ Thinned(s, u)
      /\ u.LoadState = s.LoadState /\ u.loaded = s.loaded
      /\ u.requested = s.requested /\ u.ms_numModelsRequested = s.ms_numModelsRequested
      /\ u.ms_channel = s.ms_channel /\ u.ms_memoryUsed = s.ms_memoryUsed
      /\ u.ms_bLoadingBigModel = s.ms_bLoadingBigModel
      /\ \A n \in Models : u.Flags[n] = IF n = m THEN s.Flags[m] \ {"MISSION_REQUIRED"} ELSE s.Flags[n]
      /\ LoadedFit(u) => Sound(u, half)
  BY FewerFlagsSound
<1> HIDE DEF t, u
<1>3. LoadedFit(s) /\ s \in State BY DEF Sound
<1>4. \A n \in Models : /\ n # m => (IsMissionOrGameRequired(u, n) <=> IsMissionOrGameRequired(s, n))
                        /\ "GAME_REQUIRED" \in u.Flags[n] => IsMissionOrGameRequired(u, n)
  BY <1>2 DEF IsMissionOrGameRequired
<1>5. CASE "GAME_REQUIRED" \in u.Flags[m]
  <2>1. LoadedFit(u) BY <1>2, <1>3, <1>4, <1>5 DEF LoadedFit
  <2> QED BY <1>1, <1>2, <1>5, <2>1
<1>6. CASE "GAME_REQUIRED" \notin u.Flags[m] /\ s.LoadState[m] = "LOADED"
  <2> DEFINE l == u.loaded \cup {m}
  <2>1. t = [u EXCEPT !.loaded = l] BY <1>1, <1>2, <1>6 DEF State
  <2>2. l \in SUBSET Models BY <1>2, <1>3 DEF State
  <2> HIDE DEF l
  <2>3. /\ t \in State /\ t.LoadState = u.LoadState /\ t.requested = u.requested
        /\ t.ms_numModelsRequested = u.ms_numModelsRequested
        /\ t.ms_channel = u.ms_channel /\ t.ms_memoryUsed = u.ms_memoryUsed
        /\ t.ms_bLoadingBigModel = u.ms_bLoadingBigModel
        /\ t.loaded = l /\ t.Flags = u.Flags
    BY <1>2, <2>1, <2>2 DEF State
  <2>4. \A n \in Models : n # m => (IsMissionOrGameRequired(t, n) <=> IsMissionOrGameRequired(s, n))
    BY <1>4, <2>3 DEF IsMissionOrGameRequired
  <2>5. LoadedFit(t) BY <1>2, <1>3, <1>6, <2>3, <2>4 DEF LoadedFit, l
  <2>6. Sound(t, half) BY <1>2, <2>3, <2>5, SameStatesSound
  <2>7. Thinned(s, t) BY <1>2, <2>3 DEF Thinned, Places, Id
  <2> QED BY <2>6, <2>7
<1>7. CASE /\ "GAME_REQUIRED" \notin u.Flags[m] /\ s.LoadState[m] # "LOADED"
           /\ "KEEP_IN_MEMORY" \in u.Flags[m]
  <2>1. LoadedFit(u) BY <1>2, <1>3, <1>4, <1>7 DEF LoadedFit
  <2> QED BY <1>1, <1>2, <1>7, <2>1
<1>8. CASE /\ "GAME_REQUIRED" \notin u.Flags[m] /\ s.LoadState[m] # "LOADED"
           /\ "KEEP_IN_MEMORY" \notin u.Flags[m]
  <2>1. t = RemoveModel(u, m) BY <1>1, <1>8
  <2>2. Free(s, m) BY <1>8, FreeUnlessLoaded
  <2>3. CASE s.LoadState[m] = "FINISHING"
    <3>1. t = RemoveAlone(u, m) BY <1>2, <2>1, <2>3 DEF RemoveModel
    <3>2. RemoveAlone(u, m) = NotLoaded(u, m) BY <1>2, <2>3 DEF RemoveAlone, NotLoaded
    <3>3. Gone(s, u, half, m)
      <4>1. RequestsFit(s) /\ MemoryFits(s) /\ SlotsFit(s, half) BY DEF Sound
      <4>2. LoadedModels(s) \ {m} = LoadedModels(s) BY <1>8 DEF LoadedModels
      <4>3. s.ms_memoryUsed = SizeOf(LoadedModels(s) \ {m}) BY <4>1, <4>2 DEF MemoryFits
      <4>4. m \notin Range(s.requested) BY <2>3, <4>1 DEF RequestsFit
      <4>5. IsInjective(s.requested) /\ Range(s.requested) = Range(s.requested) \ {m}
            /\ s.ms_numModelsRequested = Len(s.requested)
        BY <4>1, <4>4 DEF RequestsFit
      <4>6. ASSUME NEW c \in Channels, NEW k \in Places(s, c), Id(s, c, k) = m
            PROVE <<c, k>> = half
        BY <2>3, <4>1, <4>6, ModelAssumption DEF SlotsFit
      <4>7. \A c \in Channels : \A k \in Places(s, c) : Id(u, c, k) = Id(s, c, k)
        BY <1>2 DEF Id
      <4>8. \A n \in Models \ {m} : u.Flags[n] = s.Flags[n] BY <1>2
      <4>9. \A c \in Channels : \A k \in Places(s, c) :
                /\ Id(u, c, k) = m => <<c, k>> = half
                /\ Id(u, c, k) # Id(s, c, k) => Id(s, c, k) = m /\ <<c, k>> # half
        BY <4>6, <4>7
      <4>10. IsInjective(u.requested) /\ Range(u.requested) = Range(s.requested) \ {m}
            /\ u.ms_numModelsRequested = Len(u.requested)
        BY <1>2, <4>5
      <4>11. u.ms_memoryUsed = SizeOf(LoadedModels(s) \ {m}) BY <1>2, <4>3
      <4>12. /\ u \in State /\ u.LoadState = s.LoadState /\ u.loaded = s.loaded
             /\ Thinned(s, u)
        BY <1>2
      <4> QED BY <4>8, <4>9, <4>10, <4>11, <4>12 DEF Gone
    <3>4. Sound(NotLoaded(u, m), half) /\ Thinned(s, NotLoaded(u, m)) BY <2>2, <3>3, RemovedSound
    <3> QED BY <3>1, <3>2, <3>4
  <2>4. CASE s.LoadState[m] # "FINISHING"
    <3>1. LoadedFit(u) BY <1>2, <1>3, <1>4, <1>8, <2>4 DEF LoadedFit
    <3>2. Sound(u, half) BY <1>2, <3>1
    <3>3. Free(u, m) BY <1>2, <2>2 DEF Free
    <3>4. Sound(t, half) /\ Thinned(u, t) BY <2>1, <3>2, <3>3, RemoveModelSound
    <3> QED BY <1>2, <3>4, ThinnedTrans
  <2> QED BY <2>3, <2>4
<1> QED BY <1>5, <1>6, <1>7, <1>8

\* and its textures with it
LEMMA SetMissionDoesntRequireModelSound ==
    ASSUME NEW s, NEW m, NEW half, Sound(s, half), m \in Models
    PROVE  LET t == SetMissionDoesntRequireModel(s, m) IN Sound(t, half) /\ Thinned(s, t)
<1> DEFINE u == SetModelIsDeletable(s, m)
           t == SetMissionDoesntRequireModel(s, m)
<1> SUFFICES Sound(t, half) /\ Thinned(s, t) OBVIOUS
<1>1. t = IF m \in DFFs THEN SetModelIsDeletable(u, Txd[m]) ELSE u
  BY DEF SetMissionDoesntRequireModel
<1>2. Sound(u, half) /\ Thinned(s, u) BY SetModelIsDeletableSound
<1> HIDE DEF t, u
<1>3. CASE m \in DFFs
  <2>1. t = SetModelIsDeletable(u, Txd[m]) /\ Txd[m] \in Models BY <1>1, <1>3, NeedsAreModels
  <2>2. Sound(t, half) /\ Thinned(u, t) BY <1>2, <2>1, SetModelIsDeletableSound
  <2> QED BY <1>2, <2>2, ThinnedTrans
<1>4. CASE m \notin DFFs BY <1>1, <1>2, <1>4
<1> QED BY <1>3, <1>4

\* One request after another is withdrawn
LEMMA RemoveRequestsSound ==
    ASSUME NEW s, NEW models, NEW half, Sound(s, half)
    PROVE  LET t == RemoveRequests(s, models) IN Sound(t, half) /\ Thinned(s, t)
<1> DEFINE n == Len(s.requested)
           f == RemovedUpTo(s, models)
           P == {i \in Nat : i <= n => Sound(f[i], half) /\ Thinned(s, f[i])}
<1>0. s.requested \in Seq(Models) /\ n \in Nat BY DEF Sound, State
<1>1. \A i \in 0 .. n : f[i] = IF i = 0 THEN s
                               ELSE IF s.requested[i] \in models
                                    THEN RemoveModel(f[i - 1], s.requested[i]) ELSE f[i - 1]
  BY <1>0, RemovedUpToDef
<1> HIDE DEF f
<1>2. 0 \in P BY <1>0, <1>1, ThinnedRefl
<1>3. ASSUME NEW i \in Nat, i \in P PROVE i + 1 \in P
  <2> SUFFICES ASSUME i + 1 <= n PROVE Sound(f[i + 1], half) /\ Thinned(s, f[i + 1]) OBVIOUS
  <2> DEFINE m == s.requested[i + 1]
             u == f[i]
             t == f[i + 1]
  <2>1. i + 1 \in 0 .. n /\ i + 1 # 0 /\ (i + 1) - 1 = i /\ i <= n BY <1>0
  <2>2. Sound(u, half) /\ Thinned(s, u) BY <1>3, <2>1
  <2>3. t = IF m \in models THEN RemoveModel(u, m) ELSE u BY <1>1, <2>1
  <2>4. m \in Models /\ m \in Range(s.requested)
    <3>1. i + 1 \in DOMAIN s.requested BY <1>0, <2>1
    <3> QED BY <1>0, <3>1 DEF Range
  <2>5. s.LoadState[m] = "REQUESTED" BY <2>4 DEF Sound, RequestsFit
  <2>6. u.LoadState[m] # "LOADED" BY <2>2, <2>4, <2>5 DEF Thinned
  <2> HIDE DEF m, u, t
  <2>7. Free(u, m) BY <2>2, <2>4, <2>6, FreeUnlessLoaded
  <2>8. CASE m \in models
    <3>1. t = RemoveModel(u, m) BY <2>3, <2>8
    <3>2. Sound(t, half) /\ Thinned(u, t) BY <2>2, <2>4, <2>7, <3>1, RemoveModelSound
    <3>3. Thinned(s, t) BY <2>2, <3>2, ThinnedTrans
    <3> QED BY <3>2, <3>3 DEF t
  <2>9. CASE m \notin models
    <3>1. t = u BY <2>3, <2>9
    <3> QED BY <2>2, <3>1 DEF t
  <2> QED BY <2>8, <2>9
<1>4. n \in P
  <2> HIDE DEF P
  <2> QED BY <1>0, <1>2, <1>3, NatInductionOnSets
<1>5. RemoveRequests(s, models) = f[n] BY DEF RemoveRequests, f
<1> QED BY <1>0, <1>4, <1>5

-----------------------------------------------------------------------------
(* What to read next                                                       *)

\* There is a first model on the disc among any
LEMMA FirstOnCdIn ==
    ASSUME NEW models, models \in SUBSET Models, models # {}
    PROVE  FirstOnCd(models) \in models
<1> DEFINE S == {CdOffset[m] : m \in models}
<1>1. S \subseteq Nat /\ S # {} BY DiscAssumption
<1>2. PICK x \in S : \A y \in S : ~(<<y, x>> \in OpToRel(<, Nat))
  BY <1>1, NatLessThanWellFounded, WFMin
<1>3. \A y \in S : ~(y < x) BY <1>1, <1>2 DEF OpToRel
<1>4. PICK m \in models : CdOffset[m] = x BY <1>2
<1>5. \A n \in models : CdOffset[n] \in Nat /\ CdOffset[m] \in Nat BY DiscAssumption
<1>6. \A n \in models : CdOffset[m] <= CdOffset[n] BY <1>3, <1>4, <1>5
<1> QED BY <1>6 DEF FirstOnCd

\* The count of priority requests may be reset
LEMMA NoPrioritiesSound ==
    ASSUME NEW s, NEW half, Sound(s, half)
    PROVE  LET t == [s EXCEPT !.ms_numPriorityRequests = 0] IN
           Sound(t, half) /\ Asked(s, t)
<1> DEFINE t == [s EXCEPT !.ms_numPriorityRequests = 0]
<1>0. s \in State BY DEF Sound
<1>1. 0 \in 0 .. UINT32 - 1 BY BoundAssumption
<1>2. /\ t \in State
      /\ t.LoadState = s.LoadState /\ t.requested = s.requested
      /\ t.ms_numModelsRequested = s.ms_numModelsRequested
      /\ t.ms_channel = s.ms_channel /\ t.ms_memoryUsed = s.ms_memoryUsed
      /\ t.ms_bLoadingBigModel = s.ms_bLoadingBigModel
      /\ t.loaded = s.loaded /\ t.Flags = s.Flags
  BY <1>0, <1>1 DEF State
<1> HIDE DEF t
<1>3. LoadedFit(t) BY <1>2 DEF Sound, LoadedFit, IsMissionOrGameRequired
<1>4. Sound(t, half) BY <1>2, <1>3, SameStatesSound
<1>5. Asked(s, t) BY <1>2 DEF Asked
<1> QED BY <1>4, <1>5 DEF t

\* What a walk along the list has come to
Walk(s, half, w) ==
    /\ w \in [s : State, eligible : SUBSET Models]
    /\ Sound(w.s, half) /\ Asked(s, w.s)
    /\ \A m \in w.eligible : w.s.LoadState[m] = "REQUESTED"

\* One model of the list
LEMMA VisitSound ==
    ASSUME NEW s, NEW half, NEW w, NEW m, NEW ifpsMayLoad, Walk(s, half, w), m \in Models,
           s.LoadState[m] = "REQUESTED"
    PROVE  Walk(s, half, Visit(w, m, ifpsMayLoad))
<1> DEFINE u == w.s
           flags == u.Flags[m]
           lacking(n) == n # MODEL_INVALID /\ ~IsLoadedOrBeingRead(u, n)
           r == Visit(w, m, ifpsMayLoad)
<1>0. /\ w \in [s : State, eligible : SUBSET Models] /\ w = [s |-> u, eligible |-> w.eligible]
      /\ Sound(u, half) /\ Asked(s, u) /\ u \in State /\ flags \in SUBSET Flags
  BY DEF Walk, State
<1>1. r = IF u.ms_numPriorityRequests # 0 /\ ~IsPriority(flags) THEN w
          ELSE IF m \in DFFs /\ lacking(Txd[m])
               THEN [w EXCEPT !.s = RequestModel(u, Txd[m], flags)]
          ELSE IF m \in DFFs /\ lacking(Anim[m])
               THEN [w EXCEPT !.s = RequestAnim(u, m)]
          ELSE IF m \in Ifps /\ ~ifpsMayLoad THEN w
          ELSE [w EXCEPT !.eligible = @ \cup {m}]
  BY DEF Visit
<1>2. u.LoadState[m] = "REQUESTED" BY <1>0 DEF Asked
<1> HIDE DEF r
<1>3. ASSUME NEW t, Sound(t, half), Asked(u, t)
      PROVE  Walk(s, half, [w EXCEPT !.s = t])
  <2> DEFINE x == [w EXCEPT !.s = t]
  <2>1. x.s = t /\ x.eligible = w.eligible /\ x \in [s : State, eligible : SUBSET Models]
    BY <1>0, <1>3 DEF Sound
  <2>2. Asked(s, t) BY <1>0, <1>3, AskedTrans
  <2>3. \A n \in w.eligible : n \in Models /\ u.LoadState[n] = "REQUESTED" BY <1>0 DEF Walk
  <2>4. \A n \in w.eligible : t.LoadState[n] = "REQUESTED" BY <1>3, <2>3 DEF Asked
  <2> HIDE DEF x
  <2>5. Walk(s, half, x) BY <1>3, <2>1, <2>2, <2>4 DEF Walk
  <2> QED BY <2>5 DEF x
<1>4. Walk(s, half, [w EXCEPT !.eligible = @ \cup {m}])
  <2> DEFINE e == w.eligible \cup {m}
             x == [w EXCEPT !.eligible = e]
  <2>1. x.s = u /\ x.eligible = e /\ x \in [s : State, eligible : SUBSET Models]
    BY <1>0
  <2>2. \A n \in e : u.LoadState[n] = "REQUESTED" BY <1>2 DEF Walk
  <2>3. [w EXCEPT !.eligible = @ \cup {m}] = x BY <1>0
  <2> HIDE DEF x, e
  <2>4. Walk(s, half, x) BY <1>0, <2>1, <2>2 DEF Walk
  <2> QED BY <2>3, <2>4
<1> DEFINE ask == m \in DFFs /\ lacking(Txd[m])
           anim == m \in DFFs /\ lacking(Anim[m])
<1>5. ASSUME ask PROVE Walk(s, half, [w EXCEPT !.s = RequestModel(u, Txd[m], flags)])
  <2>1. Txd[m] \in Models BY <1>5, NeedsAreModels
  <2>2. Sound(RequestModel(u, Txd[m], flags), half) /\ Asked(u, RequestModel(u, Txd[m], flags))
    BY <1>0, <2>1, RequestModelSound
  <2> QED BY <1>3, <2>2
<1>6. ASSUME anim PROVE Walk(s, half, [w EXCEPT !.s = RequestAnim(u, m)])
  <2>1. Sound(RequestAnim(u, m), half) /\ Asked(u, RequestAnim(u, m))
    BY <1>0, <1>6, RequestAnimSound
  <2> QED BY <1>3, <2>1
<1>7. r = w \/ (ask /\ r = [w EXCEPT !.s = RequestModel(u, Txd[m], flags)])
      \/ (anim /\ r = [w EXCEPT !.s = RequestAnim(u, m)])
      \/ r = [w EXCEPT !.eligible = @ \cup {m}]
  BY <1>1
<1> HIDE DEF ask, anim, u, flags
<1> QED BY <1>4, <1>5, <1>6, <1>7 DEF r

\* The whole list
LEMMA WalkSound ==
    ASSUME NEW s, NEW half, NEW ifpsMayLoad, Sound(s, half)
    PROVE  Walk(s, half, VisitedUpTo(s, ifpsMayLoad)[Len(s.requested)])
<1> DEFINE n == Len(s.requested)
           f == VisitedUpTo(s, ifpsMayLoad)
           P == {i \in Nat : i <= n => Walk(s, half, f[i])}
<1>0. s.requested \in Seq(Models) /\ n \in Nat BY DEF Sound, State
<1>1. \A i \in 0 .. n : f[i] = IF i = 0 THEN [s |-> s, eligible |-> {}]
                               ELSE Visit(f[i - 1], s.requested[i], ifpsMayLoad)
  <2> DEFINE F(i) == IF i = 0 THEN [s |-> s, eligible |-> {}]
                     ELSE Visit(f[i - 1], s.requested[i], ifpsMayLoad)
  <2>1. f = [i \in 0 .. n |-> F(i)] BY <1>0, VisitedUpToDef
  <2> HIDE DEF f
  <2>2. \A i \in 0 .. n : f[i] = F(i)
    <3> HIDE DEF F
    <3> QED BY <2>1
  <2> QED BY <2>2
<1> HIDE DEF f
<1>2. 0 \in P
  <2>0. 0 \in 0 .. n BY <1>0
  <2>1. f[0] = [s |-> s, eligible |-> {}] BY <1>1, <2>0
  <2>2. s \in State BY DEF Sound
  <2>3. Walk(s, half, f[0]) BY <2>1, <2>2, AskedRefl DEF Walk
  <2> QED BY <2>3
<1>3. ASSUME NEW i \in Nat, i \in P PROVE i + 1 \in P
  <2> SUFFICES ASSUME i + 1 <= n PROVE Walk(s, half, f[i + 1]) OBVIOUS
  <2> DEFINE m == s.requested[i + 1]
  <2>1. i + 1 \in 0 .. n /\ i + 1 # 0 /\ (i + 1) - 1 = i /\ i <= n BY <1>0
  <2>2. Walk(s, half, f[i]) BY <1>3, <2>1
  <2>3. f[i + 1] = Visit(f[i], m, ifpsMayLoad) BY <1>1, <2>1
  <2>4. m \in Models /\ m \in Range(s.requested)
    <3>1. i + 1 \in DOMAIN s.requested BY <1>0, <2>1
    <3> QED BY <1>0, <3>1 DEF Range
  <2>5. s.LoadState[m] = "REQUESTED" BY <2>4 DEF Sound, RequestsFit
  <2> HIDE DEF m
  <2> QED BY <2>2, <2>3, <2>4, <2>5, VisitSound
<1>4. n \in P
  <2> HIDE DEF P
  <2> QED BY <1>0, <1>2, <1>3, NatInductionOnSets
<1> QED BY <1>0, <1>4 DEF f

\* What was found to read, and the state in which it was
Found(s, half, x) ==
    /\ x \in [s : State, id : Models \cup {MODEL_INVALID}]
    /\ Sound(x.s, half) /\ Thinned(s, x.s)
    /\ x.id # MODEL_INVALID => x.s.LoadState[x.id] = "REQUESTED"

\* GetNextFileOnCd returns a requested model, or none
LEMMA GetNextFileOnCdSound ==
    ASSUME NEW s, NEW half, NEW posn, NEW ifpsMayLoad, Sound(s, half)
    PROVE  Found(s, half, GetNextFileOnCd(s, posn, ifpsMayLoad))
<1> DEFINE walk  == VisitedUpTo(s, ifpsMayLoad)[Len(s.requested)]
           ahead == {m \in walk.eligible : CdOffset[m] >= posn}
           from  == IF ahead = {} THEN walk.eligible ELSE ahead
           x == GetNextFileOnCd(s, posn, ifpsMayLoad)
<1>1. Walk(s, half, walk) BY WalkSound
<1>2. x = IF walk.eligible = {}
          THEN [s |-> [walk.s EXCEPT !.ms_numPriorityRequests = 0], id |-> MODEL_INVALID]
          ELSE [s |-> walk.s, id |-> FirstOnCd(from)]
  BY DEF GetNextFileOnCd, NextOf
<1> HIDE DEF walk, x
<1>3. /\ walk.s \in State /\ walk.eligible \in SUBSET Models
      /\ Sound(walk.s, half) /\ Asked(s, walk.s)
      /\ \A m \in walk.eligible : walk.s.LoadState[m] = "REQUESTED"
  BY <1>1 DEF Walk
<1>4. CASE walk.eligible = {}
  <2> DEFINE t == [walk.s EXCEPT !.ms_numPriorityRequests = 0]
  <2>1. Sound(t, half) /\ Asked(walk.s, t) BY <1>3, NoPrioritiesSound
  <2>2. x = [s |-> t, id |-> MODEL_INVALID] BY <1>2, <1>4
  <2> HIDE DEF t
  <2>3. Asked(s, t) BY <1>3, <2>1, AskedTrans
  <2>4. Thinned(s, t) BY <2>3, AskedThinned
  <2>5. t \in State BY <2>1 DEF Sound
  <2>6. Found(s, half, x) BY <2>1, <2>2, <2>4, <2>5 DEF Found
  <2> QED BY <2>6 DEF x
<1>5. CASE walk.eligible # {}
  <2>1. from # {} /\ from \in SUBSET walk.eligible BY <1>5
  <2> HIDE DEF from
  <2>2. FirstOnCd(from) \in from BY <1>3, <2>1, FirstOnCdIn
  <2>3. x = [s |-> walk.s, id |-> FirstOnCd(from)] BY <1>2, <1>5
  <2>4. Thinned(s, walk.s) BY <1>3, AskedThinned
  <2>5. Found(s, half, x) BY <1>3, <2>1, <2>2, <2>3, <2>4 DEF Found
  <2> QED BY <2>5 DEF x
<1> QED BY <1>4, <1>5

\* The same, with the channel's position at the end of the model before
LEMMA FollowingSound ==
    ASSUME NEW s, NEW half, NEW x, NEW ifpsMayLoad, Found(s, half, x)
    PROVE  Found(s, half, Following(x, ifpsMayLoad))
<1> DEFINE u == RemoveModel(x.s, x.id)
           y == Following(x, ifpsMayLoad)
           posn == CdOffset[x.id] + CdSize[x.id]
<1>1. y = IF x.id = MODEL_INVALID \/ ~IsUnused(x.s, x.id) THEN x
          ELSE GetNextFileOnCd(u, posn, ifpsMayLoad)
  BY DEF Following
<1> HIDE DEF y
<1>2. CASE x.id = MODEL_INVALID \/ ~IsUnused(x.s, x.id) BY <1>1, <1>2 DEF y
<1>3. CASE ~(x.id = MODEL_INVALID \/ ~IsUnused(x.s, x.id))
  <2>1. y = GetNextFileOnCd(u, posn, ifpsMayLoad) BY <1>1, <1>3
  <2>2. /\ x.id \in Models /\ x.s.LoadState[x.id] = "REQUESTED" /\ Sound(x.s, half)
        /\ Thinned(s, x.s)
    BY <1>3 DEF Found
  <2>3. Free(x.s, x.id) BY <2>2, FreeUnlessLoaded
  <2>4. Sound(u, half) /\ Thinned(x.s, u) BY <2>2, <2>3, RemoveModelSound
  <2> HIDE DEF u, posn
  <2>5. Found(u, half, y) BY <2>1, <2>4, GetNextFileOnCdSound
  <2>6. Thinned(s, u) BY <2>2, <2>4, ThinnedTrans
  <2>7. Thinned(s, y.s) BY <2>5, <2>6, ThinnedTrans DEF Found
  <2>8. Found(s, half, y) BY <2>5, <2>7 DEF Found
  <2> QED BY <2>8 DEF y
<1> QED BY <1>2, <1>3

\* The model to begin with is requested, and looking for it loses nothing
LEMMA FirstToReadSound ==
    ASSUME NEW s, NEW half, NEW posn, NEW ifpsMayLoad, Sound(s, half)
    PROVE  Found(s, half, FirstToRead(s, posn, ifpsMayLoad))
<1> DEFINE n == Cardinality(Models)
           f == FoundUpTo(s, posn, ifpsMayLoad)
           P == {i \in Nat : i <= n => Found(s, half, f[i])}
<1>0. n \in Nat BY ModelAssumption, FS_CardinalityType
<1>1. \A i \in 0 .. n : f[i] = IF i = 0 THEN GetNextFileOnCd(s, posn, ifpsMayLoad)
                               ELSE Following(f[i - 1], ifpsMayLoad)
  <2> DEFINE F(i) == IF i = 0 THEN GetNextFileOnCd(s, posn, ifpsMayLoad)
                     ELSE Following(f[i - 1], ifpsMayLoad)
  <2>1. f = [i \in 0 .. n |-> F(i)] BY FoundUpToDef
  <2> HIDE DEF f
  <2>2. \A i \in 0 .. n : f[i] = F(i)
    <3> HIDE DEF F
    <3> QED BY <2>1
  <2> QED BY <2>2
<1> HIDE DEF f
<1>2. 0 \in P
  <2>1. f[0] = GetNextFileOnCd(s, posn, ifpsMayLoad) BY <1>0, <1>1
  <2> QED BY <2>1, GetNextFileOnCdSound
<1>3. ASSUME NEW i \in Nat, i \in P PROVE i + 1 \in P
  <2> SUFFICES ASSUME i + 1 <= n PROVE Found(s, half, f[i + 1]) OBVIOUS
  <2>1. i + 1 \in 0 .. n /\ i + 1 # 0 /\ (i + 1) - 1 = i /\ i <= n BY <1>0
  <2>2. Found(s, half, f[i]) BY <1>3, <2>1
  <2>3. f[i + 1] = Following(f[i], ifpsMayLoad) BY <1>1, <2>1
  <2> QED BY <2>2, <2>3, FollowingSound
<1>4. n \in P
  <2> HIDE DEF P
  <2> QED BY <1>0, <1>2, <1>3, NatInductionOnSets
<1> QED BY <1>0, <1>4 DEF f, FirstToRead

-----------------------------------------------------------------------------
(* What a channel is given to read                                         *)

\* What RequestModelStream has got so far
Batches == [s : State, next : Models \cup {MODEL_INVALID}, models : Seq(Slot), sectors : Nat,
            afterPed : BOOLEAN, afterBig : BOOLEAN]

\* The models it has got
Ids(a) == {a.models[k].id : k \in DOMAIN a.models}

\* The books while models leave the list of a state s, from m on, for a channel
BatchBooks(s, a) ==
    /\ RequestsFit(a.s) /\ LoadedFit(a.s)
    /\ a.s.ms_channel = s.ms_channel /\ a.s.ms_bLoadingBigModel = s.ms_bLoadingBigModel
    /\ a.s.ms_memoryUsed = s.ms_memoryUsed
    /\ \A n \in Models : a.s.LoadState[n] = IF n \in Ids(a) THEN "READING" ELSE s.LoadState[n]
    /\ \A n \in Ids(a) : n \in Models /\ s.LoadState[n] = "REQUESTED"

\* Where the models are that it has got
BatchPlaces(m, a) ==
    /\ \A k \in DOMAIN a.models :
           /\ CdOffset[a.models[k].id] = CdOffset[m] + a.models[k].at
           /\ a.models[k].at + CdSize[a.models[k].id] <= a.sectors
           /\ \A l \in DOMAIN a.models : a.models[l].id = a.models[k].id => l = k
    /\ a.next # MODEL_INVALID => CdOffset[a.next] = CdOffset[m] + a.sectors
    /\ Len(a.models) = 0 => a.sectors = 0 /\ a.next \in {m, MODEL_INVALID}
    /\ Len(a.models) = 1 => a.sectors = CdSize[m]
    /\ Len(a.models) > 1 => a.sectors <= ms_streamingBufferSize
    /\ Len(a.models) > 0 => a.models[1].id = m

\* Both
Joining(s, m, a) == a \in Batches /\ BatchBooks(s, a) /\ BatchPlaces(m, a)

\* One entry more in a list
LEMMA Appended ==
    ASSUME NEW S, NEW q, NEW x, q \in Seq(S), x \in S
    PROVE  LET r == Append(q, x) IN
           /\ r \in Seq(S) /\ Len(r) = Len(q) + 1 /\ Len(q) \in Nat
           /\ DOMAIN q = 1 .. Len(q) /\ DOMAIN r = 1 .. Len(q) + 1
           /\ \A k \in DOMAIN r : r[k] = IF k = Len(q) + 1 THEN x ELSE q[k]
  OBVIOUS

\* A model leaves the list of requests for a channel
ToRead(s, x) == [Withdrawn(s, x) EXCEPT !.LoadState[x] = "READING"]

\* A model leaves the list
LEMMA JoinedBooks ==
    ASSUME NEW s, NEW m, NEW a, NEW x, Joining(s, m, a), x \in Models,
           a.s.LoadState[x] = "REQUESTED"
    PROVE  LET b == ToRead(a.s, x) IN
           /\ b \in State /\ RequestsFit(b) /\ LoadedFit(b)
           /\ b.ms_channel = s.ms_channel /\ b.ms_bLoadingBigModel = s.ms_bLoadingBigModel
           /\ b.ms_memoryUsed = s.ms_memoryUsed
           /\ \A n \in Models : b.LoadState[n] = IF n \in Ids(a) \cup {x} THEN "READING"
                                                 ELSE s.LoadState[n]
           /\ x \notin Ids(a) /\ s.LoadState[x] = "REQUESTED"
<1> DEFINE u == Withdrawn(a.s, x)
           l == [u.LoadState EXCEPT ![x] = "READING"]
           b == ToRead(a.s, x)
<1>0. a.s \in State /\ BatchBooks(s, a) BY DEF Joining, Batches
<1>1. /\ u \in State /\ u.LoadState = a.s.LoadState /\ u.loaded = a.s.loaded
      /\ u.ms_channel = s.ms_channel /\ u.ms_memoryUsed = s.ms_memoryUsed
      /\ u.ms_bLoadingBigModel = s.ms_bLoadingBigModel
      /\ \A n \in Models \ {x} : u.Flags[n] = a.s.Flags[n]
      /\ IsInjective(u.requested) /\ Range(u.requested) = Range(a.s.requested) \ {x}
      /\ u.ms_numModelsRequested = Len(u.requested)
  BY <1>0, WithdrawnFits DEF BatchBooks
<1> HIDE DEF u
<1>2. u.LoadState \in [Models -> LoadStates] BY <1>1 DEF State
<1>3. l \in [Models -> LoadStates] BY <1>2 DEF LoadStates
<1>4. \A n \in Models : l[n] = IF n = x THEN "READING" ELSE a.s.LoadState[n] BY <1>1, <1>2
<1>5. b = [u EXCEPT !.LoadState = l] BY <1>1 DEF State, ToRead, u
<1> HIDE DEF l, b
<1>6. /\ b \in State /\ b.LoadState = l /\ b.loaded = u.loaded /\ b.Flags = u.Flags
      /\ b.requested = u.requested /\ b.ms_numModelsRequested = u.ms_numModelsRequested
      /\ b.ms_channel = u.ms_channel /\ b.ms_memoryUsed = u.ms_memoryUsed
      /\ b.ms_bLoadingBigModel = u.ms_bLoadingBigModel
  BY <1>1, <1>3, <1>5 DEF State
<1>7. RequestsFit(b)
  <2>1. RequestsFit(a.s) BY <1>0 DEF BatchBooks
  <2>2. Range(a.s.requested) \ {x} = {n \in Models : l[n] = "REQUESTED"}
    BY <1>4, <2>1 DEF RequestsFit
  <2> QED BY <1>1, <1>6, <2>2 DEF RequestsFit
<1>8. LoadedFit(b)
  <2>1. LoadedFit(a.s) BY <1>0 DEF BatchBooks
  <2>2. \A n \in Models \ {x} : b.Flags[n] = a.s.Flags[n] BY <1>1, <1>6
  <2>3. \A n \in Models \ {x} : IsMissionOrGameRequired(b, n) <=> IsMissionOrGameRequired(a.s, n)
    BY <2>2 DEF IsMissionOrGameRequired
  <2> QED BY <1>1, <1>4, <1>6, <2>1, <2>2, <2>3 DEF LoadedFit
<1>9. x \notin Ids(a) /\ s.LoadState[x] = "REQUESTED"
  <2>1. a.s.LoadState[x] = IF x \in Ids(a) THEN "READING" ELSE s.LoadState[x]
    BY <1>0 DEF BatchBooks
  <2> QED BY <2>1
<1>10. \A n \in Models : b.LoadState[n] = IF n \in Ids(a) \cup {x} THEN "READING" ELSE s.LoadState[n]
  <2>1. \A n \in Models : a.s.LoadState[n] = IF n \in Ids(a) THEN "READING" ELSE s.LoadState[n]
    BY <1>0 DEF BatchBooks
  <2> QED BY <1>4, <1>6, <2>1
<1> QED BY <1>1, <1>6, <1>7, <1>8, <1>9, <1>10 DEF b, u

\* The next model on the disc goes into the next slot, right behind the one
\* before
LEMMA JoinedJoins ==
    ASSUME NEW s, NEW m, NEW a, NEW ifpsMayLoad, Joining(s, m, a), m \in Models,
           a.next # MODEL_INVALID, MayJoin(a, a.next, ifpsMayLoad)
    PROVE  Joining(s, m, Joined(a, a.next))
<1> DEFINE x == a.next
           slot == [id |-> x, at |-> a.sectors]
           b == ToRead(a.s, x)
           r == Append(a.models, slot)
           n == a.sectors + CdSize[x]
           j == Joined(a, x)
<1>0. a \in Batches /\ BatchBooks(s, a) /\ BatchPlaces(m, a) BY DEF Joining
<1>1. /\ x \in Models /\ a.s \in State /\ a.models \in Seq(Slot) /\ a.sectors \in Nat
      /\ a.s.LoadState[x] = "REQUESTED"
      /\ a.models # <<>> => n <= ms_streamingBufferSize
  BY <1>0 DEF Batches, MayJoin
<1>2. /\ b \in State /\ RequestsFit(b) /\ LoadedFit(b)
      /\ b.ms_channel = s.ms_channel /\ b.ms_bLoadingBigModel = s.ms_bLoadingBigModel
      /\ b.ms_memoryUsed = s.ms_memoryUsed
      /\ \A k \in Models : b.LoadState[k] = IF k \in Ids(a) \cup {x} THEN "READING"
                                            ELSE s.LoadState[k]
      /\ x \notin Ids(a) /\ s.LoadState[x] = "REQUESTED"
  <2> HIDE DEF x
  <2> QED BY <1>1, JoinedBooks
<1>3. slot \in Slot /\ slot.id = x /\ slot.at = a.sectors BY <1>1 DEF Slot
<1>4. CdOffset[x] \in Nat /\ CdSize[x] \in Nat \ {0} /\ CdOffset[m] \in Nat /\ ms_streamingBufferSize \in Nat
      /\ NextOnCd[x] \in Models \cup {MODEL_INVALID}
      /\ (NextOnCd[x] # MODEL_INVALID => CdOffset[NextOnCd[x]] = CdOffset[x] + CdSize[x])
  BY <1>1, DiscAssumption, BoundAssumption
<1>5. /\ j.s = b /\ j.next = NextOnCd[x] /\ j.models = r /\ j.sectors = n
      /\ j = [s |-> b, next |-> NextOnCd[x], models |-> r, sectors |-> n,
              afterPed |-> j.afterPed, afterBig |-> j.afterBig]
      /\ j.afterPed \in BOOLEAN /\ j.afterBig \in BOOLEAN
  <2>1. a.afterPed \in BOOLEAN /\ a.afterBig \in BOOLEAN BY <1>0 DEF Batches
  <2> QED BY <2>1 DEF Joined, ToRead
<1> HIDE DEF slot, b, j
<1>6. /\ r \in Seq(Slot) /\ Len(r) = Len(a.models) + 1 /\ Len(a.models) \in Nat
      /\ DOMAIN a.models = 1 .. Len(a.models) /\ DOMAIN r = 1 .. Len(a.models) + 1
      /\ \A k \in DOMAIN r : r[k] = IF k = Len(a.models) + 1 THEN slot ELSE a.models[k]
  BY <1>1, <1>3, Appended
<1> HIDE DEF r, x
<1>7. j \in Batches BY <1>1, <1>2, <1>4, <1>5, <1>6 DEF Batches
<1>8. Ids(j) = Ids(a) \cup {x}
  <2>1. {r[k].id : k \in DOMAIN r} = Ids(a) \cup {x}
    <3>1. ASSUME NEW k \in DOMAIN r PROVE r[k].id \in Ids(a) \cup {x}
      BY <1>3, <1>6 DEF Ids
    <3>2. ASSUME NEW k \in DOMAIN a.models PROVE a.models[k].id \in {r[l].id : l \in DOMAIN r}
      <4>1. k \in DOMAIN r /\ r[k] = a.models[k] BY <1>6
      <4> QED BY <4>1
    <3>3. x \in {r[l].id : l \in DOMAIN r}
      <4>1. Len(a.models) + 1 \in DOMAIN r /\ r[Len(a.models) + 1] = slot BY <1>6
      <4> QED BY <1>3, <4>1
    <3> QED BY <3>1, <3>2, <3>3 DEF Ids
  <2> QED BY <1>5, <2>1 DEF Ids
<1>9. BatchBooks(s, j)
  <2>1. \A k \in Ids(a) : k \in Models /\ s.LoadState[k] = "REQUESTED" BY <1>0 DEF BatchBooks
  <2> QED BY <1>1, <1>2, <1>5, <1>8, <2>1 DEF BatchBooks
<1>10. BatchPlaces(m, j)
  <2>1. CdOffset[x] = CdOffset[m] + a.sectors BY <1>0 DEF BatchPlaces, x
  <2>2. ASSUME NEW k \in DOMAIN a.models
        PROVE  /\ CdOffset[a.models[k].id] = CdOffset[m] + a.models[k].at
               /\ a.models[k].at + CdSize[a.models[k].id] <= a.sectors
               /\ \A l \in DOMAIN a.models : a.models[l].id = a.models[k].id => l = k
               /\ a.models[k].id \in Ids(a) /\ a.models[k].at \in Nat /\ CdSize[a.models[k].id] \in Nat
    <3>1. a.models[k].id \in Ids(a) BY DEF Ids
    <3>2. a.models[k].id \in Models BY <1>0, <3>1 DEF BatchBooks
    <3>3. a.models[k] \in Slot BY <1>1
    <3> QED BY <1>0, <3>1, <3>2, <3>3, DiscAssumption DEF BatchPlaces, Slot
  <2>3. ASSUME NEW k \in DOMAIN r
        PROVE  /\ CdOffset[r[k].id] = CdOffset[m] + r[k].at
               /\ r[k].at + CdSize[r[k].id] <= n
               /\ \A l \in DOMAIN r : r[l].id = r[k].id => l = k
    <3>1. CASE k = Len(a.models) + 1
      <4>1. r[k] = slot BY <1>6, <3>1
      <4>2. \A l \in DOMAIN r : l # k => l \in DOMAIN a.models /\ r[l] = a.models[l]
        BY <1>6, <3>1
      <4>3. \A l \in DOMAIN r : r[l].id = r[k].id => l = k
        BY <1>2, <1>3, <2>2, <4>1, <4>2
      <4>4. r[k].at + CdSize[r[k].id] <= n BY <1>1, <1>3, <1>4, <4>1
      <4> QED BY <1>3, <2>1, <4>1, <4>3, <4>4
    <3>2. CASE k # Len(a.models) + 1
      <4>1. k \in DOMAIN a.models /\ r[k] = a.models[k] BY <1>6, <3>2
      <4>2. \A l \in DOMAIN r : r[l].id = r[k].id => l = k
        <5> SUFFICES ASSUME NEW l \in DOMAIN r, r[l].id = r[k].id PROVE l = k OBVIOUS
        <5>1. CASE l = Len(a.models) + 1
          <6>1. r[l].id = x BY <1>3, <1>6, <5>1
          <6> QED BY <1>2, <2>2, <4>1, <6>1
        <5>2. CASE l # Len(a.models) + 1
          <6>1. l \in DOMAIN a.models /\ r[l] = a.models[l] BY <1>6, <5>2
          <6> QED BY <2>2, <4>1, <6>1
        <5> QED BY <5>1, <5>2
      <4>3. r[k].at + CdSize[r[k].id] <= n BY <1>1, <1>4, <2>2, <4>1
      <4> QED BY <2>2, <4>1, <4>2, <4>3
    <3> QED BY <3>1, <3>2
  <2>4. NextOnCd[x] # MODEL_INVALID => CdOffset[NextOnCd[x]] = CdOffset[m] + n
    BY <1>1, <1>4, <2>1
  <2>5. Len(r) = 1 => n = CdSize[m]
    <3>1. Len(a.models) = 0 => a.sectors = 0 /\ x = m
      BY <1>0, ModelAssumption DEF BatchPlaces, x
    <3>2. CASE Len(a.models) = 0
      <4>1. n = 0 + CdSize[m] /\ CdSize[m] \in Nat BY <1>4, <3>1, <3>2
      <4> QED BY <4>1
    <3>3. CASE Len(a.models) # 0
      <4>1. Len(r) = Len(a.models) + 1 /\ Len(a.models) \in Nat BY <1>6
      <4>2. Len(r) # 1 BY <3>3, <4>1
      <4> QED BY <4>2
    <3> QED BY <3>2, <3>3
  <2>6. Len(r) > 1 => n <= ms_streamingBufferSize
    <3>1. Len(a.models) > 0 => a.models # <<>> OBVIOUS
    <3> QED BY <1>1, <1>6, <3>1 DEF x
  <2>7. r[1].id = m
    <3>1. CASE Len(a.models) = 0
      <4>1. x = m BY <1>0, <3>1 DEF BatchPlaces, x
      <4> QED BY <1>3, <1>6, <3>1, <4>1
    <3>2. CASE Len(a.models) > 0
      <4>1. r[1] = a.models[1] BY <1>6, <3>2
      <4> QED BY <1>0, <3>2, <4>1 DEF BatchPlaces
    <3> QED BY <1>6, <3>1, <3>2
  <2>8. Len(r) # 0 BY <1>6
  <2> QED BY <1>5, <2>3, <2>4, <2>5, <2>6, <2>7, <2>8 DEF BatchPlaces
<1> QED BY <1>7, <1>9, <1>10 DEF Joining, j, x

\* The loop of RequestModelStream goes on, or is over
LEMMA ContinuedJoins ==
    ASSUME NEW s, NEW m, NEW a, NEW ifpsMayLoad, Joining(s, m, a), m \in Models
    PROVE  Joining(s, m, Continued(a, ifpsMayLoad))
<1> DEFINE b == [a EXCEPT !.next = MODEL_INVALID]
<1>1. CASE a.next # MODEL_INVALID /\ MayJoin(a, a.next, ifpsMayLoad)
  <2>1. Continued(a, ifpsMayLoad) = Joined(a, a.next) BY <1>1 DEF Continued
  <2> QED BY <1>1, <2>1, JoinedJoins
<1>2. CASE ~(a.next # MODEL_INVALID /\ MayJoin(a, a.next, ifpsMayLoad))
  <2>1. Continued(a, ifpsMayLoad) = b BY <1>2 DEF Continued
  <2>2. /\ b \in Batches /\ b.s = a.s /\ b.models = a.models /\ b.sectors = a.sectors
        /\ b.next = MODEL_INVALID
    BY DEF Joining, Batches
  <2> HIDE DEF b
  <2>3. Ids(b) = Ids(a) BY <2>2 DEF Ids
  <2>4. BatchBooks(s, b)
    <3>1. BatchBooks(s, a) BY DEF Joining
    <3> QED BY <2>2, <2>3, <3>1 DEF BatchBooks
  <2>5. BatchPlaces(m, b)
    <3>1. BatchPlaces(m, a) BY DEF Joining
    <3> QED BY <2>2, <3>1 DEF BatchPlaces
  <2>6. Joining(s, m, b) BY <2>2, <2>4, <2>5 DEF Joining
  <2> QED BY <2>1, <2>6
<1> QED BY <1>1, <1>2

\* What it has got when it ends
LEMMA BatchSound ==
    ASSUME NEW s, NEW m, NEW half, NEW ifpsMayLoad, Sound(s, half), m \in Models
    PROVE  Joining(s, m, Batch(s, m, ifpsMayLoad))
<1> DEFINE f == JoinedUpTo(s, m, ifpsMayLoad)
           P == {i \in Nat : i <= NumSlots => Joining(s, m, f[i])}
<1>0. NumSlots \in Nat BY BoundAssumption
<1>1. \A i \in 0 .. NumSlots : f[i] = IF i = 0 THEN NoBatch(s, m)
                                      ELSE Continued(f[i - 1], ifpsMayLoad)
  <2> DEFINE F(i) == IF i = 0 THEN NoBatch(s, m) ELSE Continued(f[i - 1], ifpsMayLoad)
  <2>1. f = [i \in 0 .. NumSlots |-> F(i)] BY JoinedUpToDef
  <2> HIDE DEF f
  <2>2. \A i \in 0 .. NumSlots : f[i] = F(i)
    <3> HIDE DEF F
    <3> QED BY <2>1
  <2> QED BY <2>2
<1> HIDE DEF f
<1>2. 0 \in P
  <2> DEFINE a == NoBatch(s, m)
  <2>1. 0 \in 0 .. NumSlots BY <1>0
  <2>2. f[0] = a BY <1>1, <2>1
  <2>3. /\ a.s = s /\ a.next = m /\ a.models = <<>> /\ a.sectors = 0
        /\ a.afterPed = FALSE /\ a.afterBig = FALSE
        /\ a = [s |-> s, next |-> m, models |-> <<>>, sectors |-> 0, afterPed |-> FALSE,
                afterBig |-> FALSE]
    BY DEF NoBatch
  <2> HIDE DEF a
  <2>4. <<>> \in Seq(Slot) /\ Len(<<>>) = 0 /\ DOMAIN <<>> = {} OBVIOUS
  <2>5. a \in Batches
    <3>1. s \in State BY DEF Sound
    <3> QED BY <2>3, <2>4, <3>1 DEF Batches
  <2>6. Ids(a) = {} BY <2>3, <2>4 DEF Ids
  <2>7. BatchBooks(s, a) BY <2>3, <2>6 DEF BatchBooks, Sound
  <2>8. BatchPlaces(m, a)
    <3>1. CdOffset[m] + 0 = CdOffset[m] BY DiscAssumption
    <3> QED BY <2>3, <2>4, <3>1 DEF BatchPlaces
  <2>9. Joining(s, m, f[0]) BY <2>2, <2>5, <2>7, <2>8 DEF Joining
  <2> QED BY <2>9
<1>3. ASSUME NEW i \in Nat, i \in P PROVE i + 1 \in P
  <2> SUFFICES ASSUME i + 1 <= NumSlots PROVE Joining(s, m, f[i + 1]) OBVIOUS
  <2>1. i + 1 \in 0 .. NumSlots /\ i + 1 # 0 /\ (i + 1) - 1 = i /\ i <= NumSlots BY <1>0
  <2>2. Joining(s, m, f[i]) BY <1>3, <2>1
  <2>3. f[i + 1] = Continued(f[i], ifpsMayLoad) BY <1>1, <2>1
  <2> QED BY <2>2, <2>3, ContinuedJoins
<1>4. NumSlots \in P
  <2> HIDE DEF P
  <2> QED BY <1>0, <1>2, <1>3, NatInductionOnSets
<1> QED BY <1>0, <1>4 DEF f, Batch

\* A change that only empties slots leaves the channels fit
LEMMA ThinnedFits ==
    ASSUME NEW s, NEW t, Fits(s), Sound(t, HalfLoaded(s)), Thinned(s, t)
    PROVE  Fits(t)
<1>0. 0 \in Channels /\ 1 \in Channels BY DEF Channels
<1>1. s \in State /\ t \in State /\ ChannelsFit(s) BY DEF Fits, Sound
<1>2. HalfLoaded(t) = HalfLoaded(s) BY <1>0 DEF HalfLoaded, Thinned
<1>3. \A c \in Channels :
          /\ t.ms_channel[c].LoadStatus = s.ms_channel[c].LoadStatus
          /\ t.ms_channel[c].sectorCount = s.ms_channel[c].sectorCount
          /\ Places(t, c) = Places(s, c)
          /\ \A k \in Places(s, c) : Id(t, c, k) \in {Id(s, c, k), MODEL_INVALID}
  BY DEF Thinned
<1>4. \A c \in Channels : Len(t.ms_channel[c].models) = Len(s.ms_channel[c].models)
  <2> SUFFICES ASSUME NEW c \in Channels
               PROVE  Len(t.ms_channel[c].models) = Len(s.ms_channel[c].models)
    OBVIOUS
  <2>1. /\ t.ms_channel[c].models \in Seq(Slot) /\ s.ms_channel[c].models \in Seq(Slot)
        /\ DOMAIN t.ms_channel[c].models = DOMAIN s.ms_channel[c].models
    BY <1>1, <1>3, SlotTypes DEF Places
  <2> QED BY <2>1
<1>5. \A c \in Channels : s.ms_channel[c].models = <<>> => t.ms_channel[c].models = <<>>
  <2> SUFFICES ASSUME NEW c \in Channels, s.ms_channel[c].models = <<>>
               PROVE  t.ms_channel[c].models = <<>>
    OBVIOUS
  <2>1. t.ms_channel[c].models \in Seq(Slot) /\ Len(t.ms_channel[c].models) = 0
    BY <1>1, <1>4, SlotTypes
  <2> QED BY <2>1
<1>6. t.ms_bLoadingBigModel = s.ms_bLoadingBigModel BY DEF Thinned
<1>7. \A k \in Places(t, 0) : Id(t, 0, k) # MODEL_INVALID => Id(t, 0, k) = Id(s, 0, k) /\ k \in Places(s, 0)
  BY <1>0, <1>3
<1>8. ChannelsFit(t)
  <2>1. \A c \in Channels :
           /\ t.ms_channel[c].LoadStatus = "IDLE" => t.ms_channel[c].models = <<>>
           /\ t.ms_channel[c].LoadStatus = "STARTED" =>
                  c = 0 /\ t.ms_bLoadingBigModel /\ Len(t.ms_channel[c].models) = 1
           /\ t.ms_channel[c].LoadStatus # "IDLE" /\ t.ms_channel[c].sectorCount > ms_streamingBufferSize
              => c = 0 /\ t.ms_bLoadingBigModel
    BY <1>1, <1>3, <1>4, <1>5, <1>6 DEF ChannelsFit
  <2>2. ASSUME t.ms_bLoadingBigModel
        PROVE  /\ t.ms_channel[0].LoadStatus # "IDLE"
               /\ t.ms_channel[1].LoadStatus = "IDLE"
               /\ Len(t.ms_channel[0].models) <= 1
               /\ \A k \in Places(t, 0) : Id(t, 0, k) # MODEL_INVALID => IsBig(Id(t, 0, k))
    <3>1. /\ s.ms_channel[0].LoadStatus # "IDLE"
          /\ s.ms_channel[1].LoadStatus = "IDLE"
          /\ Len(s.ms_channel[0].models) <= 1
          /\ \A k \in Places(s, 0) : Id(s, 0, k) # MODEL_INVALID => IsBig(Id(s, 0, k))
      BY <1>1, <1>6, <2>2 DEF ChannelsFit
    <3> QED BY <1>0, <1>3, <1>4, <1>7, <3>1
  <2> QED BY <2>1, <2>2 DEF ChannelsFit
<1> QED BY <1>2, <1>8 DEF Fits

\* The channel it gives them to
BatchChannel(a, m) ==
    [LoadStatus |-> "READING", models |-> a.models, pos |-> CdOffset[m], sectorCount |-> a.sectors]

\* and the state then
BatchRead(a, m, c) ==
    [a.s EXCEPT !.ms_bLoadingBigModel = @ \/ IsBig(m), !.ms_channel[c] = BatchChannel(a, m)]

\* A channel that is given models to read
LEMMA ReadSound ==
    ASSUME NEW s, NEW m, NEW c, NEW a, Fits(s), Joining(s, m, a), m \in Models, c \in Channels,
           s.ms_channel[c].LoadStatus = "IDLE", ~s.ms_bLoadingBigModel,
           IsBig(m) => BigMayLoad(s, c)
    PROVE  LET t == BatchRead(a, m, c)
           IN /\ Fits(t) /\ t.ms_channel[c] = BatchChannel(a, m)
              /\ \A d \in Channels \ {c} : t.ms_channel[d] = s.ms_channel[d]
<1> DEFINE ch == BatchChannel(a, m)
           chs == [s.ms_channel EXCEPT ![c] = ch]
           big == s.ms_bLoadingBigModel \/ IsBig(m)
           t == BatchRead(a, m, c)
<1> SUFFICES /\ Fits(t) /\ t.ms_channel[c] = ch
             /\ \A d \in Channels \ {c} : t.ms_channel[d] = s.ms_channel[d]
  OBVIOUS
<1>0. /\ s \in State /\ ChannelsFit(s) /\ SlotsFit(s, HalfLoaded(s)) /\ MemoryFits(s) /\ NeedsFit(s)
      /\ a.s \in State /\ a.models \in Seq(Slot) /\ a.sectors \in Nat
      /\ BatchBooks(s, a) /\ BatchPlaces(m, a)
  BY DEF Fits, Sound, Joining, Batches
<1>1. CdOffset[m] \in Nat /\ CdSize[m] \in Nat /\ ms_streamingBufferSize \in Nat
  BY DiscAssumption, BoundAssumption
<1>2. /\ ch \in Channel /\ ch.LoadStatus = "READING" /\ ch.models = a.models
      /\ ch.pos = CdOffset[m] /\ ch.sectorCount = a.sectors
  BY <1>0, <1>1 DEF Channel, BatchChannel
<1> HIDE DEF ch
<1>3. /\ chs \in [Channels -> Channel] /\ chs[c] = ch
      /\ \A d \in Channels \ {c} : chs[d] = s.ms_channel[d]
  <2>1. s.ms_channel \in [Channels -> Channel] BY <1>0 DEF State
  <2> QED BY <1>2, <2>1
<1>4. big \in BOOLEAN /\ (big <=> IsBig(m)) OBVIOUS
<1>5. t = [a.s EXCEPT !.ms_bLoadingBigModel = big, !.ms_channel = chs]
  BY <1>0 DEF State, BatchBooks, BatchRead, ch
<1> HIDE DEF chs, big, t
<1>6. /\ t \in State /\ t.LoadState = a.s.LoadState /\ t.loaded = a.s.loaded /\ t.Flags = a.s.Flags
      /\ t.requested = a.s.requested /\ t.ms_numModelsRequested = a.s.ms_numModelsRequested
      /\ t.ms_memoryUsed = a.s.ms_memoryUsed
      /\ t.ms_channel = chs /\ t.ms_bLoadingBigModel = big
  BY <1>0, <1>3, <1>4, <1>5 DEF State
<1>7. /\ s.ms_channel[c].models = <<>> /\ HalfLoaded(s) = NoPlace
      /\ \A d \in Channels : s.ms_channel[d].LoadStatus # "STARTED"
  <2>1. 0 \in Channels BY DEF Channels
  <2> QED BY <1>0, <2>1 DEF ChannelsFit, HalfLoaded
<1>8. /\ \A n \in Models : t.LoadState[n] = IF n \in Ids(a) THEN "READING" ELSE s.LoadState[n]
      /\ \A n \in Ids(a) : n \in Models /\ s.LoadState[n] = "REQUESTED"
  BY <1>0, <1>6 DEF BatchBooks
<1>9. RequestsFit(t) BY <1>0, <1>6 DEF BatchBooks, RequestsFit
<1>10. LoadedFit(t)
  BY <1>0, <1>6 DEF BatchBooks, LoadedFit, IsMissionOrGameRequired
<1>11. LoadedModels(t) = LoadedModels(s) BY <1>8 DEF LoadedModels
<1>12. MemoryFits(t) BY <1>0, <1>6, <1>11 DEF MemoryFits, BatchBooks
<1>13. NeedsFit(t)
  <2>1. \A d \in DFFs : d \in Models /\ Needs(d) \subseteq Models BY NeedsAreModels
  <2> QED BY <1>0, <1>8, <2>1 DEF NeedsFit
<1>14. HalfLoaded(t) = NoPlace
  <2>1. 0 \in Channels BY DEF Channels
  <2>2. \A d \in Channels : chs[d].LoadStatus # "STARTED" BY <1>2, <1>3, <1>7
  <2> QED BY <1>6, <2>1, <2>2 DEF HalfLoaded
\* The slots of the channel and those of the other one
<1>15. /\ Places(t, c) = DOMAIN a.models
       /\ \A k \in DOMAIN a.models : Id(t, c, k) = a.models[k].id /\ Id(t, c, k) \in Ids(a)
                                     /\ t.ms_channel[c].models[k].at = a.models[k].at
       /\ t.ms_channel[c] = ch
  BY <1>2, <1>3, <1>6 DEF Places, Id, Ids
<1>16. \A d \in Channels \ {c} :
           /\ t.ms_channel[d] = s.ms_channel[d] /\ Places(t, d) = Places(s, d)
           /\ \A k \in Places(s, d) : Id(t, d, k) = Id(s, d, k)
  BY <1>3, <1>6 DEF Places, Id
<1>17. \A d \in Channels : \A k \in Places(s, d) :
           /\ d # c
           /\ Id(s, d, k) \in Models \cup {MODEL_INVALID}
           /\ Id(s, d, k) # MODEL_INVALID => /\ s.LoadState[Id(s, d, k)] = "READING"
                                             /\ Id(s, d, k) \notin Ids(a)
  <2> SUFFICES ASSUME NEW d \in Channels, NEW k \in Places(s, d)
               PROVE  /\ d # c
                      /\ Id(s, d, k) \in Models \cup {MODEL_INVALID}
                      /\ Id(s, d, k) # MODEL_INVALID => /\ s.LoadState[Id(s, d, k)] = "READING"
                                                        /\ Id(s, d, k) \notin Ids(a)
    OBVIOUS
  <2>1. Places(s, c) = {} BY <1>7 DEF Places
  <2>2. k \in Nat /\ k # 0 /\ Id(s, d, k) \in Models \cup {MODEL_INVALID} BY <1>0, SlotTypes
  <2>3. <<d, k>> # NoPlace BY <2>2 DEF NoPlace
  <2>4. Id(s, d, k) # MODEL_INVALID => s.LoadState[Id(s, d, k)] = "READING"
    BY <1>0, <1>7, <2>3 DEF SlotsFit
  <2> QED BY <1>8, <2>1, <2>2, <2>4
<1>18. SlotsFit(t, NoPlace)
  <2>1. ASSUME NEW d \in Channels, NEW k \in Places(t, d), Id(t, d, k) # MODEL_INVALID
        PROVE  /\ t.LoadState[Id(t, d, k)] = "READING"
               /\ CdOffset[Id(t, d, k)] = t.ms_channel[d].pos + t.ms_channel[d].models[k].at
               /\ t.ms_channel[d].models[k].at + CdSize[Id(t, d, k)] <= t.ms_channel[d].sectorCount
               /\ \A e \in Channels : \A l \in Places(t, e) :
                      Id(t, e, l) = Id(t, d, k) => e = d /\ l = k
    <3>1. CASE d = c
      <4>1. k \in DOMAIN a.models /\ Id(t, d, k) = a.models[k].id /\ Id(t, d, k) \in Ids(a)
        BY <1>15, <3>1
      <4>2. t.LoadState[Id(t, d, k)] = "READING" BY <1>8, <4>1
      <4>3. /\ CdOffset[a.models[k].id] = CdOffset[m] + a.models[k].at
            /\ a.models[k].at + CdSize[a.models[k].id] <= a.sectors
            /\ \A l \in DOMAIN a.models : a.models[l].id = a.models[k].id => l = k
        BY <1>0, <4>1 DEF BatchPlaces
      <4>4. ASSUME NEW e \in Channels, NEW l \in Places(t, e), Id(t, e, l) = Id(t, d, k)
            PROVE  e = d /\ l = k
        <5>1. CASE e = c BY <1>15, <3>1, <4>1, <4>3, <4>4, <5>1
        <5>2. CASE e # c
          <6>1. l \in Places(s, e) /\ Id(t, e, l) = Id(s, e, l) BY <1>16, <5>2
          <6> QED BY <1>17, <2>1, <4>1, <4>4, <6>1
        <5> QED BY <5>1, <5>2
      <4> QED BY <1>2, <1>15, <3>1, <4>1, <4>2, <4>3, <4>4
    <3>2. CASE d # c
      <4>1. k \in Places(s, d) /\ Id(t, d, k) = Id(s, d, k) /\ t.ms_channel[d] = s.ms_channel[d]
        BY <1>16, <3>2
      <4>2. /\ Id(s, d, k) \in Models /\ s.LoadState[Id(s, d, k)] = "READING"
            /\ Id(s, d, k) \notin Ids(a)
        BY <1>17, <2>1, <4>1
      <4>3. t.LoadState[Id(t, d, k)] = "READING" BY <1>8, <4>1, <4>2
      <4>4. /\ CdOffset[Id(s, d, k)] = s.ms_channel[d].pos + s.ms_channel[d].models[k].at
            /\ s.ms_channel[d].models[k].at + CdSize[Id(s, d, k)] <= s.ms_channel[d].sectorCount
            /\ \A e \in Channels : \A l \in Places(s, e) :
                   Id(s, e, l) = Id(s, d, k) => e = d /\ l = k
        BY <1>0, <2>1, <4>1 DEF SlotsFit
      <4>5. ASSUME NEW e \in Channels, NEW l \in Places(t, e), Id(t, e, l) = Id(t, d, k)
            PROVE  e = d /\ l = k
        <5>1. CASE e = c BY <1>15, <4>1, <4>2, <4>5, <5>1
        <5>2. CASE e # c
          <6>1. l \in Places(s, e) /\ Id(t, e, l) = Id(s, e, l) BY <1>16, <5>2
          <6> QED BY <4>1, <4>4, <4>5, <6>1
        <5> QED BY <5>1, <5>2
      <4> QED BY <4>1, <4>3, <4>4, <4>5
    <3> QED BY <3>1, <3>2
  <2>2. ASSUME NEW n \in Models, t.LoadState[n] = "READING"
        PROVE  \E d \in Channels : \E k \in Places(t, d) : Id(t, d, k) = n
    <3>1. CASE n \in Ids(a)
      <4>1. PICK k \in DOMAIN a.models : a.models[k].id = n BY <3>1 DEF Ids
      <4>2. k \in Places(t, c) /\ Id(t, c, k) = n BY <1>15, <4>1
      <4> QED BY <4>2
    <3>2. CASE n \notin Ids(a)
      <4>1. s.LoadState[n] = "READING" BY <1>8, <2>2, <3>2
      <4>2. \E d \in Channels : \E k \in Places(s, d) : Id(s, d, k) = n BY <1>0, <4>1 DEF SlotsFit
      <4>3. PICK d \in Channels : \E k \in Places(s, d) : Id(s, d, k) = n BY <4>2
      <4>4. PICK k \in Places(s, d) : Id(s, d, k) = n BY <4>3
      <4>5. d # c BY <1>17
      <4>6. k \in Places(t, d) /\ Id(t, d, k) = n BY <1>16, <4>4, <4>5
      <4> QED BY <4>6
    <3> QED BY <3>1, <3>2
  <2>3. \A n \in Models : t.LoadState[n] # "FINISHING"
    <3>1. \A n \in Models : s.LoadState[n] # "FINISHING" BY <1>0, <1>7 DEF SlotsFit
    <3> QED BY <1>8, <3>1
  <2> QED BY <2>1, <2>2, <2>3 DEF SlotsFit
<1>19. /\ IsBig(m) => c = 0 /\ s.ms_channel[1].LoadStatus = "IDLE" /\ Len(a.models) <= 1
       /\ ~IsBig(m) => a.sectors <= ms_streamingBufferSize
       /\ IsBig(m) => \A k \in DOMAIN a.models : IsBig(a.models[k].id)
  <2>0. Len(a.models) \in Nat /\ DOMAIN a.models = 1 .. Len(a.models) BY <1>0
  <2>1. ASSUME IsBig(m) PROVE Len(a.models) <= 1
    <3> SUFFICES ASSUME Len(a.models) > 1 PROVE FALSE BY <2>0
    <3>1. a.sectors <= ms_streamingBufferSize /\ a.models[1].id = m BY <1>0, <2>0 DEF BatchPlaces
    <3>2. 1 \in DOMAIN a.models BY <2>0
    <3>3. a.models[1].at + CdSize[m] <= a.sectors BY <1>0, <3>1, <3>2 DEF BatchPlaces
    <3>4. a.models[1].at \in Nat
      <4>1. a.models[1] \in Slot BY <1>0, <3>2
      <4> QED BY <4>1 DEF Slot
    <3> QED BY <1>0, <1>1, <2>1, <3>1, <3>3, <3>4 DEF IsBig
  <2>2. ASSUME ~IsBig(m) PROVE a.sectors <= ms_streamingBufferSize
    <3>1. CASE Len(a.models) = 0 BY <1>0, <1>1, <3>1 DEF BatchPlaces
    <3>2. CASE Len(a.models) = 1 BY <1>0, <1>1, <2>2, <3>2 DEF BatchPlaces, IsBig
    <3>3. CASE Len(a.models) > 1
      <4>1. BatchPlaces(m, a) BY <1>0
      <4> QED BY <3>3, <4>1 DEF BatchPlaces
    <3>4. Len(a.models) = 0 \/ Len(a.models) = 1 \/ Len(a.models) > 1
      <4> DEFINE n == Len(a.models)
      <4>1. n \in Nat BY <2>0
      <4> HIDE DEF n
      <4>2. n = 0 \/ n = 1 \/ n > 1 BY <4>1
      <4> QED BY <4>2 DEF n
    <3> QED BY <3>1, <3>2, <3>3, <3>4
  <2>3. ASSUME IsBig(m), NEW k \in DOMAIN a.models PROVE IsBig(a.models[k].id)
    <3>1. Len(a.models) <= 1 BY <2>1, <2>3
    <3>2. k = 1 /\ Len(a.models) > 0 BY <2>0, <3>1
    <3>3. a.models[1].id = m BY <1>0, <3>2 DEF BatchPlaces
    <3> QED BY <2>3, <3>2, <3>3
  <2> QED BY <2>1, <2>2, <2>3 DEF BigMayLoad
<1>20. ChannelsFit(t)
  <2>1. ASSUME NEW d \in Channels
        PROVE  /\ t.ms_channel[d].LoadStatus = "IDLE" => t.ms_channel[d].models = <<>>
               /\ t.ms_channel[d].LoadStatus # "STARTED"
               /\ t.ms_channel[d].LoadStatus # "IDLE" /\ t.ms_channel[d].sectorCount > ms_streamingBufferSize
                  => d = 0 /\ t.ms_bLoadingBigModel
    <3>1. CASE d = c
      <4>1. a.sectors > ms_streamingBufferSize => IsBig(m) BY <1>0, <1>1, <1>19
      <4> QED BY <1>2, <1>4, <1>6, <1>15, <1>19, <3>1, <4>1
    <3>2. CASE d # c
      <4>1. t.ms_channel[d] = s.ms_channel[d] BY <1>16, <3>2
      <4> QED BY <1>0, <1>7, <4>1 DEF ChannelsFit
    <3> QED BY <3>1, <3>2
  <2>2. ASSUME t.ms_bLoadingBigModel
        PROVE  /\ t.ms_channel[0].LoadStatus # "IDLE"
               /\ t.ms_channel[1].LoadStatus = "IDLE"
               /\ Len(t.ms_channel[0].models) <= 1
               /\ \A k \in Places(t, 0) : Id(t, 0, k) # MODEL_INVALID => IsBig(Id(t, 0, k))
    <3>1. IsBig(m) BY <1>4, <1>6, <2>2
    <3>2. c = 0 /\ 1 \in Channels \ {c} BY <1>19, <3>1 DEF Channels
    <3>3. t.ms_channel[1] = s.ms_channel[1] BY <1>16, <3>2
    <3> QED BY <1>2, <1>15, <1>19, <3>1, <3>2, <3>3
  <2> QED BY <2>1, <2>2 DEF ChannelsFit
<1>21. Sound(t, NoPlace) BY <1>6, <1>9, <1>10, <1>12, <1>13, <1>18 DEF Sound
<1> QED BY <1>14, <1>15, <1>16, <1>20, <1>21 DEF Fits, ch

\* What a step leaves as it was of a channel
SameChannel(s, t, c) ==
    /\ t.ms_channel[c].LoadStatus = s.ms_channel[c].LoadStatus
    /\ t.ms_channel[c].pos = s.ms_channel[c].pos
    /\ t.ms_channel[c].sectorCount = s.ms_channel[c].sectorCount

\* The channels keep their reads when slots are emptied
LEMMA ThinnedSame ==
    ASSUME NEW s, NEW t, NEW c, Thinned(s, t), c \in Channels
    PROVE  SameChannel(s, t, c)
  BY DEF Thinned, SameChannel

\* RequestModelStream fills a channel that is free, or leaves it as it is
LEMMA RequestModelStreamSound ==
    ASSUME NEW s, NEW c, NEW posn, NEW ifpsMayLoad, Fits(s), c \in Channels,
           s.ms_channel[c].LoadStatus = "IDLE", ~s.ms_bLoadingBigModel
    PROVE  LET to == RequestModelStream(s, c, posn, ifpsMayLoad) IN
           /\ Fits(to.s) /\ to.reads \in BOOLEAN
           /\ \A d \in Channels \ {c} : SameChannel(s, to.s, d)
           /\ to.reads => to.s.ms_channel[c].LoadStatus = "READING"
           /\ ~to.reads => SameChannel(s, to.s, c)
<1> DEFINE first == FirstToRead(s, posn, ifpsMayLoad)
           m     == first.id
           u     == first.s
           batch == Batch(u, m, ifpsMayLoad)
           to    == RequestModelStream(s, c, posn, ifpsMayLoad)
           t     == BatchRead(batch, m, c)
<1> SUFFICES /\ Fits(to.s) /\ to.reads \in BOOLEAN
             /\ \A d \in Channels \ {c} : SameChannel(s, to.s, d)
             /\ to.reads => to.s.ms_channel[c].LoadStatus = "READING"
             /\ ~to.reads => SameChannel(s, to.s, c)
  OBVIOUS
<1>1. to = IF m = MODEL_INVALID \/ (IsBig(m) /\ ~BigMayLoad(u, c))
           THEN [s |-> u, reads |-> FALSE] ELSE [s |-> t, reads |-> TRUE]
  BY DEF RequestModelStream, BatchRead, BatchChannel
<1>2. Sound(s, HalfLoaded(s)) BY DEF Fits
<1>3. Found(s, HalfLoaded(s), first) BY <1>2, FirstToReadSound
<1> HIDE DEF to, first
<1>4. /\ m \in Models \cup {MODEL_INVALID} /\ Sound(u, HalfLoaded(s)) /\ Thinned(s, u)
  BY <1>3 DEF Found
<1> HIDE DEF m, u
<1>5. Fits(u) BY <1>4, ThinnedFits
<1>6. \A d \in Channels : SameChannel(s, u, d) BY <1>4, ThinnedSame
<1>7. CASE m = MODEL_INVALID \/ (IsBig(m) /\ ~BigMayLoad(u, c))
  <2>1. to.s = u /\ to.reads = FALSE BY <1>1, <1>7
  <2> QED BY <1>5, <1>6, <2>1
<1>8. CASE ~(m = MODEL_INVALID \/ (IsBig(m) /\ ~BigMayLoad(u, c)))
  <2>1. to.s = t /\ to.reads = TRUE BY <1>1, <1>8
  <2>2. m \in Models BY <1>4, <1>8
  <2>3. Joining(u, m, batch) BY <1>4, <2>2, BatchSound
  <2>4. u.ms_channel[c].LoadStatus = "IDLE" /\ ~u.ms_bLoadingBigModel
    BY <1>4, <1>6 DEF SameChannel, Thinned
  <2> HIDE DEF batch, t
  <2>5. /\ Fits(t) /\ t.ms_channel[c] = BatchChannel(batch, m)
        /\ \A d \in Channels \ {c} : t.ms_channel[d] = u.ms_channel[d]
    BY <1>5, <1>8, <2>2, <2>3, <2>4, ReadSound DEF t
  <2>6. t.ms_channel[c].LoadStatus = "READING" BY <2>5 DEF BatchChannel
  <2>7. \A d \in Channels \ {c} : SameChannel(s, t, d) BY <1>6, <2>5 DEF SameChannel
  <2> QED BY <2>1, <2>5, <2>6, <2>7
<1> QED BY <1>7, <1>8

-----------------------------------------------------------------------------
(* Evictions                                                               *)

\* What evictions do: loaded models go, no channel is touched
Evicted(s, t) ==
    /\ t.ms_channel = s.ms_channel
    /\ t.ms_bLoadingBigModel = s.ms_bLoadingBigModel
    /\ \A n \in Models :
           \/ t.LoadState[n] = s.LoadState[n]
           \/ s.LoadState[n] \in {"LOADED", "FINISHING"} /\ t.LoadState[n] = "NOT_LOADED"

\* They may change nothing
LEMMA EvictedRefl == ASSUME NEW s PROVE Evicted(s, s)
  BY DEF Evicted

\* Two of them are like one
LEMMA EvictedTrans ==
    ASSUME NEW s, NEW t, NEW u, Evicted(s, t), Evicted(t, u)
    PROVE  Evicted(s, u)
  BY DEF Evicted

\* A loaded model that nothing loaded needs may go
LEMMA EvictionSound ==
    ASSUME NEW s, NEW m, NEW half, Sound(s, half), m \in Models, Free(s, m),
           s.LoadState[m] \in {"LOADED", "FINISHING"}
    PROVE  LET t == RemoveModel(s, m) IN Sound(t, half) /\ Evicted(s, t)
<1> DEFINE t == RemoveModel(s, m)
<1>1. /\ Sound(t, half) /\ Thinned(s, t) /\ t.LoadState[m] = "NOT_LOADED"
      /\ \A n \in Models \ {m} :
             \/ t.LoadState[n] = s.LoadState[n]
             \/ s.LoadState[n] = "LOADED" /\ t.LoadState[n] = "NOT_LOADED"
      /\ t.ms_channel = s.ms_channel
  BY RemoveModelSound
<1> HIDE DEF t
<1>2. t.ms_bLoadingBigModel = s.ms_bLoadingBigModel BY <1>1 DEF Thinned
<1>3. Evicted(s, t) BY <1>1, <1>2 DEF Evicted
<1> QED BY <1>1, <1>3 DEF t

\* What may be evicted is loaded, and nothing that is loaded needs it
LEMMA CanBeEvictedFree ==
    ASSUME NEW s, NEW m, NEW half, Sound(s, half), m \in Models, CanBeEvicted(s, m)
    PROVE  Free(s, m) /\ s.LoadState[m] \in {"LOADED", "FINISHING"}
<1>1. s.LoadState[m] \in {"LOADED", "FINISHING"}
  BY DEF CanBeEvicted, Sound, LoadedFit
<1>2. Free(s, m)
  <2> SUFFICES ASSUME NEW d \in DFFs, m \in Needs(d) PROVE s.LoadState[d] # "LOADED" BY DEF Free
  <2>1. m \in Txds \cup Ifps BY NeedsAreModels
  <2>2. Type[m] \notin {"VEHICLE", "PED"} BY <2>1 DEF Txds, Ifps
  <2> QED BY <2>1, <2>2 DEF CanBeEvicted
<1> QED BY <1>1, <1>2

\* However many have to go
LEMMA MakeSpaceForSound ==
    ASSUME NEW s, NEW size, NEW half, NEW t, Sound(s, half), t \in MakeSpaceFor(s, size)
    PROVE  Sound(t, half) /\ Evicted(s, t)
<1> DEFINE n == Cardinality(Models)
           f == EvictedUpTo(s, size)
           P == {i \in Nat : i <= n => \A x \in f[i] : Sound(x, half) /\ Evicted(s, x)}
<1>0. n \in Nat BY ModelAssumption, FS_CardinalityType
<1>1. \A i \in 0 .. n : f[i] = IF i = 0 THEN {s} ELSE f[i - 1] \cup Evictions(f[i - 1], size)
  <2> DEFINE F(i) == IF i = 0 THEN {s} ELSE f[i - 1] \cup Evictions(f[i - 1], size)
  <2>1. f = [i \in 0 .. n |-> F(i)] BY EvictedUpToDef
  <2> HIDE DEF f
  <2>2. \A i \in 0 .. n : f[i] = F(i)
    <3> HIDE DEF F
    <3> QED BY <2>1
  <2> QED BY <2>2
<1> HIDE DEF f
<1>2. 0 \in P
  <2>1. 0 \in 0 .. n BY <1>0
  <2>2. f[0] = {s} BY <1>1, <2>1
  <2> QED BY <2>2, EvictedRefl
<1>3. ASSUME NEW i \in Nat, i \in P PROVE i + 1 \in P
  <2> SUFFICES ASSUME i + 1 <= n, NEW x \in f[i + 1] PROVE Sound(x, half) /\ Evicted(s, x) OBVIOUS
  <2>1. i + 1 \in 0 .. n /\ i + 1 # 0 /\ (i + 1) - 1 = i /\ i <= n BY <1>0
  <2>2. f[i + 1] = f[i] \cup Evictions(f[i], size) BY <1>1, <2>1
  <2>3. \A y \in f[i] : Sound(y, half) /\ Evicted(s, y) BY <1>3, <2>1
  <2>4. CASE x \in f[i] BY <2>3, <2>4
  <2>5. CASE x \in Evictions(f[i], size)
    <3>1. PICK p \in f[i] \X Models : x = RemoveModel(p[1], p[2]) /\ CanBeEvicted(p[1], p[2])
      BY <2>5 DEF Evictions
    <3>2. p[1] \in f[i] /\ p[2] \in Models BY <3>1
    <3>3. Sound(p[1], half) /\ Evicted(s, p[1]) BY <2>3, <3>2
    <3>4. Free(p[1], p[2]) /\ p[1].LoadState[p[2]] \in {"LOADED", "FINISHING"}
      BY <3>1, <3>2, <3>3, CanBeEvictedFree
    <3>5. Sound(x, half) /\ Evicted(p[1], x) BY <3>1, <3>2, <3>3, <3>4, EvictionSound
    <3> QED BY <3>3, <3>5, EvictedTrans
  <2> QED BY <2>2, <2>4, <2>5
<1>4. n \in P
  <2> HIDE DEF P
  <2> QED BY <1>0, <1>2, <1>3, NatInductionOnSets
<1>5. t \in f[n] BY DEF f, MakeSpaceFor
<1> QED BY <1>0, <1>4, <1>5

\* and for the second half, too
LEMMA WithRoomForSound ==
    ASSUME NEW s, NEW m, NEW half, NEW t, Sound(s, half), t \in WithRoomFor(s, m)
    PROVE  Sound(t, half) /\ Evicted(s, t)
<1>1. CASE t = s BY <1>1, EvictedRefl
<1>2. CASE t # s
  <2>1. PICK v \in Models : /\ t = RemoveModel(s, v) /\ Type[v] = "VEHICLE"
                            /\ s.LoadState[v] = "LOADED"
    BY <1>2 DEF WithRoomFor
  <2>2. Free(s, v)
    <3> SUFFICES ASSUME NEW d \in DFFs, v \in Needs(d) PROVE FALSE BY DEF Free
    <3>1. v \in Txds \cup Ifps BY NeedsAreModels
    <3> QED BY <2>1, <3>1 DEF Txds, Ifps
  <2> QED BY <2>1, <2>2, EvictionSound
<1> QED BY <1>1, <1>2

\* One model more
LEMMA SizeWith ==
    ASSUME NEW T, NEW x, T \in SUBSET Models, x \in Models, x \notin T
    PROVE  SizeOf(T \cup {x}) = SizeOf(T) + CdSize[x]
<1> DEFINE U == T \cup {x}
<1>1. U \in SUBSET Models /\ x \in U /\ U \ {x} = T OBVIOUS
<1>2. SizeOf(U \ {x}) = SizeOf(U) - CdSize[x] BY <1>1, SizeWithout
<1>3. SizeOf(U) \in Nat /\ CdSize[x] \in Nat BY <1>1, SizeOfType, DiscAssumption
<1>4. SizeOf(T) = SizeOf(U) - CdSize[x] BY <1>1, <1>2
<1> HIDE DEF U
<1>5. SizeOf(U) = SizeOf(T) + CdSize[x] BY <1>3, <1>4
<1> QED BY <1>5 DEF U

\* What a step may do to the slots of the channels, and to the state of one
Emptier(s, t, c) ==
    /\ t.ms_bLoadingBigModel = s.ms_bLoadingBigModel
    /\ \A d \in Channels :
           /\ d # c => t.ms_channel[d].LoadStatus = s.ms_channel[d].LoadStatus
           /\ t.ms_channel[d].pos = s.ms_channel[d].pos
           /\ t.ms_channel[d].sectorCount = s.ms_channel[d].sectorCount
           /\ Places(t, d) = Places(s, d)
           /\ \A k \in Places(s, d) :
                  /\ t.ms_channel[d].models[k].at = s.ms_channel[d].models[k].at
                  /\ Id(t, d, k) \in {Id(s, d, k), MODEL_INVALID}

\* Two changes are like one
LEMMA EmptierTrans ==
    ASSUME NEW s, NEW t, NEW u, NEW c, Emptier(s, t, c), Emptier(t, u, c)
    PROVE  Emptier(s, u, c)
  BY DEF Emptier

\* What requests and removals do is one
LEMMA ThinnedEmptier ==
    ASSUME NEW s, NEW t, NEW c, Thinned(s, t)
    PROVE  Emptier(s, t, c)
  BY DEF Emptier, Thinned

\* and what leaves the channels alone
LEMMA SameChannelsEmptier ==
    ASSUME NEW s, NEW t, NEW c, t.ms_channel = s.ms_channel,
           t.ms_bLoadingBigModel = s.ms_bLoadingBigModel
    PROVE  Emptier(s, t, c)
  BY DEF Emptier, Places, Id

\* The state of a channel alone does not matter to the books
WithStatus(s, c, v) == [s EXCEPT !.ms_channel[c].LoadStatus = v]

\* Whatever it is
LEMMA WithStatusSound ==
    ASSUME NEW s, NEW c, NEW v, NEW half, Sound(s, half), c \in Channels,
           v \in {"IDLE", "READING", "STARTED", "ERR"}
    PROVE  LET t == WithStatus(s, c, v) IN
           /\ Sound(t, half) /\ Emptier(s, t, c) /\ t.LoadState = s.LoadState
           /\ t.ms_channel[c].LoadStatus = v /\ t.ms_channel[c].models = s.ms_channel[c].models
           /\ \A d \in Channels \ {c} : t.ms_channel[d] = s.ms_channel[d]
           /\ \A d \in Channels : \A k \in Places(s, d) : Id(t, d, k) = Id(s, d, k)
<1> DEFINE ch == [s.ms_channel[c] EXCEPT !.LoadStatus = v]
           chs == [s.ms_channel EXCEPT ![c] = ch]
           t == WithStatus(s, c, v)
<1>0. s \in State /\ s.ms_channel[c] \in Channel /\ s.ms_channel \in [Channels -> Channel]
      /\ LoadedFit(s) /\ RequestsFit(s) /\ MemoryFits(s) /\ NeedsFit(s) /\ SlotsFit(s, half)
  BY DEF Sound, State
<1>1. /\ ch \in Channel /\ ch.LoadStatus = v /\ ch.models = s.ms_channel[c].models
      /\ ch.pos = s.ms_channel[c].pos /\ ch.sectorCount = s.ms_channel[c].sectorCount
  BY <1>0 DEF Channel
<1> HIDE DEF ch
<1>2. /\ chs \in [Channels -> Channel] /\ chs[c] = ch
      /\ \A d \in Channels \ {c} : chs[d] = s.ms_channel[d]
  BY <1>0, <1>1
<1>3. t = [s EXCEPT !.ms_channel = chs] BY <1>0 DEF WithStatus, ch, State
<1> HIDE DEF chs, t
<1>4. /\ t \in State /\ t.LoadState = s.LoadState /\ t.requested = s.requested
      /\ t.ms_numModelsRequested = s.ms_numModelsRequested
      /\ t.ms_memoryUsed = s.ms_memoryUsed
      /\ t.ms_bLoadingBigModel = s.ms_bLoadingBigModel
      /\ t.loaded = s.loaded /\ t.Flags = s.Flags /\ t.ms_channel = chs
  BY <1>0, <1>2, <1>3 DEF State
<1>5. \A d \in Channels :
          /\ t.ms_channel[d].models = s.ms_channel[d].models
          /\ t.ms_channel[d].pos = s.ms_channel[d].pos
          /\ t.ms_channel[d].sectorCount = s.ms_channel[d].sectorCount
          /\ d # c => t.ms_channel[d] = s.ms_channel[d]
  BY <1>1, <1>2, <1>4
<1>6. \A d \in Channels : Places(t, d) = Places(s, d) /\ \A k \in Places(s, d) : Id(t, d, k) = Id(s, d, k)
  BY <1>5 DEF Places, Id
<1>7. Emptier(s, t, c) BY <1>4, <1>5, <1>6 DEF Emptier
<1>8. LoadedFit(t) BY <1>0, <1>4 DEF LoadedFit, IsMissionOrGameRequired
<1>9. RequestsFit(t) /\ MemoryFits(t) /\ NeedsFit(t)
  BY <1>0, <1>4 DEF RequestsFit, MemoryFits, LoadedModels, NeedsFit
<1>10. SlotsFit(t, half)
  BY <1>0, <1>4, <1>5, <1>6 DEF SlotsFit
<1>11. Sound(t, half) BY <1>4, <1>8, <1>9, <1>10 DEF Sound
<1> QED BY <1>1, <1>2, <1>4, <1>5, <1>6, <1>7, <1>11 DEF t

-----------------------------------------------------------------------------
(* From a read to objects                                                  *)

\* A slot whose model is not being read any more is emptied
LEMMA EmptiedSound ==
    ASSUME NEW s, NEW c, NEW i, NEW half, Sound(s, half), c \in Channels, i \in Places(s, c),
           half \in {NoPlace, <<c, i>>},
           Id(s, c, i) # MODEL_INVALID => s.LoadState[Id(s, c, i)] \notin {"READING", "FINISHING"}
    PROVE  LET t == Emptied(s, c, i) IN
           /\ Sound(t, NoPlace) /\ Emptier(s, t, c) /\ t.LoadState = s.LoadState
           /\ t.ms_channel[c].LoadStatus = s.ms_channel[c].LoadStatus
           /\ Id(t, c, i) = MODEL_INVALID
<1> DEFINE q == s.ms_channel[c].models
           slot == [q[i] EXCEPT !.id = MODEL_INVALID]
           r == [q EXCEPT ![i] = slot]
           ch == [s.ms_channel[c] EXCEPT !.models = r]
           chs == [s.ms_channel EXCEPT ![c] = ch]
           t == Emptied(s, c, i)
<1>0. /\ s \in State /\ s.ms_channel[c] \in Channel /\ s.ms_channel \in [Channels -> Channel]
      /\ LoadedFit(s) /\ RequestsFit(s) /\ MemoryFits(s) /\ NeedsFit(s) /\ SlotsFit(s, half)
  BY DEF Sound, State
<1>1. q \in Seq(Slot) /\ Len(q) \in Nat /\ DOMAIN q = 1 .. Len(q) /\ Places(s, c) = DOMAIN q
  BY <1>0, SlotTypes DEF Places
<1>2. q[i] \in Slot BY <1>0, <1>1, SlotTypes
<1>3. slot \in Slot /\ slot.id = MODEL_INVALID /\ slot.at = q[i].at BY <1>2 DEF Slot
<1>t. t = [s EXCEPT !.ms_channel = chs] BY <1>0 DEF Emptied, State
<1>d. \A k \in DOMAIN q : q[k] = s.ms_channel[c].models[k] OBVIOUS
<1> HIDE DEF slot, t
<1>4. /\ r \in Seq(Slot) /\ DOMAIN r = DOMAIN q
      /\ \A k \in DOMAIN q : r[k] = IF k = i THEN slot ELSE q[k]
  <2> HIDE DEF q
  <2>1. \A k \in 1 .. Len(q) : q[k] \in Slot BY <1>1
  <2>2. r \in [1 .. Len(q) -> Slot] BY <1>1, <1>3, <2>1
  <2>3. \A k \in DOMAIN q : r[k] = IF k = i THEN slot ELSE q[k] BY <1>1
  <2>4. r \in Seq(Slot)
    <3> HIDE DEF r
    <3> QED BY <1>1, <2>2
  <2> QED BY <2>2, <2>3, <2>4, <1>1
<1> HIDE DEF r
<1>5. /\ ch \in Channel /\ ch.LoadStatus = s.ms_channel[c].LoadStatus /\ ch.models = r
      /\ ch.pos = s.ms_channel[c].pos /\ ch.sectorCount = s.ms_channel[c].sectorCount
  BY <1>0, <1>4 DEF Channel
<1> HIDE DEF ch
<1>6. /\ chs \in [Channels -> Channel] /\ chs[c] = ch
      /\ \A d \in Channels \ {c} : chs[d] = s.ms_channel[d]
  BY <1>0, <1>5
<1> HIDE DEF chs
<1>7. /\ t \in State /\ t.LoadState = s.LoadState /\ t.requested = s.requested
      /\ t.ms_numModelsRequested = s.ms_numModelsRequested
      /\ t.ms_memoryUsed = s.ms_memoryUsed
      /\ t.ms_bLoadingBigModel = s.ms_bLoadingBigModel
      /\ t.loaded = s.loaded /\ t.Flags = s.Flags /\ t.ms_channel = chs
  BY <1>0, <1>6, <1>t DEF State
<1>8. \A d \in Channels :
          /\ t.ms_channel[d].LoadStatus = s.ms_channel[d].LoadStatus
          /\ t.ms_channel[d].pos = s.ms_channel[d].pos
          /\ t.ms_channel[d].sectorCount = s.ms_channel[d].sectorCount
          /\ Places(t, d) = Places(s, d)
  BY <1>1, <1>4, <1>5, <1>6, <1>7 DEF Places
<1>9. \A d \in Channels : \A k \in Places(s, d) :
          /\ t.ms_channel[d].models[k].at = s.ms_channel[d].models[k].at
          /\ Id(t, d, k) = IF d = c /\ k = i THEN MODEL_INVALID ELSE Id(s, d, k)
  <2> SUFFICES ASSUME NEW d \in Channels, NEW k \in Places(s, d)
               PROVE  /\ t.ms_channel[d].models[k].at = s.ms_channel[d].models[k].at
                      /\ Id(t, d, k) = IF d = c /\ k = i THEN MODEL_INVALID ELSE Id(s, d, k)
    OBVIOUS
  <2>1. CASE d # c BY <1>6, <1>7, <2>1 DEF Id
  <2>2. CASE d = c
    <3>1. t.ms_channel[d].models = r BY <1>5, <1>6, <1>7, <2>2
    <3>2. k \in DOMAIN q /\ s.ms_channel[d].models = q BY <2>2 DEF Places
    <3> HIDE DEF q
    <3>3. r[k] = IF k = i THEN slot ELSE q[k] BY <1>4, <3>2
    <3> QED BY <1>1, <1>3, <2>2, <3>1, <3>2, <3>3 DEF Id
  <2> QED BY <2>1, <2>2
<1>10. Emptier(s, t, c) BY <1>7, <1>8, <1>9 DEF Emptier
<1>11. LoadedFit(t) BY <1>0, <1>7 DEF LoadedFit, IsMissionOrGameRequired
<1>12. RequestsFit(t) /\ MemoryFits(t) /\ NeedsFit(t)
  BY <1>0, <1>7 DEF RequestsFit, MemoryFits, LoadedModels, NeedsFit
<1>13. SlotsFit(t, NoPlace)
  <2>1. ASSUME NEW d \in Channels, NEW k \in Places(t, d), Id(t, d, k) # MODEL_INVALID
        PROVE  /\ t.LoadState[Id(t, d, k)] = "READING"
               /\ CdOffset[Id(t, d, k)] = t.ms_channel[d].pos + t.ms_channel[d].models[k].at
               /\ t.ms_channel[d].models[k].at + CdSize[Id(t, d, k)] <= t.ms_channel[d].sectorCount
               /\ \A e \in Channels : \A l \in Places(t, e) :
                      Id(t, e, l) = Id(t, d, k) => e = d /\ l = k
    <3>1. k \in Places(s, d) /\ Id(t, d, k) = Id(s, d, k) /\ ~(d = c /\ k = i)
      BY <1>8, <1>9, <2>1
    <3>2. k # 0 BY <1>0, <3>1, SlotTypes
    <3>3. <<d, k>> # half BY <3>1, <3>2 DEF NoPlace
    <3>4. /\ s.LoadState[Id(s, d, k)] = "READING"
          /\ CdOffset[Id(s, d, k)] = s.ms_channel[d].pos + s.ms_channel[d].models[k].at
          /\ s.ms_channel[d].models[k].at + CdSize[Id(s, d, k)] <= s.ms_channel[d].sectorCount
          /\ \A e \in Channels : \A l \in Places(s, e) :
                 Id(s, e, l) = Id(s, d, k) => e = d /\ l = k
      BY <1>0, <2>1, <3>1, <3>3 DEF SlotsFit
    <3>5. ASSUME NEW e \in Channels, NEW l \in Places(t, e), Id(t, e, l) = Id(t, d, k)
          PROVE  e = d /\ l = k
      <4>1. l \in Places(s, e) /\ Id(s, e, l) = Id(s, d, k) BY <1>8, <1>9, <2>1, <3>1, <3>5
      <4> QED BY <3>4, <4>1
    <3>6. /\ t.ms_channel[d].pos = s.ms_channel[d].pos
          /\ t.ms_channel[d].sectorCount = s.ms_channel[d].sectorCount
          /\ t.ms_channel[d].models[k].at = s.ms_channel[d].models[k].at
      BY <1>8, <1>9, <3>1
    <3> QED BY <1>7, <3>1, <3>4, <3>5, <3>6
  <2>2. ASSUME NEW n \in Models, t.LoadState[n] = "READING"
        PROVE  \E d \in Channels : \E k \in Places(t, d) : Id(t, d, k) = n
    <3>1. s.LoadState[n] = "READING" BY <1>7, <2>2
    <3>2. \E d \in Channels : \E k \in Places(s, d) : Id(s, d, k) = n BY <1>0, <3>1 DEF SlotsFit
    <3>3. PICK d \in Channels : \E k \in Places(s, d) : Id(s, d, k) = n BY <3>2
    <3>4. PICK k \in Places(s, d) : Id(s, d, k) = n BY <3>3
    <3>5. ~(d = c /\ k = i)
      <4>1. n # MODEL_INVALID BY ModelAssumption
      <4> QED BY <3>1, <3>4, <4>1
    <3>6. k \in Places(t, d) /\ Id(t, d, k) = n BY <1>8, <1>9, <3>4, <3>5
    <3> QED BY <3>6
  <2>3. \A n \in Models : t.LoadState[n] # "FINISHING"
    <3> SUFFICES ASSUME NEW n \in Models, s.LoadState[n] = "FINISHING" PROVE FALSE BY <1>7
    <3>1. half # NoPlace /\ Id(s, half[1], half[2]) = n BY <1>0 DEF SlotsFit
    <3>2. Id(s, c, i) = n BY <3>1
    <3> QED BY <3>2, ModelAssumption
  <2> QED BY <2>1, <2>2, <2>3 DEF SlotsFit
<1>14. Sound(t, NoPlace) BY <1>7, <1>11, <1>12, <1>13 DEF Sound
<1> QED BY <1>7, <1>8, <1>9, <1>10, <1>14 DEF t

\* A model that is loaded, or half of it, is counted and listed
LEMMA ConvertedSound ==
    ASSUME NEW s, NEW m, NEW c, NEW i, Sound(s, NoPlace), m \in Models, c \in Channels,
           i \in Places(s, c), Id(s, c, i) = m, s.LoadState[m] = "READING", ~Lacks(s, m),
           s.ms_bLoadingBigModel => IsBig(m)
    PROVE  LET t == Converted(s, m) IN
           /\ Sound(t, <<c, i>>) /\ t.ms_channel = s.ms_channel
           /\ t.ms_bLoadingBigModel = s.ms_bLoadingBigModel
           /\ t.LoadState[m] \in {"LOADED", "FINISHING"}
           /\ t.LoadState[m] = "FINISHING" => s.ms_bLoadingBigModel
<1> DEFINE half == m \in Txds /\ s.ms_bLoadingBigModel
           v == IF half THEN "FINISHING" ELSE "LOADED"
           a == [s.LoadState EXCEPT ![m] = v]
           l == IF m \in Listed /\ ~IsMissionOrGameRequired(s, m) THEN s.loaded \cup {m} ELSE s.loaded
           n == IF half THEN s.ms_memoryUsed ELSE s.ms_memoryUsed + CdSize[m]
           t == Converted(s, m)
<1>0. /\ s \in State /\ s.LoadState \in [Models -> LoadStates] /\ s.ms_memoryUsed \in Int
      /\ LoadedFit(s) /\ RequestsFit(s) /\ MemoryFits(s) /\ NeedsFit(s) /\ SlotsFit(s, NoPlace)
  BY DEF Sound, State
<1>1. CdSize[m] \in Nat BY DiscAssumption
<1>2. a \in [Models -> LoadStates] /\ l \in SUBSET Models /\ n \in Int
  BY <1>0, <1>1 DEF State, LoadStates
<1>3. t = [s EXCEPT !.LoadState = a, !.loaded = l, !.ms_memoryUsed = n]
  BY <1>0 DEF Converted, State
<1>4. \A x \in Models : a[x] = IF x = m THEN v ELSE s.LoadState[x] BY <1>0
<1> HIDE DEF a, l, n, t
<1>5. /\ t \in State /\ t.LoadState = a /\ t.loaded = l /\ t.Flags = s.Flags
      /\ t.requested = s.requested /\ t.ms_numModelsRequested = s.ms_numModelsRequested
      /\ t.ms_memoryUsed = n /\ t.ms_channel = s.ms_channel
      /\ t.ms_bLoadingBigModel = s.ms_bLoadingBigModel
  BY <1>0, <1>2, <1>3 DEF State
<1>6. RequestsFit(t) BY <1>0, <1>4, <1>5 DEF RequestsFit
<1>7. LoadedFit(t)
  BY <1>0, <1>4, <1>5 DEF LoadedFit, IsMissionOrGameRequired, l
<1>8. MemoryFits(t)
  <2>1. CASE half
    <3>1. LoadedModels(t) = LoadedModels(s) BY <1>4, <1>5, <2>1 DEF LoadedModels
    <3> QED BY <1>0, <1>5, <2>1, <3>1 DEF MemoryFits, n
  <2>2. CASE ~half
    <3>1. LoadedModels(t) = LoadedModels(s) \cup {m} /\ m \notin LoadedModels(s)
      BY <1>4, <1>5, <2>2 DEF LoadedModels
    <3>2. LoadedModels(s) \in SUBSET Models BY DEF LoadedModels
    <3>3. SizeOf(LoadedModels(t)) = SizeOf(LoadedModels(s)) + CdSize[m] BY <3>1, <3>2, SizeWith
    <3> QED BY <1>0, <1>5, <2>2, <3>3 DEF MemoryFits, n
  <2> QED BY <2>1, <2>2
<1>9. NeedsFit(t)
  <2> SUFFICES ASSUME NEW d \in DFFs, t.LoadState[d] = "LOADED", NEW x \in Needs(d)
               PROVE  t.LoadState[x] = "LOADED"
    BY DEF NeedsFit
  <2>1. d \in Models /\ x \in Models /\ d \notin Needs(d) BY NeedsAreModels
  <2>2. CASE d = m
    <3>1. s.LoadState[x] = "LOADED" BY <2>2 DEF Lacks
    <3> QED BY <1>4, <1>5, <2>1, <2>2, <3>1
  <2>3. CASE d # m
    <3>1. s.LoadState[d] = "LOADED" BY <1>4, <1>5, <2>1, <2>3
    <3>2. s.LoadState[x] = "LOADED" BY <1>0, <3>1 DEF NeedsFit
    <3>3. x # m BY <3>2
    <3> QED BY <1>4, <1>5, <2>1, <3>2, <3>3
  <2> QED BY <2>2, <2>3
<1>10. SlotsFit(t, <<c, i>>)
  <2>0. \A d \in Channels : Places(t, d) = Places(s, d) /\ \A k \in Places(s, d) : Id(t, d, k) = Id(s, d, k)
    BY <1>5 DEF Places, Id
  <2>1. ASSUME NEW d \in Channels, NEW k \in Places(s, d), Id(s, d, k) # MODEL_INVALID
        PROVE  /\ <<d, k>> # <<c, i>> => t.LoadState[Id(s, d, k)] = "READING"
               /\ CdOffset[Id(s, d, k)] = s.ms_channel[d].pos + s.ms_channel[d].models[k].at
               /\ s.ms_channel[d].models[k].at + CdSize[Id(s, d, k)] <= s.ms_channel[d].sectorCount
               /\ \A e \in Channels : \A j \in Places(s, e) :
                      Id(s, e, j) = Id(s, d, k) => e = d /\ j = k
    <3>1. k # 0 /\ Id(s, d, k) \in Models BY <1>0, <2>1, SlotTypes
    <3>2. <<d, k>> # NoPlace BY <3>1 DEF NoPlace
    <3>3. /\ s.LoadState[Id(s, d, k)] = "READING"
          /\ CdOffset[Id(s, d, k)] = s.ms_channel[d].pos + s.ms_channel[d].models[k].at
          /\ s.ms_channel[d].models[k].at + CdSize[Id(s, d, k)] <= s.ms_channel[d].sectorCount
          /\ \A e \in Channels : \A j \in Places(s, e) :
                 Id(s, e, j) = Id(s, d, k) => e = d /\ j = k
      BY <1>0, <2>1, <3>2 DEF SlotsFit
    <3>4. <<d, k>> # <<c, i>> => Id(s, d, k) # m BY <3>3
    <3> QED BY <1>4, <1>5, <3>1, <3>3, <3>4
  <2>2. \A x \in Models : t.LoadState[x] = "READING" => s.LoadState[x] = "READING"
    BY <1>4, <1>5
  <2>3. i \in Nat BY <1>0, SlotTypes
  <2>4. \A x \in Models : t.LoadState[x] = "FINISHING" => x = m
    <3>1. \A x \in Models : s.LoadState[x] # "FINISHING" BY <1>0 DEF SlotsFit
    <3> QED BY <1>4, <1>5, <3>1
  <2>5. t.LoadState[m] # "READING" BY <1>4, <1>5
  <2>6. \A x \in Models : t.LoadState[x] = "READING" =>
            \E d \in Channels : \E k \in Places(s, d) : Id(s, d, k) = x
    BY <1>0, <2>2 DEF SlotsFit
  <2>7. <<c, i>> \in Channels \X Nat /\ <<c, i>>[1] = c /\ <<c, i>>[2] = i BY <2>3
  <2>8. <<c, i>> # NoPlace BY <1>0, SlotTypes DEF NoPlace
  <2> QED BY <1>5, <2>0, <2>1, <2>4, <2>5, <2>6, <2>7, <2>8 DEF SlotsFit
<1>11. Sound(t, <<c, i>>) BY <1>5, <1>6, <1>7, <1>8, <1>9, <1>10 DEF Sound
<1>12. t.LoadState[m] = v BY <1>4, <1>5
<1> QED BY <1>5, <1>11, <1>12 DEF t

\* Nor does the number of faults
LEMMA FaultCounted ==
    ASSUME NEW s, NEW half, Sound(s, half)
    PROVE  LET t == [s EXCEPT !.faults = @ + 1] IN
           /\ Sound(t, half) /\ t.LoadState = s.LoadState /\ t.ms_channel = s.ms_channel
           /\ t.ms_bLoadingBigModel = s.ms_bLoadingBigModel
<1> DEFINE n == s.faults + 1
           t == [s EXCEPT !.faults = @ + 1]
<1>0. s \in State BY DEF Sound
<1>1. n \in Nat BY <1>0 DEF State
<1>2. t = [s EXCEPT !.faults = n] BY <1>0 DEF State
<1> HIDE DEF t, n
<1>3. /\ t \in State
      /\ t.LoadState = s.LoadState /\ t.requested = s.requested
      /\ t.ms_numModelsRequested = s.ms_numModelsRequested
      /\ t.ms_channel = s.ms_channel /\ t.ms_memoryUsed = s.ms_memoryUsed
      /\ t.ms_bLoadingBigModel = s.ms_bLoadingBigModel
      /\ t.loaded = s.loaded /\ t.Flags = s.Flags
  BY <1>0, <1>1, <1>2 DEF State
<1>4. LoadedFit(t) BY <1>3 DEF Sound, LoadedFit, IsMissionOrGameRequired
<1>5. Sound(t, half) BY <1>3, <1>4, SameStatesSound
<1> QED BY <1>3, <1>5 DEF t

\* A conversion that fails asks for the model again
LEMMA FailedSound ==
    ASSUME NEW s, NEW m, NEW half, NEW t, Sound(s, half), m \in Models, Free(s, m), t \in Failed(s, m)
    PROVE  Sound(t, half) /\ Thinned(s, t) /\ t.LoadState[m] \in {"NOT_LOADED", "REQUESTED"}
<1> DEFINE u == RequestAgain(s, m)
<1>1. t = [u EXCEPT !.faults = @ + 1] BY DEF Failed
<1>2. Sound(u, half) /\ Thinned(s, u) /\ u.LoadState[m] \in {"NOT_LOADED", "REQUESTED"}
  BY RequestAgainSound
<1> HIDE DEF u
<1>3. /\ Sound(t, half) /\ t.LoadState = u.LoadState /\ t.ms_channel = u.ms_channel
      /\ t.ms_bLoadingBigModel = u.ms_bLoadingBigModel
  BY <1>1, <1>2, FaultCounted
<1>4. Thinned(u, t) BY <1>3 DEF Thinned, Places, Id
<1>5. Thinned(s, t) BY <1>2, <1>4, ThinnedTrans
<1> QED BY <1>2, <1>3, <1>5

\* What has become of a model that a channel has read: it is not there any
\* more, or it is the one in a slot that is not being read
LEMMA ConvertBufferToObjectSound ==
    ASSUME NEW s, NEW m, NEW c, NEW i, NEW t, Sound(s, NoPlace), m \in Models, c \in Channels,
           i \in Places(s, c), Id(s, c, i) = m, s.LoadState[m] = "READING",
           s.ms_bLoadingBigModel => IsBig(m), t \in ConvertBufferToObject(s, m)
    PROVE  /\ Emptier(s, t, c) /\ t.ms_channel[c].LoadStatus = s.ms_channel[c].LoadStatus
           /\ \/ Sound(t, NoPlace) /\ t.LoadState[m] \in {"NOT_LOADED", "REQUESTED"}
              \/ Sound(t, <<c, i>>) /\ t.LoadState[m] = "LOADED"
              \/ Sound(t, <<c, i>>) /\ t.LoadState[m] = "FINISHING" /\ s.ms_bLoadingBigModel
<1>1. Free(s, m) BY FreeUnlessLoaded
<1>2. \/ t = RequestAgain(s, m)
      \/ t = RemoveModel(s, m)
      \/ ~Lacks(s, m) /\ t = Converted(s, m)
      \/ t \in Failed(s, m)
  BY DEF ConvertBufferToObject
<1>3. ASSUME Sound(t, NoPlace), Thinned(s, t), t.LoadState[m] \in {"NOT_LOADED", "REQUESTED"}
      PROVE  /\ Emptier(s, t, c) /\ t.ms_channel[c].LoadStatus = s.ms_channel[c].LoadStatus
             /\ Sound(t, NoPlace) /\ t.LoadState[m] \in {"NOT_LOADED", "REQUESTED"}
  <2>1. Emptier(s, t, c) BY <1>3, ThinnedEmptier
  <2>2. SameChannel(s, t, c) BY <1>3, ThinnedSame
  <2> QED BY <1>3, <2>1, <2>2 DEF SameChannel
<1>4. CASE t = RequestAgain(s, m)
  <2>1. Sound(t, NoPlace) /\ Thinned(s, t) /\ t.LoadState[m] \in {"NOT_LOADED", "REQUESTED"}
    BY <1>1, <1>4, RequestAgainSound
  <2> QED BY <1>3, <2>1
<1>5. CASE t = RemoveModel(s, m)
  <2>1. Sound(t, NoPlace) /\ Thinned(s, t) /\ t.LoadState[m] = "NOT_LOADED"
    BY <1>1, <1>5, RemoveModelSound
  <2> QED BY <1>3, <2>1
<1>6. CASE ~Lacks(s, m) /\ t = Converted(s, m)
  <2>1. /\ Sound(t, <<c, i>>) /\ t.ms_channel = s.ms_channel
        /\ t.ms_bLoadingBigModel = s.ms_bLoadingBigModel
        /\ t.LoadState[m] \in {"LOADED", "FINISHING"}
        /\ t.LoadState[m] = "FINISHING" => s.ms_bLoadingBigModel
    BY <1>6, ConvertedSound
  <2>2. Emptier(s, t, c) BY <2>1, SameChannelsEmptier
  <2> QED BY <2>1, <2>2
<1>7. CASE t \in Failed(s, m)
  <2>1. Sound(t, NoPlace) /\ Thinned(s, t) /\ t.LoadState[m] \in {"NOT_LOADED", "REQUESTED"}
    BY <1>1, <1>7, FailedSound
  <2> QED BY <1>3, <2>1
<1> QED BY <1>2, <1>4, <1>5, <1>6, <1>7

\* A slot whose model is not being read is empty, if no half is left
LEMMA EmptyUnlessReading ==
    ASSUME NEW s, NEW c, NEW i, Sound(s, NoPlace), c \in Channels, i \in Places(s, c),
           Id(s, c, i) # MODEL_INVALID
    PROVE  Id(s, c, i) \in Models /\ s.LoadState[Id(s, c, i)] = "READING"
<1>1. i # 0 /\ Id(s, c, i) \in Models \cup {MODEL_INVALID} BY SlotTypes DEF Sound
<1>2. <<c, i>> # NoPlace BY <1>1 DEF NoPlace
<1> QED BY <1>1, <1>2 DEF Sound, SlotsFit

\* A vehicle for which there is no room goes, with its textures
LEMMA DroppedSound ==
    ASSUME NEW s, NEW m, NEW half, Sound(s, half), m \in DFFs, s.LoadState[m] # "LOADED"
    PROVE  LET t == Dropped(s, m) IN
           Sound(t, half) /\ Thinned(s, t) /\ t.LoadState[m] = "NOT_LOADED"
<1> DEFINE u == RemoveModel(s, m)
           x == Txd[m]
           t == Dropped(s, m)
<1> SUFFICES Sound(t, half) /\ Thinned(s, t) /\ t.LoadState[m] = "NOT_LOADED" OBVIOUS
<1>1. t = IF TxdIsReferenced(u, x) THEN u ELSE RemoveModel(u, x) BY DEF Dropped
<1>2. m \in Models /\ x \in Models /\ x \in Txds /\ x # m BY NeedsAreModels
<1>3. Free(s, m) BY <1>2, FreeUnlessLoaded
<1>4. Sound(u, half) /\ Thinned(s, u) /\ u.LoadState[m] = "NOT_LOADED"
  BY <1>2, <1>3, RemoveModelSound
<1> HIDE DEF t, u
<1>5. CASE TxdIsReferenced(u, x) BY <1>1, <1>4, <1>5
<1>6. CASE ~TxdIsReferenced(u, x)
  <2>1. Free(u, x)
    <3> SUFFICES ASSUME NEW d \in DFFs, x \in Needs(d) PROVE u.LoadState[d] # "LOADED" BY DEF Free
    <3>1. Txds \cap Ifps = {} BY DEF Txds, Ifps
    <3>2. x = Txd[d] BY <1>2, <3>1, NeedsAreModels
    <3> QED BY <1>6, <3>2 DEF TxdIsReferenced
  <2> HIDE DEF x
  <2>2. t = RemoveModel(u, x) BY <1>1, <1>6
  <2>3. /\ Sound(t, half) /\ Thinned(u, t)
        /\ \A n \in Models \ {x} :
               \/ t.LoadState[n] = u.LoadState[n]
               \/ u.LoadState[n] = "LOADED" /\ t.LoadState[n] = "NOT_LOADED"
    BY <1>2, <1>4, <2>1, <2>2, RemoveModelSound
  <2>4. t.LoadState[m] = "NOT_LOADED" BY <1>2, <1>4, <2>3
  <2>5. Thinned(s, t) BY <1>4, <2>3, ThinnedTrans
  <2> QED BY <2>3, <2>4, <2>5
<1> QED BY <1>5, <1>6

\* What has become of a channel once one of its models has been turned into
\* an object: the slot is empty, or the model is a big one, half of it loaded
Done(s, t, c, i) ==
    /\ Emptier(s, t, c)
    /\ \/ Sound(t, NoPlace) /\ t.ms_channel[c].LoadStatus = "IDLE" /\ Id(t, c, i) = MODEL_INVALID
       \/ Sound(t, <<c, i>>) /\ t.ms_channel[c].LoadStatus = "STARTED" /\ s.ms_bLoadingBigModel

\* The end of a conversion
Ended(x, c, i, m) ==
    LET y == IF x.LoadState[m] = "FINISHING" THEN WithStatus(x, c, "STARTED") ELSE x IN
    IF x.LoadState[m] = "FINISHING" /\ i = 1 THEN y ELSE Emptied(y, c, i)

\* A conversion ends with an empty slot or with half a model
LEMMA EndedSound ==
    ASSUME NEW s, NEW y, NEW x, NEW c, NEW i, NEW m, Sound(y, NoPlace), m \in Models, c \in Channels,
           i \in Places(y, c), Id(y, c, i) = m, y.LoadState[m] = "READING",
           y.ms_bLoadingBigModel => IsBig(m) /\ i = 1, y.ms_channel[c].LoadStatus = "IDLE",
           x \in ConvertBufferToObject(y, m)
    PROVE  Done(y, Ended(x, c, i, m), c, i)
<1> DEFINE t == Ended(x, c, i, m)
<1> SUFFICES Done(y, t, c, i) OBVIOUS
<1>1. /\ Emptier(y, x, c) /\ x.ms_channel[c].LoadStatus = "IDLE"
      /\ \/ Sound(x, NoPlace) /\ x.LoadState[m] \in {"NOT_LOADED", "REQUESTED"}
         \/ Sound(x, <<c, i>>) /\ x.LoadState[m] = "LOADED"
         \/ Sound(x, <<c, i>>) /\ x.LoadState[m] = "FINISHING" /\ y.ms_bLoadingBigModel
  BY ConvertBufferToObjectSound
<1>2. CASE x.LoadState[m] = "FINISHING"
  <2>1. Sound(x, <<c, i>>) /\ y.ms_bLoadingBigModel /\ i = 1 BY <1>1, <1>2
  <2>2. t = WithStatus(x, c, "STARTED") BY <1>2, <2>1 DEF Ended
  <2> HIDE DEF t
  <2>3. Sound(t, <<c, i>>) /\ Emptier(x, t, c) /\ t.ms_channel[c].LoadStatus = "STARTED"
    BY <2>1, <2>2, WithStatusSound
  <2>4. Emptier(y, t, c) BY <1>1, <2>3, EmptierTrans
  <2> QED BY <2>1, <2>3, <2>4 DEF Done
<1>3. CASE x.LoadState[m] # "FINISHING"
  <2>1. t = Emptied(x, c, i) BY <1>3 DEF Ended
  <2>2. i \in Places(x, c) /\ Id(x, c, i) \in {m, MODEL_INVALID} BY <1>1 DEF Emptier
  <2>3. x.LoadState[m] \notin {"READING", "FINISHING"} BY <1>1, <1>3
  <2>4. \E half \in {NoPlace, <<c, i>>} : Sound(x, half) BY <1>1
  <2>5. PICK half \in {NoPlace, <<c, i>>} : Sound(x, half) BY <2>4
  <2> HIDE DEF t
  <2>6. /\ Sound(t, NoPlace) /\ Emptier(x, t, c)
        /\ t.ms_channel[c].LoadStatus = "IDLE" /\ Id(t, c, i) = MODEL_INVALID
    BY <1>1, <2>1, <2>2, <2>3, <2>5, EmptiedSound
  <2>7. Emptier(y, t, c) BY <1>1, <2>6, EmptierTrans
  <2> QED BY <2>6, <2>7 DEF Done
<1> QED BY <1>2, <1>3

\* One slot: it was empty, or its model is made room for and converted
LEMMA LoadOneSound ==
    ASSUME NEW s, NEW c, NEW i, NEW t, Sound(s, NoPlace), c \in Channels, i \in Places(s, c),
           s.ms_channel[c].LoadStatus = "IDLE",
           s.ms_bLoadingBigModel => i = 1 /\ (Id(s, c, i) # MODEL_INVALID => IsBig(Id(s, c, i))),
           t \in LoadOne(s, c, i)
    PROVE  Done(s, t, c, i)
<1> DEFINE m     == s.ms_channel[c].models[i].id
           space == UNION {IF Type[m] = "IPL" THEN {x} ELSE MakeSpaceFor(x, CdSize[m]) :
                               x \in WithRoomFor(s, m)}
<1>1. m = Id(s, c, i) BY DEF Id
<1>2. CASE m = MODEL_INVALID
  <2>1. t = s BY <1>2 DEF LoadOne
  <2>2. Emptier(s, s, c) BY SameChannelsEmptier
  <2> QED BY <1>1, <1>2, <2>1, <2>2 DEF Done
<1>3. CASE m # MODEL_INVALID
  <2>1. m \in Models /\ s.LoadState[m] = "READING" BY <1>1, <1>3, EmptyUnlessReading
  <2>2. \/ \E x \in UNION {ConvertBufferToObject(y, m) : y \in space} : t = Ended(x, c, i, m)
        \/ Type[m] = "VEHICLE" /\ \E x \in WithRoomFor(s, m) : t = Dropped(x, m)
    BY <1>3 DEF LoadOne, Ended, WithStatus
  <2> HIDE DEF m
  <2>3. ASSUME NEW x, x \in UNION {ConvertBufferToObject(y, m) : y \in space}, t = Ended(x, c, i, m)
        PROVE  Done(s, t, c, i)
    <3>1. PICK y \in space : x \in ConvertBufferToObject(y, m) BY <2>3
    <3>2. PICK z \in WithRoomFor(s, m) : y \in IF Type[m] = "IPL" THEN {z} ELSE MakeSpaceFor(z, CdSize[m])
      BY <3>1
    <3>3. Sound(z, NoPlace) /\ Evicted(s, z) BY <3>2, WithRoomForSound
    <3>4. Sound(y, NoPlace) /\ Evicted(z, y) BY <3>2, <3>3, MakeSpaceForSound, EvictedRefl
    <3>5. Evicted(s, y) BY <3>3, <3>4, EvictedTrans
    <3>6. /\ y.ms_channel = s.ms_channel /\ y.ms_bLoadingBigModel = s.ms_bLoadingBigModel
          /\ y.LoadState[m] = "READING"
      BY <2>1, <3>5 DEF Evicted
    <3>7. i \in Places(y, c) /\ Id(y, c, i) = m /\ y.ms_channel[c].LoadStatus = "IDLE"
      BY <1>1, <3>6 DEF Places, Id
    <3>8. y.ms_bLoadingBigModel => IsBig(m) /\ i = 1 BY <1>1, <1>3, <3>6
    <3>9. Done(y, t, c, i) BY <2>1, <2>3, <3>1, <3>4, <3>6, <3>7, <3>8, EndedSound
    <3>10. Emptier(s, y, c) BY <3>6, SameChannelsEmptier
    <3>11. Emptier(s, t, c) BY <3>9, <3>10, EmptierTrans DEF Done
    <3> QED BY <3>6, <3>9, <3>11 DEF Done
  <2>4. ASSUME NEW x \in WithRoomFor(s, m), t = Dropped(x, m), Type[m] = "VEHICLE"
        PROVE  Done(s, t, c, i)
    <3>1. Sound(x, NoPlace) /\ Evicted(s, x) BY WithRoomForSound
    <3>2. m \in DFFs /\ x.LoadState[m] # "LOADED" BY <2>1, <2>4, <3>1 DEF Evicted, DFFs
    <3>3. Sound(t, NoPlace) /\ Thinned(x, t) /\ t.LoadState[m] = "NOT_LOADED"
      BY <2>4, <3>1, <3>2, DroppedSound
    <3>4. Emptier(s, x, c) BY <3>1, SameChannelsEmptier DEF Evicted
    <3>5. Emptier(x, t, c) BY <3>3, ThinnedEmptier
    <3>6. Emptier(s, t, c) BY <3>4, <3>5, EmptierTrans
    <3>7. t.ms_channel[c].LoadStatus = "IDLE" BY <3>1, <3>3 DEF Thinned, Evicted
    <3>8. i \in Places(t, c) /\ Id(t, c, i) \in {m, MODEL_INVALID} BY <1>1, <3>6 DEF Emptier
    <3>9. Id(t, c, i) = MODEL_INVALID BY <3>3, <3>8, EmptyUnlessReading
    <3> QED BY <3>3, <3>6, <3>7, <3>9 DEF Done
  <2> QED BY <2>2, <2>3, <2>4
<1> QED BY <1>2, <1>3

\* The channel after some of its models
Loading(s, x, c, i) ==
    /\ Emptier(s, x, c)
    /\ \/ /\ Sound(x, NoPlace) /\ x.ms_channel[c].LoadStatus = "IDLE"
          /\ \A k \in Places(s, c) : k <= i => Id(x, c, k) = MODEL_INVALID
       \/ Sound(x, <<c, 1>>) /\ x.ms_channel[c].LoadStatus = "STARTED" /\ s.ms_bLoadingBigModel /\ i = 1

\* The slots of a channel, one after another, from the first
LEMMA LoadedUpToSound ==
    ASSUME NEW s, NEW c, NEW t, NEW n, Sound(s, NoPlace), c \in Channels,
           s.ms_channel[c].LoadStatus = "IDLE", n = Len(s.ms_channel[c].models),
           s.ms_bLoadingBigModel => n <= 1 /\ \A k \in Places(s, c) :
               Id(s, c, k) # MODEL_INVALID => IsBig(Id(s, c, k)),
           t \in LoadedUpTo(s, c, n)[n]
    PROVE  Loading(s, t, c, n)
<1> DEFINE f == LoadedUpTo(s, c, n)
           P == {i \in Nat : i <= n => \A x \in f[i] : Loading(s, x, c, i)}
<1>0. n \in Nat /\ Places(s, c) = 1 .. n BY SlotTypes DEF Sound
<1>1. \A i \in 0 .. n : f[i] = IF i = 0 THEN {s} ELSE UNION {LoadOne(x, c, i) : x \in f[i - 1]}
  <2> DEFINE F(i) == IF i = 0 THEN {s} ELSE UNION {LoadOne(x, c, i) : x \in f[i - 1]}
  <2>0. n \in Nat BY <1>0
  <2>1. f = [i \in 0 .. n |-> F(i)] BY ONLY <2>0, LoadedUpToDef
  <2> HIDE DEF f
  <2>2. \A i \in 0 .. n : f[i] = F(i)
    <3> HIDE DEF F
    <3> QED BY <2>1
  <2> QED BY <2>2
<1>t. t \in f[n] OBVIOUS
<1> HIDE DEF f
<1>2. 0 \in P
  <2>1. 0 \in 0 .. n BY <1>0
  <2>2. f[0] = {s} BY <1>1, <2>1
  <2>3. Emptier(s, s, c) BY SameChannelsEmptier
  <2>4. \A k \in Places(s, c) : ~(k <= 0) BY <1>0
  <2>5. Loading(s, s, c, 0) BY <2>3, <2>4 DEF Loading
  <2> QED BY <2>2, <2>5
<1>3. ASSUME NEW j \in Nat, j \in P PROVE j + 1 \in P
  <2> DEFINE i == j + 1
  <2> SUFFICES ASSUME i <= n, NEW x \in f[i] PROVE Loading(s, x, c, i) OBVIOUS
  <2>1. i \in 0 .. n /\ i # 0 /\ i - 1 = j /\ j <= n /\ i \in 1 .. n BY <1>0
  <2>2. f[i] = UNION {LoadOne(y, c, i) : y \in f[j]} BY <1>1, <2>1
  <2>3. PICK y \in f[j] : x \in LoadOne(y, c, i) BY <2>2
  <2>4. Loading(s, y, c, j) BY <1>3, <2>1, <2>3
  <2>5. s.ms_bLoadingBigModel => i = 1 /\ j = 0 /\ j # 1 BY <1>0, <2>1
  <2> HIDE DEF i
  <2>6. /\ Emptier(s, y, c) /\ Sound(y, NoPlace) /\ y.ms_channel[c].LoadStatus = "IDLE"
        /\ \A k \in Places(s, c) : k <= j => Id(y, c, k) = MODEL_INVALID
    BY <2>4, <2>5 DEF Loading
  <2>7. /\ i \in Places(y, c) /\ y.ms_bLoadingBigModel = s.ms_bLoadingBigModel
        /\ Id(y, c, i) \in {Id(s, c, i), MODEL_INVALID} /\ i \in Places(s, c)
    BY <1>0, <2>1, <2>6 DEF Emptier
  <2>8. y.ms_bLoadingBigModel => i = 1 /\ (Id(y, c, i) # MODEL_INVALID => IsBig(Id(y, c, i)))
    BY <2>5, <2>7
  <2>9. Done(y, x, c, i) BY <2>3, <2>6, <2>7, <2>8, LoadOneSound
  <2>10. Emptier(s, x, c) BY <2>6, <2>9, EmptierTrans DEF Done
  <2>11. CASE Sound(x, NoPlace) /\ x.ms_channel[c].LoadStatus = "IDLE" /\ Id(x, c, i) = MODEL_INVALID
    <3>1. ASSUME NEW k \in Places(s, c), k <= i PROVE Id(x, c, k) = MODEL_INVALID
      <4>1. CASE k = i BY <2>11, <4>1
      <4>2. CASE k # i
        <5>1. k <= j BY <1>0, <2>1, <3>1, <4>2
        <5>2. Id(y, c, k) = MODEL_INVALID /\ k \in Places(y, c) BY <2>6, <5>1 DEF Emptier
        <5> QED BY <2>9, <5>2 DEF Done, Emptier
      <4> QED BY <4>1, <4>2
    <3> QED BY <2>10, <2>11, <3>1 DEF Loading
  <2>12. CASE Sound(x, <<c, i>>) /\ x.ms_channel[c].LoadStatus = "STARTED" /\ y.ms_bLoadingBigModel
    BY <2>5, <2>7, <2>10, <2>12 DEF Loading
  <2> QED BY <2>9, <2>11, <2>12 DEF Done
<1>4. n \in P
  <2> HIDE DEF P
  <2> QED BY <1>0, <1>2, <1>3, NatInductionOnSets
<1> QED BY <1>0, <1>4, <1>t

\* A channel that holds nothing any more gives its slots up
NoModels(s, c) == [s EXCEPT !.ms_channel[c].models = <<>>]

\* What it held is of no model, so nothing is lost
LEMMA NoModelsSound ==
    ASSUME NEW s, NEW c, Sound(s, NoPlace), c \in Channels,
           \A k \in Places(s, c) : Id(s, c, k) = MODEL_INVALID
    PROVE  LET t == NoModels(s, c) IN
           /\ Sound(t, NoPlace) /\ t.ms_bLoadingBigModel = s.ms_bLoadingBigModel
           /\ t.ms_channel[c].models = <<>>
           /\ \A d \in Channels \ {c} : t.ms_channel[d] = s.ms_channel[d]
           /\ \A d \in Channels : SameChannel(s, t, d)
<1> DEFINE ch == [s.ms_channel[c] EXCEPT !.models = <<>>]
           chs == [s.ms_channel EXCEPT ![c] = ch]
           t == NoModels(s, c)
<1>0. /\ s \in State /\ s.ms_channel[c] \in Channel /\ s.ms_channel \in [Channels -> Channel]
      /\ LoadedFit(s) /\ RequestsFit(s) /\ MemoryFits(s) /\ NeedsFit(s) /\ SlotsFit(s, NoPlace)
  BY DEF Sound, State
<1>e. <<>> \in Seq(Slot) OBVIOUS
<1>1. /\ ch \in Channel /\ ch.LoadStatus = s.ms_channel[c].LoadStatus /\ ch.models = <<>>
      /\ ch.pos = s.ms_channel[c].pos /\ ch.sectorCount = s.ms_channel[c].sectorCount
  <2> DEFINE none == <<>>
  <2> none \in Seq(Slot) BY <1>e
  <2> HIDE DEF none
  <2>1. LET h == [s.ms_channel[c] EXCEPT !.models = none] IN
        /\ h \in Channel /\ h.LoadStatus = s.ms_channel[c].LoadStatus /\ h.models = none
        /\ h.pos = s.ms_channel[c].pos /\ h.sectorCount = s.ms_channel[c].sectorCount
    BY <1>0 DEF Channel
  <2> QED BY <2>1 DEF none
<1>2. t = [s EXCEPT !.ms_channel = chs] BY <1>0 DEF NoModels, State
<1> HIDE DEF ch
<1>3. /\ chs \in [Channels -> Channel] /\ chs[c] = ch
      /\ \A d \in Channels \ {c} : chs[d] = s.ms_channel[d]
  BY <1>0, <1>1
<1> HIDE DEF chs, t
<1>4. /\ t \in State /\ t.LoadState = s.LoadState /\ t.requested = s.requested
      /\ t.ms_numModelsRequested = s.ms_numModelsRequested
      /\ t.ms_memoryUsed = s.ms_memoryUsed
      /\ t.ms_bLoadingBigModel = s.ms_bLoadingBigModel
      /\ t.loaded = s.loaded /\ t.Flags = s.Flags /\ t.ms_channel = chs
  BY <1>0, <1>2, <1>3 DEF State
<1>5. /\ \A d \in Channels : SameChannel(s, t, d)
      /\ \A d \in Channels \ {c} : t.ms_channel[d] = s.ms_channel[d]
      /\ t.ms_channel[c].models = <<>>
  BY <1>1, <1>3, <1>4 DEF SameChannel
<1>6. /\ Places(t, c) = {}
      /\ \A d \in Channels \ {c} : Places(t, d) = Places(s, d) /\ \A k \in Places(s, d) : Id(t, d, k) = Id(s, d, k)
  BY <1>5 DEF Places, Id
<1>7. LoadedFit(t) BY <1>0, <1>4 DEF LoadedFit, IsMissionOrGameRequired
<1>8. RequestsFit(t) /\ MemoryFits(t) /\ NeedsFit(t)
  BY <1>0, <1>4 DEF RequestsFit, MemoryFits, LoadedModels, NeedsFit
<1>9. SlotsFit(t, NoPlace)
  <2>1. ASSUME NEW d \in Channels, NEW k \in Places(t, d), Id(t, d, k) # MODEL_INVALID
        PROVE  /\ <<d, k>> # NoPlace => t.LoadState[Id(t, d, k)] = "READING"
               /\ CdOffset[Id(t, d, k)] = t.ms_channel[d].pos + t.ms_channel[d].models[k].at
               /\ t.ms_channel[d].models[k].at + CdSize[Id(t, d, k)] <= t.ms_channel[d].sectorCount
               /\ \A e \in Channels : \A l \in Places(t, e) :
                      Id(t, e, l) = Id(t, d, k) => e = d /\ l = k
    <3>1. d # c BY <1>6, <2>1
    <3>2. k \in Places(s, d) /\ Id(s, d, k) = Id(t, d, k) BY <1>6, <2>1, <3>1
    <3>3. t.ms_channel[d] = s.ms_channel[d] BY <1>5, <3>1
    <3>4. ASSUME NEW e \in Channels, NEW l \in Places(t, e), Id(t, e, l) = Id(t, d, k)
          PROVE  e = d /\ l = k
      <4>1. e # c BY <1>6, <3>4
      <4>2. l \in Places(s, e) /\ Id(s, e, l) = Id(t, e, l) BY <1>6, <3>4, <4>1
      <4> QED BY <1>0, <2>1, <3>2, <3>4, <4>2 DEF SlotsFit
    <3> QED BY <1>0, <1>4, <2>1, <3>2, <3>3, <3>4 DEF SlotsFit
  <2>2. ASSUME NEW m \in Models, t.LoadState[m] = "READING"
        PROVE  \E d \in Channels : \E k \in Places(t, d) : Id(t, d, k) = m
    <3>1. \E d \in Channels : \E k \in Places(s, d) : Id(s, d, k) = m
      BY <1>0, <1>4, <2>2 DEF SlotsFit
    <3>2. PICK d \in Channels : \E k \in Places(s, d) : Id(s, d, k) = m BY <3>1
    <3>3. PICK k \in Places(s, d) : Id(s, d, k) = m BY <3>2
    <3>4. d # c BY <3>3, ModelAssumption
    <3>5. k \in Places(t, d) /\ Id(t, d, k) = m BY <1>6, <3>3, <3>4
    <3> QED BY <3>5
  <2>3. \A m \in Models : t.LoadState[m] # "FINISHING" BY <1>0, <1>4 DEF SlotsFit
  <2> QED BY <2>1, <2>2, <2>3 DEF SlotsFit
<1>10. Sound(t, NoPlace) BY <1>4, <1>7, <1>8, <1>9 DEF Sound
<1> QED BY <1>4, <1>5, <1>10 DEF t

\* No big model is being loaded any more
NotBig(s) == [s EXCEPT !.ms_bLoadingBigModel = FALSE]

\* Whether a big model is being loaded does not matter to the books
LEMMA NotBigSound ==
    ASSUME NEW s, NEW half, Sound(s, half)
    PROVE  LET t == NotBig(s) IN
           Sound(t, half) /\ ~t.ms_bLoadingBigModel /\ t.ms_channel = s.ms_channel
<1> DEFINE t == NotBig(s)
<1>0. /\ s \in State /\ LoadedFit(s) /\ RequestsFit(s) /\ MemoryFits(s) /\ NeedsFit(s) /\ SlotsFit(s, half)
  BY DEF Sound
<1>1. /\ t \in State /\ t.LoadState = s.LoadState /\ t.requested = s.requested
      /\ t.ms_numModelsRequested = s.ms_numModelsRequested
      /\ t.ms_memoryUsed = s.ms_memoryUsed /\ ~t.ms_bLoadingBigModel
      /\ t.loaded = s.loaded /\ t.Flags = s.Flags /\ t.ms_channel = s.ms_channel
  BY <1>0 DEF State, NotBig
<1> HIDE DEF t
<1>2. LoadedFit(t) BY <1>0, <1>1 DEF LoadedFit, IsMissionOrGameRequired
<1>3. RequestsFit(t) /\ MemoryFits(t) /\ NeedsFit(t)
  BY <1>0, <1>1 DEF RequestsFit, MemoryFits, LoadedModels, NeedsFit
<1>4. SlotsFit(t, half) BY <1>0, <1>1, SameSlots
<1> QED BY <1>1, <1>2, <1>3, <1>4 DEF Sound, t

\* How ProcessLoadingChannel leaves a channel: what its models have become
Finished(s, x, c) ==
    /\ Emptier(s, x, c)
    /\ \/ /\ Sound(x, NoPlace) /\ x.ms_channel[c].LoadStatus = "IDLE"
          /\ \A k \in Places(s, c) : Id(x, c, k) = MODEL_INVALID
       \/ /\ Sound(x, <<c, 1>>) /\ x.ms_channel[c].LoadStatus = "STARTED"
          /\ s.ms_bLoadingBigModel /\ Len(s.ms_channel[c].models) = 1

\* The channel is free again, or waits for the second half
LEMMA FinishedFits ==
    ASSUME NEW s, NEW c, NEW x, Fits(s), c \in Channels, s.ms_channel[c].LoadStatus # "IDLE",
           Finished(s, x, c)
    PROVE  LET t == NoBigModel(Cleared(x, c), c) IN
           /\ Fits(t) /\ \A d \in Channels \ {c} : SameChannel(s, t, d)
           /\ t.ms_channel[c].LoadStatus \in {"IDLE", "STARTED"}
<1> DEFINE t == NoBigModel(Cleared(x, c), c)
<1> SUFFICES /\ Fits(t) /\ \A d \in Channels \ {c} : SameChannel(s, t, d)
             /\ t.ms_channel[c].LoadStatus \in {"IDLE", "STARTED"}
  OBVIOUS
<1>0. s \in State /\ ChannelsFit(s) /\ Channels = {0, 1} BY DEF Fits, Sound, Channels
<1>1. s.ms_bLoadingBigModel => c = 0 BY <1>0 DEF ChannelsFit
<1>2. \A d \in Channels \ {c} : SameChannel(s, x, d) BY DEF Finished, Emptier, SameChannel
<1>3. \A d \in Channels : /\ Places(x, d) = Places(s, d)
                          /\ x.ms_channel[d].sectorCount = s.ms_channel[d].sectorCount
  BY DEF Finished, Emptier
<1>4. x \in State /\ x.ms_bLoadingBigModel = s.ms_bLoadingBigModel
  BY DEF Finished, Emptier, Sound
<1>5. \A d \in Channels : x.ms_channel[d].models = <<>> <=> Places(x, d) = {}
  <2> SUFFICES ASSUME NEW d \in Channels PROVE x.ms_channel[d].models = <<>> <=> Places(x, d) = {}
    OBVIOUS
  <2> DEFINE q == x.ms_channel[d].models
  <2>1. q \in Seq(Slot) BY <1>4, SlotTypes
  <2> HIDE DEF q
  <2>2. q = <<>> <=> DOMAIN q = {} BY <2>1
  <2> QED BY <2>2 DEF q, Places
<1>6. \A d \in Channels : s.ms_channel[d].LoadStatus = "IDLE" => Places(x, d) = {}
  BY <1>0, <1>3 DEF ChannelsFit, Places
<1>7. CASE /\ Sound(x, NoPlace) /\ x.ms_channel[c].LoadStatus = "IDLE"
           /\ \A k \in Places(s, c) : Id(x, c, k) = MODEL_INVALID
  <2> DEFINE y == NoModels(x, c)
  <2>1. Cleared(x, c) = y BY <1>7 DEF Cleared, NoModels
  <2>2. /\ Sound(y, NoPlace) /\ y.ms_bLoadingBigModel = s.ms_bLoadingBigModel
        /\ y.ms_channel[c].models = <<>>
        /\ \A d \in Channels \ {c} : y.ms_channel[d] = x.ms_channel[d]
        /\ \A d \in Channels : SameChannel(x, y, d)
    BY <1>3, <1>4, <1>7, NoModelsSound
  <2> HIDE DEF y
  <2>3. CASE ~s.ms_bLoadingBigModel
    <3>1. t = y BY <2>1, <2>2, <2>3 DEF NoBigModel
    <3>2. y.ms_channel[c].LoadStatus = "IDLE" BY <1>7, <2>2 DEF SameChannel
    <3>3. \A d \in Channels : y.ms_channel[d].LoadStatus = "IDLE" => y.ms_channel[d].models = <<>>
      BY <1>2, <1>5, <1>6, <2>2 DEF SameChannel
    <3>4. \A d \in Channels : y.ms_channel[d].LoadStatus # "STARTED"
      BY <1>0, <1>2, <2>2, <2>3, <3>2 DEF SameChannel, ChannelsFit
    <3>5. \A d \in Channels : SameChannel(x, y, d) BY <2>2
    <3>6. \A d \in Channels \ {c} : SameChannel(s, y, d) BY <1>2, <3>5 DEF SameChannel
    <3>7. ChannelsFit(y)
      BY <1>0, <2>2, <2>3, <3>2, <3>3, <3>4, <3>6 DEF ChannelsFit, SameChannel
    <3>8. HalfLoaded(y) = NoPlace BY <1>0, <3>4 DEF HalfLoaded
    <3> QED BY <2>2, <3>1, <3>2, <3>6, <3>7, <3>8 DEF Fits
  <2>4. CASE s.ms_bLoadingBigModel
    <3> DEFINE z == NoModels(y, 1)
               w == NotBig(z)
    <3>1. c = 0 /\ s.ms_channel[1].LoadStatus = "IDLE" BY <1>0, <1>1, <2>4 DEF ChannelsFit
    <3>2. y.ms_channel[0].LoadStatus = "IDLE" /\ y.ms_channel[1].LoadStatus = "IDLE"
      BY <1>0, <1>2, <1>7, <2>2, <3>1 DEF SameChannel
    <3>3. t = w BY <2>1, <2>2, <2>4, <3>1, <3>2 DEF NoBigModel, NoModels, NotBig
    <3>4. Places(y, 1) = {} BY <1>0, <1>6, <2>2, <3>1 DEF Places
    <3>5. /\ Sound(z, NoPlace) /\ z.ms_channel[1].models = <<>>
          /\ z.ms_channel[0] = y.ms_channel[0] /\ \A d \in Channels : SameChannel(y, z, d)
      BY <1>0, <2>2, <3>4, NoModelsSound
    <3> HIDE DEF z
    <3>6. Sound(w, NoPlace) /\ ~w.ms_bLoadingBigModel /\ w.ms_channel = z.ms_channel
      BY <3>5, NotBigSound
    <3> HIDE DEF w, t
    <3>7. /\ w.ms_channel[0].LoadStatus = "IDLE" /\ w.ms_channel[1].LoadStatus = "IDLE"
          /\ w.ms_channel[0].models = <<>> /\ w.ms_channel[1].models = <<>>
      BY <1>0, <2>2, <3>1, <3>2, <3>5, <3>6 DEF SameChannel
    <3>8. ChannelsFit(w) BY <1>0, <3>6, <3>7 DEF ChannelsFit
    <3>9. HalfLoaded(w) = NoPlace BY <3>7 DEF HalfLoaded
    <3>10. SameChannel(s, w, 1)
      BY <1>0, <1>2, <2>2, <3>1, <3>5, <3>6 DEF SameChannel
    <3> QED BY <1>0, <3>1, <3>3, <3>6, <3>7, <3>8, <3>9, <3>10 DEF Fits
  <2> QED BY <2>3, <2>4
<1>8. CASE /\ Sound(x, <<c, 1>>) /\ x.ms_channel[c].LoadStatus = "STARTED"
           /\ s.ms_bLoadingBigModel /\ Len(s.ms_channel[c].models) = 1
  <2>1. t = x BY <1>8 DEF Cleared, NoBigModel
  <2>2. c = 0 /\ x.ms_channel[1].LoadStatus = "IDLE" /\ x.ms_bLoadingBigModel
    BY <1>0, <1>1, <1>2, <1>4, <1>8 DEF ChannelsFit, SameChannel
  <2>3. x.ms_channel[1].models = <<>>
    BY <1>0, <1>2, <1>5, <1>6, <2>2 DEF SameChannel
  <2>4. Places(x, 0) = {1} /\ Len(x.ms_channel[0].models) = 1
    <3>1. Places(s, 0) = 1 .. 1 BY <1>0, <1>8, <2>2, SlotTypes
    <3>2. Places(x, 0) = 1 .. Len(x.ms_channel[0].models) /\ Len(x.ms_channel[0].models) \in Nat
      BY <1>0, <1>4, SlotTypes
    <3> DEFINE l == Len(x.ms_channel[0].models)
    <3>3. l \in Nat /\ 1 .. l = 1 .. 1 BY <1>0, <1>3, <3>1, <3>2
    <3> HIDE DEF l
    <3>4. l = 1
      <4>1. 1 \in 1 .. l BY <3>3
      <4>2. l \in 1 .. l BY <3>3, <4>1
      <4>3. l \in 1 .. 1 BY <3>3, <4>2
      <4> QED BY <4>3
    <3> QED BY <3>2, <3>4 DEF l
  <2>5. \A k \in Places(x, 0) : Id(x, 0, k) # MODEL_INVALID => IsBig(Id(x, 0, k))
    BY <1>0, <1>8, <2>2 DEF Finished, Emptier, ChannelsFit
  <2> HIDE DEF t
  <2>6. ChannelsFit(x) BY <1>0, <1>8, <2>2, <2>3, <2>4, <2>5 DEF ChannelsFit
  <2>7. HalfLoaded(x) = <<c, 1>> BY <1>8, <2>2 DEF HalfLoaded
  <2> QED BY <1>2, <1>8, <2>1, <2>6, <2>7 DEF Fits
<1> QED BY <1>7, <1>8 DEF Finished

\* The second half of a big dictionary is there
LargeFileLoaded(s, m) == [s EXCEPT !.LoadState[m] = "LOADED", !.ms_memoryUsed = @ + CdSize[m]]

\* and the model is loaded: it was counted when it was half there
LEMMA LargeFileLoadedSound ==
    ASSUME NEW s, NEW m, NEW c, NEW i, Sound(s, <<c, i>>), m \in Models, c \in Channels,
           i \in Places(s, c), Id(s, c, i) = m, s.LoadState[m] = "FINISHING"
    PROVE  LET t == LargeFileLoaded(s, m) IN
           /\ Sound(t, <<c, i>>) /\ t.LoadState[m] = "LOADED" /\ Free(t, m)
           /\ t.ms_channel = s.ms_channel /\ t.ms_bLoadingBigModel = s.ms_bLoadingBigModel
<1> DEFINE t == LargeFileLoaded(s, m)
<1>0. /\ s \in State /\ LoadedFit(s) /\ RequestsFit(s) /\ MemoryFits(s) /\ NeedsFit(s)
      /\ SlotsFit(s, <<c, i>>)
  BY DEF Sound
<1>1. CdSize[m] \in Int BY DiscAssumption
<1> DEFINE states == [s.LoadState EXCEPT ![m] = "LOADED"]
           used == s.ms_memoryUsed + CdSize[m]
<1>s. states \in [Models -> LoadStates] /\ used \in Int
  <2>1. s.LoadState \in [Models -> LoadStates] /\ s.ms_memoryUsed \in Int BY <1>0 DEF State
  <2> QED BY <1>1, <2>1 DEF LoadStates
<1>t. t = [s EXCEPT !.LoadState = states, !.ms_memoryUsed = used]
  BY <1>0 DEF LargeFileLoaded, State
<1> HIDE DEF states, used, t
<1>2. /\ t \in State /\ t.LoadState = states
      /\ t.requested = s.requested /\ t.ms_numModelsRequested = s.ms_numModelsRequested
      /\ t.ms_memoryUsed = s.ms_memoryUsed + CdSize[m]
      /\ t.ms_bLoadingBigModel = s.ms_bLoadingBigModel
      /\ t.loaded = s.loaded /\ t.Flags = s.Flags /\ t.ms_channel = s.ms_channel
  <2>1. t \in State /\ t.ms_memoryUsed = used BY <1>0, <1>s, <1>t DEF State
  <2>2. /\ t.LoadState = states /\ t.requested = s.requested
        /\ t.ms_numModelsRequested = s.ms_numModelsRequested
        /\ t.ms_bLoadingBigModel = s.ms_bLoadingBigModel
        /\ t.loaded = s.loaded /\ t.Flags = s.Flags /\ t.ms_channel = s.ms_channel
    BY <1>0, <1>t DEF State
  <2> QED BY <2>1, <2>2 DEF used
<1>3. s.LoadState \in [Models -> LoadStates] BY <1>0 DEF State
<1>4. /\ t.LoadState[m] = "LOADED"
      /\ \A n \in Models \ {m} : t.LoadState[n] = s.LoadState[n]
  BY <1>2, <1>3 DEF states
<1>5. m \in Txds /\ m \notin DFFs BY <1>0 DEF LoadedFit, Txds, DFFs
<1>6. LoadedFit(t)
  BY <1>0, <1>2, <1>4 DEF LoadedFit, IsMissionOrGameRequired
<1>7. {n \in Models : t.LoadState[n] = "REQUESTED"} = {n \in Models : s.LoadState[n] = "REQUESTED"}
  BY <1>4
<1>8. RequestsFit(t) BY <1>0, <1>2, <1>7 DEF RequestsFit
<1>9. MemoryFits(t)
  <2>1. LoadedModels(t) = LoadedModels(s) \cup {m} BY <1>4 DEF LoadedModels
  <2>2. LoadedModels(s) \in SUBSET Models /\ m \notin LoadedModels(s) BY DEF LoadedModels
  <2>3. SizeOf(LoadedModels(t)) = SizeOf(LoadedModels(s)) + CdSize[m] BY <2>1, <2>2, SizeWith
  <2> QED BY <1>0, <1>2, <2>3 DEF MemoryFits
<1>10. NeedsFit(t) BY <1>0, <1>4, <1>5, NeedsAreModels DEF NeedsFit
<1>11. SlotsFit(t, <<c, i>>)
  <2>1. /\ \A d \in Channels : Places(t, d) = Places(s, d) /\ \A k \in Places(s, d) : Id(t, d, k) = Id(s, d, k)
        /\ \A d \in Channels : t.ms_channel[d] = s.ms_channel[d]
    BY <1>2 DEF Places, Id
  <2>2. ASSUME NEW d \in Channels, NEW k \in Places(t, d), Id(t, d, k) # MODEL_INVALID
        PROVE  /\ <<d, k>> # <<c, i>> => t.LoadState[Id(t, d, k)] = "READING"
               /\ CdOffset[Id(t, d, k)] = t.ms_channel[d].pos + t.ms_channel[d].models[k].at
               /\ t.ms_channel[d].models[k].at + CdSize[Id(t, d, k)] <= t.ms_channel[d].sectorCount
               /\ \A e \in Channels : \A l \in Places(t, e) :
                      Id(t, e, l) = Id(t, d, k) => e = d /\ l = k
    <3>1. k \in Places(s, d) /\ Id(s, d, k) = Id(t, d, k) BY <2>1
    <3>2. Id(s, d, k) \in Models BY <1>0, <2>2, <3>1, SlotTypes
    <3>3. ASSUME <<d, k>> # <<c, i>> PROVE t.LoadState[Id(t, d, k)] = "READING"
      <4>1. s.LoadState[Id(s, d, k)] = "READING" BY <1>0, <2>2, <3>1, <3>3 DEF SlotsFit
      <4> QED BY <1>4, <3>1, <3>2, <4>1
    <3> QED BY <1>0, <2>1, <2>2, <3>1, <3>3 DEF SlotsFit
  <2>3. ASSUME NEW n \in Models, t.LoadState[n] = "READING"
        PROVE  \E d \in Channels : \E k \in Places(t, d) : Id(t, d, k) = n
    <3>1. s.LoadState[n] = "READING" BY <1>4, <2>3
    <3>2. \E d \in Channels : \E k \in Places(s, d) : Id(s, d, k) = n BY <1>0, <3>1 DEF SlotsFit
    <3> QED BY <2>1, <3>2
  <2>4. \A n \in Models : t.LoadState[n] # "FINISHING"
    <3> SUFFICES ASSUME NEW n \in Models, t.LoadState[n] = "FINISHING" PROVE FALSE OBVIOUS
    <3>1. n # m /\ s.LoadState[n] = "FINISHING" BY <1>4
    <3>2. Id(s, <<c, i>>[1], <<c, i>>[2]) = n BY <1>0, <3>1 DEF SlotsFit
    <3> QED BY <3>1, <3>2
  <2>5. /\ <<c, i>> \in Channels \X Nat /\ <<c, i>>[2] \in Places(t, <<c, i>>[1])
        /\ Id(t, <<c, i>>[1], <<c, i>>[2]) \in Models
        /\ t.LoadState[Id(t, <<c, i>>[1], <<c, i>>[2])] # "READING"
    <3>1. i \in Nat BY <1>0, SlotTypes
    <3> QED BY <1>4, <2>1, <3>1
  <2> QED BY <2>2, <2>3, <2>4, <2>5 DEF SlotsFit
<1>12. Sound(t, <<c, i>>)
  <2> DEFINE half == <<c, i>>
  <2>1. SlotsFit(t, half) BY <1>11
  <2> HIDE DEF half
  <2>2. Sound(t, half) BY <1>2, <1>6, <1>8, <1>9, <1>10, <2>1 DEF Sound
  <2> QED BY <2>2 DEF half
<1>13. Free(t, m) BY <1>0, <1>4, <1>5 DEF Free, NeedsFit, DFFs
<1> QED BY <1>2, <1>4, <1>12, <1>13 DEF t

\* FinishLoadingLargeFile: the model is there, or it is removed
LEMMA FinishLoadingLargeFileSound ==
    ASSUME NEW s, NEW m, NEW c, NEW i, NEW x, Sound(s, <<c, i>>), m \in Models, c \in Channels,
           i \in Places(s, c), Id(s, c, i) = m, s.LoadState[m] # "READING",
           x \in FinishLoadingLargeFile(s, m)
    PROVE  /\ Sound(x, <<c, i>>) /\ Emptier(s, x, c)
           /\ x.ms_channel[c].LoadStatus = s.ms_channel[c].LoadStatus
           /\ x.LoadState[m] \notin {"READING", "FINISHING"}
<1>1. CASE s.LoadState[m] # "FINISHING"
  <2>1. x = s BY <1>1 DEF FinishLoadingLargeFile
  <2> QED BY <1>1, <2>1, SameChannelsEmptier
<1>2. CASE s.LoadState[m] = "FINISHING"
  <2> DEFINE t == LargeFileLoaded(s, m)
  <2>1. x = t \/ x \in Failed(t, m) BY <1>2 DEF FinishLoadingLargeFile, LargeFileLoaded
  <2>2. /\ Sound(t, <<c, i>>) /\ t.LoadState[m] = "LOADED" /\ Free(t, m)
        /\ t.ms_channel = s.ms_channel /\ t.ms_bLoadingBigModel = s.ms_bLoadingBigModel
    BY <1>2, LargeFileLoadedSound
  <2> HIDE DEF t
  <2>3. Emptier(s, t, c) BY <2>2, SameChannelsEmptier
  <2>4. CASE x = t BY <2>2, <2>3, <2>4
  <2>5. CASE x \in Failed(t, m)
    <3>1. Sound(x, <<c, i>>) /\ Thinned(t, x) /\ x.LoadState[m] \in {"NOT_LOADED", "REQUESTED"}
      BY <2>2, <2>5, FailedSound
    <3>2. Emptier(s, x, c) BY <2>3, <3>1, ThinnedEmptier, EmptierTrans
    <3>3. x.ms_channel[c].LoadStatus = s.ms_channel[c].LoadStatus BY <2>2, <3>1 DEF Thinned
    <3> QED BY <3>1, <3>2, <3>3
  <2> QED BY <2>1, <2>4, <2>5
<1> QED BY <1>1, <1>2

\* ProcessLoadingChannel once a read is over
LEMMA LoadChannelSound ==
    ASSUME NEW s, NEW c, NEW t, Fits(s), c \in Channels, s.ms_channel[c].LoadStatus # "IDLE",
           t \in LoadChannel(s, c)
    PROVE  /\ Fits(t) /\ \A d \in Channels \ {c} : SameChannel(s, t, d)
           /\ t.ms_channel[c].LoadStatus \in {"IDLE", "STARTED"}
<1> DEFINE idle == WithStatus(s, c, "IDLE")
           n == Len(s.ms_channel[c].models)
<1>0. /\ s \in State /\ ChannelsFit(s) /\ Channels = {0, 1} /\ Sound(s, HalfLoaded(s))
      /\ n \in Nat /\ Places(s, c) = 1 .. n
  BY SlotTypes DEF Fits, Sound, Channels
<1>1. /\ Sound(idle, HalfLoaded(s)) /\ Emptier(s, idle, c) /\ idle.LoadState = s.LoadState
      /\ idle.ms_channel[c].LoadStatus = "IDLE" /\ idle.ms_channel[c].models = s.ms_channel[c].models
      /\ \A d \in Channels : \A k \in Places(s, d) : Id(idle, d, k) = Id(s, d, k)
  <2> DEFINE half == HalfLoaded(s)
             v == "IDLE"
  <2>1. Sound(s, half) /\ v \in {"IDLE", "READING", "STARTED", "ERR"} BY <1>0
  <2> HIDE DEF half, v
  <2>2. idle = WithStatus(s, c, v) BY DEF v
  <2> HIDE DEF idle
  <2>3. /\ Sound(idle, half) /\ Emptier(s, idle, c) /\ idle.LoadState = s.LoadState
        /\ idle.ms_channel[c].LoadStatus = v /\ idle.ms_channel[c].models = s.ms_channel[c].models
    BY <2>1, <2>2, WithStatusSound
  <2>4. \A d \in Channels \ {c} : idle.ms_channel[d] = s.ms_channel[d]
    BY <1>0, <2>2 DEF WithStatus, State
  <2>5. \A d \in Channels : \A k \in Places(s, d) : Id(idle, d, k) = Id(s, d, k)
    BY <2>3, <2>4 DEF Id
  <2> QED BY <2>3, <2>5 DEF half, v
<1>2. \/ /\ s.ms_channel[c].LoadStatus = "STARTED"
         /\ \E x \in FinishLoadingLargeFile(idle, Id(s, c, 1)) :
                t = NoBigModel(Cleared(Emptied(x, c, 1), c), c)
      \/ /\ s.ms_channel[c].LoadStatus # "STARTED"
         /\ \E x \in LoadedUpTo(idle, c, n)[n] : t = NoBigModel(Cleared(x, c), c)
  BY DEF LoadChannel, WithStatus, Id
<1> HIDE DEF idle, n
<1>3. ASSUME NEW x, Finished(s, x, c), t = NoBigModel(Cleared(x, c), c)
      PROVE  /\ Fits(t) /\ \A d \in Channels \ {c} : SameChannel(s, t, d)
             /\ t.ms_channel[c].LoadStatus \in {"IDLE", "STARTED"}
  BY <1>3, FinishedFits
<1>4. CASE s.ms_channel[c].LoadStatus = "STARTED"
  <2>1. PICK x \in FinishLoadingLargeFile(idle, Id(s, c, 1)) :
            t = NoBigModel(Cleared(Emptied(x, c, 1), c), c)
    BY <1>2, <1>4
  <2>2. c = 0 /\ n = 1 /\ HalfLoaded(s) = <<c, 1>> /\ 1 \in Places(s, c)
    BY <1>0, <1>4 DEF ChannelsFit, HalfLoaded, n
  <2> DEFINE m == Id(s, c, 1)
  <2>3. m \in Models /\ s.LoadState[m] # "READING"
    <3>1. SlotsFit(s, <<c, 1>>) /\ <<c, 1>> # NoPlace BY <1>0, <2>2 DEF Sound, NoPlace
    <3> QED BY <3>1 DEF SlotsFit
  <2>4. 1 \in Places(idle, c) /\ Id(idle, c, 1) = m BY <1>1, <2>2 DEF Emptier
  <2> HIDE DEF m
  <2>5. /\ Sound(x, <<c, 1>>) /\ Emptier(idle, x, c) /\ x.ms_channel[c].LoadStatus = "IDLE"
        /\ x.LoadState[m] \notin {"READING", "FINISHING"}
    BY <1>1, <2>2, <2>3, <2>4, FinishLoadingLargeFileSound DEF m
  <2> DEFINE y == Emptied(x, c, 1)
  <2>6. 1 \in Places(x, c) /\ Id(x, c, 1) \in {m, MODEL_INVALID} BY <2>4, <2>5 DEF Emptier
  <2>7. /\ Sound(y, NoPlace) /\ Emptier(x, y, c) /\ y.ms_channel[c].LoadStatus = "IDLE"
        /\ Id(y, c, 1) = MODEL_INVALID
    BY <2>5, <2>6, EmptiedSound
  <2>8. t = NoBigModel(Cleared(y, c), c) BY <2>1
  <2> HIDE DEF y
  <2>9. Emptier(s, y, c) BY <1>1, <2>5, <2>7, EmptierTrans
  <2>10. \A k \in Places(s, c) : k = 1 BY <1>0, <2>2
  <2>11. Finished(s, y, c) BY <2>7, <2>9, <2>10 DEF Finished
  <2> QED BY <1>3, <2>8, <2>11
<1>5. CASE s.ms_channel[c].LoadStatus # "STARTED"
  <2>1. PICK x \in LoadedUpTo(idle, c, n)[n] : t = NoBigModel(Cleared(x, c), c) BY <1>2, <1>5
  <2>2. HalfLoaded(s) = NoPlace BY <1>0, <1>5 DEF ChannelsFit, HalfLoaded
  <2>3. n = Len(idle.ms_channel[c].models) BY <1>1 DEF n
  <2>4. idle.ms_bLoadingBigModel = s.ms_bLoadingBigModel /\ Places(idle, c) = Places(s, c)
    BY <1>1 DEF Emptier
  <2>5. s.ms_bLoadingBigModel => n <= 1 /\ \A k \in Places(s, c) :
            Id(s, c, k) # MODEL_INVALID => IsBig(Id(s, c, k))
    BY <1>0 DEF ChannelsFit, n
  <2>6. idle.ms_bLoadingBigModel => n <= 1 /\ \A k \in Places(idle, c) :
            Id(idle, c, k) # MODEL_INVALID => IsBig(Id(idle, c, k))
    BY <1>1, <2>4, <2>5
  <2>7. Sound(idle, NoPlace) BY <1>1, <2>2
  <2>8. Loading(idle, x, c, n) BY <1>1, <2>1, <2>3, <2>6, <2>7, LoadedUpToSound
  <2>9. Emptier(s, x, c) BY <1>1, <2>8, EmptierTrans DEF Loading
  <2>10. n = 1 => Len(s.ms_channel[c].models) = 1 BY DEF n
  <2>11. Finished(s, x, c)
    BY <1>0, <2>4, <2>8, <2>9, <2>10 DEF Finished, Loading
  <2> QED BY <1>3, <2>1, <2>11
<1> QED BY <1>4, <1>5

-----------------------------------------------------------------------------
(* What is left to do, and the streams                                     *)

\* Most tasks need no state of their channel
LEMMA QuietTask ==
    ASSUME NEW op, NEW c, op \in Ops, c \in Channels, op \notin {"Again", "Reread"}
    PROVE  IsQuiet(Task(op, c))
  BY DEF IsQuiet, Task, Tasks

\* Lists of such tasks
LEMMA NoTasks == Quiet(<<>>)
<1>1. <<>> \in Seq(Tasks) OBVIOUS
<1>2. \A i \in 1 .. Len(<<>>) : FALSE OBVIOUS
<1> QED BY <1>1, <1>2 DEF Quiet

\* one
LEMMA OneTask ==
    ASSUME NEW x, IsQuiet(x)
    PROVE  Quiet(<<x>>)
<1>1. <<x>> \in Seq(Tasks) BY DEF IsQuiet
<1>2. \A i \in 1 .. Len(<<x>>) : IsQuiet(<<x>>[i]) OBVIOUS
<1> QED BY <1>1, <1>2 DEF Quiet

\* two
LEMMA ThreeTasks ==
    ASSUME NEW x, NEW y, NEW z, IsQuiet(x), IsQuiet(y), IsQuiet(z)
    PROVE  Quiet(<<x, y>>) /\ Quiet(<<x, y, z>>)
<1>1. <<x, y>> \in Seq(Tasks) /\ <<x, y, z>> \in Seq(Tasks) BY DEF IsQuiet
<1>2. \A i \in 1 .. Len(<<x, y>>) : IsQuiet(<<x, y>>[i]) OBVIOUS
<1>3. \A i \in 1 .. Len(<<x, y, z>>) : IsQuiet(<<x, y, z>>[i]) OBVIOUS
<1> QED BY <1>1, <1>2, <1>3 DEF Quiet

\* four
LEMMA FourTasks ==
    ASSUME NEW x, NEW y, NEW z, NEW w, IsQuiet(x), IsQuiet(y), IsQuiet(z), IsQuiet(w)
    PROVE  Quiet(<<x, y, z, w>>)
<1>1. <<x, y, z, w>> \in Seq(Tasks) BY DEF IsQuiet
<1>2. \A i \in 1 .. Len(<<x, y, z, w>>) : IsQuiet(<<x, y, z, w>>[i]) OBVIOUS
<1> QED BY <1>1, <1>2 DEF Quiet

\* and one list after another
LEMMA TasksTogether ==
    ASSUME NEW a, NEW b, Quiet(a), Quiet(b)
    PROVE  Quiet(a \o b)
<1>1. a \in Seq(Tasks) /\ b \in Seq(Tasks) BY DEF Quiet
<1>2. /\ a \o b \in Seq(Tasks) /\ Len(a \o b) = Len(a) + Len(b)
      /\ Len(a) \in Nat /\ Len(b) \in Nat
      /\ \A i \in 1 .. Len(a) + Len(b) : (a \o b)[i] = IF i <= Len(a) THEN a[i] ELSE b[i - Len(a)]
  BY <1>1
<1>3. ASSUME NEW i \in 1 .. Len(a \o b) PROVE IsQuiet((a \o b)[i])
  <2>1. CASE i <= Len(a)
    <3>1. i \in 1 .. Len(a) /\ (a \o b)[i] = a[i] BY <1>2, <2>1
    <3> QED BY <3>1 DEF Quiet
  <2>2. CASE ~(i <= Len(a))
    <3>1. i - Len(a) \in 1 .. Len(b) /\ (a \o b)[i] = b[i - Len(a)] BY <1>2, <2>2
    <3> QED BY <3>1 DEF Quiet
  <2> QED BY <2>1, <2>2
<1> QED BY <1>2, <1>3 DEF Quiet

\* FlushChannels
LEMMA FlushIsQuiet == Quiet(Flush)
<1>0. 0 \in Channels /\ 1 \in Channels BY DEF Channels
<1>1. IsQuiet(Task("Finish", 1)) /\ IsQuiet(Task("Finish", 0)) BY <1>0, QuietTask DEF Ops
<1>2. IsQuiet(Task("Flush", 1)) /\ IsQuiet(Task("Flush", 0)) BY <1>0, QuietTask DEF Ops
<1>3. IsQuiet(Task("Flushed", 0)) BY <1>0, QuietTask DEF Ops
<1> DEFINE p == Task("Finish", 1)
           q == Task("Flush", 0)
           r == Task("Finish", 0)
           u == Task("Flush", 1)
           v == Task("Flushed", 0)
           w == <<p, q, r, u, p, v>>
<1>4. Flush = w BY DEF Flush
<1>5. IsQuiet(p) /\ IsQuiet(q) /\ IsQuiet(r) /\ IsQuiet(u) /\ IsQuiet(v) BY <1>1, <1>2, <1>3
<1> HIDE DEF p, q, r, u, v
<1>6. w \in Seq(Tasks) BY <1>5 DEF IsQuiet
<1>7. \A i \in 1 .. Len(w) : IsQuiet(w[i]) BY <1>5
<1> QED BY <1>4, <1>6, <1>7 DEF Quiet

\* What is left when the first task is done
LEMMA TailIsQuiet ==
    ASSUME TodoFits, todo # <<>>
    PROVE  Quiet(Tail(todo))
<1>1. todo \in Seq(Tasks) BY DEF TodoFits
<1>2. /\ Tail(todo) \in Seq(Tasks) /\ Len(Tail(todo)) = Len(todo) - 1 /\ Len(todo) \in Nat
      /\ \A i \in 1 .. Len(todo) - 1 : Tail(todo)[i] = todo[i + 1]
  BY <1>1
<1>3. ASSUME NEW i \in 1 .. Len(Tail(todo)) PROVE IsQuiet(Tail(todo)[i])
  <2>1. i + 1 \in 1 .. Len(todo) /\ i + 1 # 1 /\ Tail(todo)[i] = todo[i + 1] BY <1>2
  <2> QED BY <2>1 DEF TodoFits
<1> QED BY <1>2, <1>3 DEF Quiet

\* What is left to do fits when no task of it needs a state of its channel
LEMMA QuietFits ==
    ASSUME Quiet(todo'), loop' \in Loops, currentChannel' \in Channels
    PROVE  TodoFits'
  BY DEF TodoFits, Quiet

\* The first task is done, and others are put in its place
LEMMA GoesOn ==
    ASSUME NEW tasks, TodoFits, todo # <<>>, Quiet(tasks), GoesOnWith(tasks),
           loop' \in Loops, currentChannel' \in Channels
    PROVE  TodoFits'
<1>1. Quiet(Tail(todo)) BY TailIsQuiet
<1>2. Quiet(todo') BY <1>1, TasksTogether DEF GoesOnWith
<1> QED BY <1>2, QuietFits

\* A call that takes no part of the call under way leaves what is left to do alone
LEMMA TodoUnchanged ==
    ASSUME TodoFits, UNCHANGED <<todo, loop, currentChannel>>,
           \A c \in Channels : SameChannel(st, st', c)
    PROVE  TodoFits'
<1>1. \A i \in 1 .. Len(todo) : IsQuiet(todo[i]) \/ (i = 1 /\ LoadStatus(todo[i].ch) = "ERR")
  BY DEF TodoFits
<1>2. todo \in Seq(Tasks) BY DEF TodoFits
<1>3. ASSUME NEW i \in 1 .. Len(todo), ~IsQuiet(todo[i])
      PROVE  i = 1 /\ LoadStatus(todo[i].ch)' = "ERR"
  <2>1. todo[i] \in Tasks BY <1>2
  <2>2. todo[i].ch \in Channels BY <2>1 DEF Tasks
  <2>3. i = 1 /\ LoadStatus(todo[i].ch) = "ERR" BY <1>1, <1>3
  <2> QED BY <2>2, <2>3 DEF LoadStatus, SameChannel
<1>4. \A i \in 1 .. Len(todo') : IsQuiet(todo'[i]) \/ (i = 1 /\ LoadStatus(todo[i].ch)' = "ERR")
  BY <1>3
<1> QED BY <1>2, <1>4 DEF TodoFits

\* Nothing moves on the streams or in the channels' states
LEMMA StreamsUnchanged ==
    ASSUME StreamsFit, UNCHANGED <<phase, request, status>>,
           \A c \in Channels : SameChannel(st, st', c)
    PROVE  StreamsFit'
<1>1. ASSUME NEW c \in Channels PROVE StreamFits(c)'
  <2>1. StreamFits(c) /\ SameChannel(st, st', c) BY DEF StreamsFit
  <2> QED BY <2>1 DEF StreamFits, SameChannel, LoadStatus
<1> QED BY <1>1 DEF StreamsFit

\* Something moves in one channel or its stream only
OnlyStream(c) ==
    /\ phase' \in [Channels -> Stream!Service!Phases]
    /\ request' = [d \in Channels |-> request'[d]]
    /\ status' = [d \in Channels |-> status'[d]]
    /\ \A d \in Channels \ {c} :
           phase'[d] = phase[d] /\ request'[d] = request[d] /\ status'[d] = status[d]

\* The streams fit if the one that moves does
LEMMA OneStreamMoves ==
    ASSUME NEW c, c \in Channels, StreamsFit, OnlyStream(c), StreamFits(c)',
           \A d \in Channels \ {c} : SameChannel(st, st', d)
    PROVE  StreamsFit'
<1>1. ASSUME NEW d \in Channels, d # c PROVE StreamFits(d)'
  <2>1. StreamFits(d) /\ SameChannel(st, st', d) BY <1>1 DEF StreamsFit
  <2>2. phase'[d] = phase[d] /\ request'[d] = request[d] /\ status'[d] = status[d]
    BY <1>1 DEF OnlyStream
  <2> QED BY <2>1, <2>2 DEF StreamFits, SameChannel, LoadStatus
<1>2. \A d \in Channels : StreamFits(d)' BY <1>1
<1> QED BY <1>2 DEF StreamsFit, OnlyStream

\* A call to the streaming service, before it is carried out, changes no stream
LEMMA CallKeepsStreams ==
    ASSUME Stream!Call
    PROVE  UNCHANGED <<phase, request, status>>
  BY DEF Stream!Call, Stream!Service!Call

\* CdStreamGetStatus: the stream is busy, or its result is reported and dropped
LEMMA GetStatusAnswers ==
    ASSUME NEW c, c \in Channels, StreamsFit, GetStatus(c)
    PROVE  /\ OnlyStream(c) /\ phase' = phase
           /\ \/ ret'.val \in Busy /\ UNCHANGED <<request, status>>
              \/ /\ phase[c] \in {"idle", "settling"}
                 /\ ret'.val = status[c] /\ status'[c] = "SUCCESS"
<1>1. CASE Stream!ReportBusy(c)
  <2>1. ret'.val \in Busy /\ UNCHANGED <<phase, request, status>>
    BY <1>1 DEF Stream!ReportBusy, Stream!Service!ReportBusy, Stream!Answer, Stream!Service!Answer, Busy
  <2> QED BY <2>1 DEF StreamsFit, OnlyStream
<1>2. CASE Stream!ReportResult(c)
  <2>1. /\ phase[c] \in {"idle", "settling"} /\ ret'.val = status[c] /\ phase' = phase
        /\ status' = [status EXCEPT ![c] = "SUCCESS"]
        /\ request' = [request EXCEPT ![c] = Garbage]
    BY <1>2 DEF Stream!ReportResult, Stream!Service!ReportResult, Stream!Service!Answer
  <2>2. /\ status = [d \in Channels |-> status[d]] /\ request = [d \in Channels |-> request[d]]
        /\ phase \in [Channels -> Stream!Service!Phases]
    BY DEF StreamsFit
  <2>3. /\ status' = [d \in Channels |-> status'[d]] /\ request' = [d \in Channels |-> request'[d]]
        /\ status'[c] = "SUCCESS"
        /\ \A d \in Channels \ {c} : request'[d] = request[d] /\ status'[d] = status[d]
    BY <2>1, <2>2
  <2> QED BY <2>1, <2>2, <2>3 DEF OnlyStream
<1> QED BY <1>1, <1>2 DEF GetStatus

\* A read is accepted, or refused or of no sectors
LEMMA ReadAnswers ==
    ASSUME NEW c, c \in Channels, StreamsFit, NEW s, Read(c, s)
    PROVE  /\ OnlyStream(c)
           /\ \/ /\ phase'[c] = "waiting"
                 /\ request'[c] = [offset |-> s.ms_channel[c].pos, sectors |-> s.ms_channel[c].sectorCount]
              \/ phase'[c] = phase[c] /\ request'[c] = request[c]
<1>0. /\ status = [d \in Channels |-> status[d]] /\ request = [d \in Channels |-> request[d]]
      /\ phase \in [Channels -> Stream!Service!Phases]
      /\ "waiting" \in Stream!Service!Phases
  BY DEF StreamsFit, Stream!Service!Phases
<1> DEFINE r == [offset |-> s.ms_channel[c].pos, sectors |-> s.ms_channel[c].sectorCount]
<1>1. CASE Stream!Accept(c, r)
  <2> HIDE DEF r
  <2>1. /\ phase' = [phase EXCEPT ![c] = "waiting"] /\ request' = [request EXCEPT ![c] = r]
        /\ status' = [status EXCEPT ![c] = "SUCCESS"]
    BY <1>1 DEF Stream!Accept, Stream!Service!Accept
  <2>2. /\ phase' \in [Channels -> Stream!Service!Phases] /\ phase'[c] = "waiting" /\ request'[c] = r
        /\ status' = [d \in Channels |-> status'[d]] /\ request' = [d \in Channels |-> request'[d]]
        /\ \A d \in Channels \ {c} :
               phase'[d] = phase[d] /\ request'[d] = request[d] /\ status'[d] = status[d]
    BY <1>0, <2>1
  <2> QED BY <2>2 DEF OnlyStream, r
<1>2. CASE Stream!AcceptEmpty(c)
  <2>1. UNCHANGED <<phase, request>> /\ status' = [status EXCEPT ![c] = "SUCCESS"]
    BY <1>2 DEF Stream!AcceptEmpty
  <2>2. /\ status' = [d \in Channels |-> status'[d]]
        /\ \A d \in Channels \ {c} : status'[d] = status[d]
    BY <1>0, <2>1
  <2> QED BY <1>0, <2>1, <2>2 DEF OnlyStream
<1>3. CASE Stream!Refuse(c)
  <2>1. UNCHANGED <<phase, request, status>> BY <1>3 DEF Stream!Refuse
  <2> QED BY <1>0, <2>1 DEF OnlyStream
<1> QED BY <1>1, <1>2, <1>3 DEF Read

\* What the books do not look at: the failed channel and the number of faults
SameBooks(s, t) ==
    /\ t \in State /\ t.LoadState = s.LoadState /\ t.requested = s.requested
    /\ t.ms_numModelsRequested = s.ms_numModelsRequested
    /\ t.ms_memoryUsed = s.ms_memoryUsed
    /\ t.ms_bLoadingBigModel = s.ms_bLoadingBigModel
    /\ t.loaded = s.loaded /\ t.Flags = s.Flags /\ t.ms_channel = s.ms_channel

\* so everything fits as it did
LEMMA SameBooksFit ==
    ASSUME NEW s, NEW t, Fits(s), SameBooks(s, t)
    PROVE  Fits(t) /\ \A c \in Channels : SameChannel(s, t, c)
<1> DEFINE half == HalfLoaded(s)
<1>0. /\ LoadedFit(s) /\ RequestsFit(s) /\ MemoryFits(s) /\ NeedsFit(s) /\ SlotsFit(s, half)
      /\ s \in State /\ ChannelsFit(s)
  BY DEF Fits, Sound
<1>1. HalfLoaded(t) = half BY DEF SameBooks, HalfLoaded
<1> HIDE DEF half
<1>2. LoadedFit(t) BY <1>0 DEF LoadedFit, IsMissionOrGameRequired, SameBooks
<1>3. RequestsFit(t) /\ MemoryFits(t) /\ NeedsFit(t)
  BY <1>0 DEF RequestsFit, MemoryFits, LoadedModels, NeedsFit, SameBooks
<1>4. SlotsFit(t, half) BY <1>0, SameSlots DEF SameBooks
<1>5. ChannelsFit(t) BY <1>0 DEF ChannelsFit, SameBooks, Places, Id
<1>6. Sound(t, half) BY <1>2, <1>3, <1>4 DEF Sound, SameBooks
<1> QED BY <1>1, <1>5, <1>6 DEF Fits, SameChannel, SameBooks

\* LoadRequestedModels notes the channel that failed
LEMMA ChannelErrorFits ==
    ASSUME NEW s, NEW e, Fits(s), e \in Channels \cup {-1}
    PROVE  LET t == [s EXCEPT !.ms_channelError = e] IN
           Fits(t) /\ \A c \in Channels : SameChannel(s, t, c)
<1> DEFINE t == [s EXCEPT !.ms_channelError = e]
<1>1. s \in State BY DEF Fits, Sound
<1>2. SameBooks(s, t) BY <1>1 DEF State, SameBooks
<1> HIDE DEF t
<1> QED BY <1>2, SameBooksFit DEF t

\* A read that fails is a fault
LEMMA FaultFits ==
    ASSUME NEW s, Fits(s)
    PROVE  LET t == [s EXCEPT !.faults = @ + 1] IN
           Fits(t) /\ \A c \in Channels : SameChannel(s, t, c)
<1> DEFINE n == s.faults + 1
           t == [s EXCEPT !.faults = n]
<1>1. s \in State BY DEF Fits, Sound
<1>2. n \in Nat BY <1>1 DEF State
<1> HIDE DEF n
<1>3. SameBooks(s, t) BY <1>1, <1>2 DEF State, SameBooks
<1> HIDE DEF t
<1> QED BY <1>3, SameBooksFit DEF t, n

\* A read that fails or is begun again
LEMMA StatusFits ==
    ASSUME NEW s, NEW c, NEW v, Fits(s), c \in Channels,
           s.ms_channel[c].LoadStatus \in {"READING", "ERR"}, v \in {"READING", "ERR"}
    PROVE  LET t == WithStatus(s, c, v) IN
           /\ Fits(t) /\ t.ms_channel[c].LoadStatus = v
           /\ \A d \in Channels \ {c} : SameChannel(s, t, d)
           /\ t.ms_channel[c].pos = s.ms_channel[c].pos
           /\ t.ms_channel[c].sectorCount = s.ms_channel[c].sectorCount
<1> DEFINE t == WithStatus(s, c, v)
           half == HalfLoaded(s)
<1>v. v \in {"IDLE", "READING", "STARTED", "ERR"} OBVIOUS
<1>0. s \in State /\ ChannelsFit(s) /\ Channels = {0, 1} /\ Sound(s, half)
  BY DEF Fits, Sound, Channels
<1> HIDE DEF half
<1>t. t = WithStatus(s, c, v) OBVIOUS
<1> HIDE DEF t
<1>1. /\ Sound(t, half) /\ Emptier(s, t, c)
      /\ t.ms_channel[c].LoadStatus = v /\ t.ms_channel[c].models = s.ms_channel[c].models
  <2>1. Sound(s, half) BY <1>0
  <2>2. Sound(t, half) /\ Emptier(s, t, c) BY <1>t, <1>v, <2>1, WithStatusSound
  <2>3. t.ms_channel[c].LoadStatus = v /\ t.ms_channel[c].models = s.ms_channel[c].models
    BY <1>0, <1>t DEF WithStatus, State, Channel
  <2> QED BY <2>2, <2>3
<1>2. \A d \in Channels \ {c} : t.ms_channel[d] = s.ms_channel[d]
  BY <1>0, <1>t DEF WithStatus, State
<1>3. /\ \A d \in Channels \ {c} : SameChannel(s, t, d)
      /\ t.ms_channel[c].pos = s.ms_channel[c].pos
      /\ t.ms_channel[c].sectorCount = s.ms_channel[c].sectorCount
      /\ t.ms_bLoadingBigModel = s.ms_bLoadingBigModel
  BY <1>1, <1>2 DEF SameChannel, Emptier
<1>4. HalfLoaded(t) = half BY <1>0, <1>1, <1>2 DEF HalfLoaded, half
<1>5. \A d \in Channels : t.ms_channel[d].models = s.ms_channel[d].models BY <1>1, <1>2
<1>6. \A d \in Channels : Places(t, d) = Places(s, d) /\ \A k \in Places(s, d) : Id(t, d, k) = Id(s, d, k)
  BY <1>5 DEF Places, Id
<1>7. ChannelsFit(t)
  <2>1. \A d \in Channels :
            LET ch == t.ms_channel[d] IN
            /\ ch.LoadStatus = "IDLE" => ch.models = <<>>
            /\ ch.LoadStatus = "STARTED" => d = 0 /\ t.ms_bLoadingBigModel /\ Len(ch.models) = 1
            /\ ch.LoadStatus # "IDLE" /\ ch.sectorCount > ms_streamingBufferSize
               => d = 0 /\ t.ms_bLoadingBigModel
    BY <1>0, <1>1, <1>2, <1>3 DEF ChannelsFit
  <2>2. s.ms_bLoadingBigModel => c = 0 BY <1>0 DEF ChannelsFit
  <2>3. t.ms_bLoadingBigModel =>
            t.ms_channel[0].LoadStatus # "IDLE" /\ t.ms_channel[1].LoadStatus = "IDLE"
    BY <1>0, <1>1, <1>2, <1>3, <2>2 DEF ChannelsFit
  <2>4. t.ms_bLoadingBigModel =>
            /\ Len(t.ms_channel[0].models) <= 1
            /\ \A k \in Places(t, 0) : Id(t, 0, k) # MODEL_INVALID => IsBig(Id(t, 0, k))
    BY <1>0, <1>3, <1>5, <1>6 DEF ChannelsFit
  <2> QED BY <2>1, <2>3, <2>4 DEF ChannelsFit
<1>8. Fits(t) BY <1>1, <1>4, <1>7 DEF Fits
<1> QED BY <1>1, <1>3, <1>8 DEF t

-----------------------------------------------------------------------------
(* The steps                                                               *)

\* Steps that leave the models, the channels and the streams alone
LEMMA OnlyTodo ==
    ASSUME Invariant, todo # <<>>, NEW tasks, Quiet(tasks), GoesOnWith(tasks),
           UNCHANGED <<st, phase, request, status>>, loop' \in Loops, currentChannel' \in Channels
    PROVE  Invariant'
<1>1. TodoFits' BY GoesOn DEF Invariant
<1>2. \A c \in Channels : SameChannel(st, st', c) BY DEF SameChannel
<1>3. StreamsFit' BY <1>2, StreamsUnchanged DEF Invariant
<1> QED BY <1>1, <1>3 DEF Invariant

\* Calls that are over at once
LEMMA ChangesFit ==
    ASSUME Invariant, NEW t, Changes(t), Sound(t, HalfLoaded(st)), Thinned(st, t)
    PROVE  Invariant'
<1>1. Fits(t) BY ThinnedFits DEF Invariant
<1>2. st' = t /\ UNCHANGED <<todo, loop, currentChannel>> /\ Stream!Call BY DEF Changes
<1>3. \A c \in Channels : SameChannel(st, st', c) BY <1>2, ThinnedSame
<1>4. TodoFits' BY <1>2, <1>3, TodoUnchanged DEF Invariant
<1>5. StreamsFit' BY <1>2, <1>3, CallKeepsStreams, StreamsUnchanged DEF Invariant
<1> QED BY <1>1, <1>2, <1>4, <1>5 DEF Invariant

\* The calls of the program
LEMMA CallFits ==
    ASSUME Invariant, Call
    PROVE  Invariant'
<1>0. Sound(st, HalfLoaded(st)) /\ Fits(st) BY DEF Invariant, Fits
<1>1. ASSUME NEW r \in GameRequests, CallRequestModel(r) PROVE Invariant'
  <2>1. r.model \in Models /\ r.flags \in SUBSET Flags BY CallAssumption
  <2> DEFINE t == RequestModel(st, r.model, r.flags)
  <2>2. Changes(t) BY <1>1 DEF CallRequestModel
  <2>3. Sound(t, HalfLoaded(st)) /\ Asked(st, t) BY <1>0, <2>1, RequestModelSound
  <2> HIDE DEF t
  <2> QED BY <2>2, <2>3, AskedThinned, ChangesFit
<1>2. ASSUME NEW m \in GameRemovals, CallRemoveModel(m) PROVE Invariant'
  <2>1. m \in Models BY CallAssumption
  <2> DEFINE t == RemoveModel(st, m)
  <2>2. Changes(t) /\ Free(st, m) BY <1>2 DEF CallRemoveModel, Free
  <2>3. Sound(t, HalfLoaded(st)) /\ Thinned(st, t) BY <1>0, <2>1, <2>2, RemoveModelSound
  <2> HIDE DEF t
  <2> QED BY <2>2, <2>3, ChangesFit
<1>3. ASSUME NEW m \in GameReleases, CallMissionDoesntRequireModel(m) PROVE Invariant'
  <2>1. m \in Models BY CallAssumption
  <2> DEFINE t == SetMissionDoesntRequireModel(st, m)
  <2>2. Changes(t) BY <1>3 DEF CallMissionDoesntRequireModel
  <2>3. Sound(t, HalfLoaded(st)) /\ Thinned(st, t)
    BY <1>0, <2>1, SetMissionDoesntRequireModelSound
  <2> HIDE DEF t
  <2> QED BY <2>2, <2>3, ChangesFit
<1>4. ASSUME CallPurgeRequestList PROVE Invariant'
  <2> DEFINE t == PurgeRequestList(st)
  <2>1. Changes(t) BY <1>4 DEF CallPurgeRequestList
  <2>2. Sound(t, HalfLoaded(st)) /\ Thinned(st, t)
    BY <1>0, RemoveRequestsSound DEF PurgeRequestList
  <2> HIDE DEF t
  <2> QED BY <2>1, <2>2, ChangesFit
<1>5. ASSUME FlushRequestList PROVE Invariant'
  <2> DEFINE t == RemoveRequests(st, Models)
  <2>1. /\ st' = t /\ todo' = Flush /\ loop' = loop /\ currentChannel' = currentChannel
        /\ Stream!Call
    BY <1>5 DEF FlushRequestList
  <2>2. Sound(t, HalfLoaded(st)) /\ Thinned(st, t) BY <1>0, RemoveRequestsSound
  <2> HIDE DEF t
  <2>3. Fits(t) BY <1>0, <2>2, ThinnedFits
  <2>4. \A c \in Channels : SameChannel(st, st', c) BY <2>1, <2>2, ThinnedSame
  <2>5. StreamsFit' BY <2>1, <2>4, CallKeepsStreams, StreamsUnchanged DEF Invariant
  <2>6. loop \in Loops /\ currentChannel \in Channels BY DEF Invariant, TodoFits
  <2>7. TodoFits' BY <2>1, <2>6, FlushIsQuiet, QuietFits
  <2> QED BY <2>1, <2>3, <2>5, <2>7 DEF Invariant
<1>6. ASSUME NEW only \in BOOLEAN, LoadAllRequestedModels(only) PROVE Invariant'
  <2>1. /\ todo' = Flush \o <<Task("Count", 0)>> /\ loop' = [NoLoop EXCEPT !.only = only]
        /\ st' = st /\ currentChannel' = currentChannel /\ Stream!Call
    BY <1>6 DEF LoadAllRequestedModels
  <2>2. 0 \in Channels BY DEF Channels
  <2>3. Quiet(<<Task("Count", 0)>>) BY <2>2, QuietTask, OneTask DEF Ops
  <2>4. Quiet(todo') BY <2>1, <2>3, FlushIsQuiet, TasksTogether
  <2>5. loop' \in Loops BY <2>1, <2>2 DEF NoLoop, Loops
  <2>6. currentChannel \in Channels BY DEF Invariant, TodoFits
  <2>7. TodoFits' BY <2>1, <2>4, <2>5, <2>6, QuietFits
  <2>8. \A c \in Channels : SameChannel(st, st', c) BY <2>1 DEF SameChannel
  <2>9. StreamsFit' BY <2>1, <2>8, CallKeepsStreams, StreamsUnchanged DEF Invariant
  <2> QED BY <2>1, <2>7, <2>9 DEF Invariant
<1> QED BY <1>1, <1>2, <1>3, <1>4, <1>5, <1>6 DEF Call

\* LoadRequestedModels, up to its first task
LEMMA LoadRequestedModelsFits ==
    ASSUME Invariant, LoadRequestedModels
    PROVE  Invariant'
<1> DEFINE cur == IF st.ms_bLoadingBigModel THEN 0 ELSE currentChannel
           other == 1 - cur
<1>1. /\ currentChannel' = cur /\ st' = st /\ loop' = loop /\ Stream!Call
      /\ todo' = <<Task("ProcessBusy", cur), Task("Fill", other), Task("Fill", cur), Task("Switch", cur)>>
  BY DEF LoadRequestedModels
<1>2. loop \in Loops /\ currentChannel \in Channels BY DEF Invariant, TodoFits
<1>3. cur \in Channels /\ other \in Channels BY <1>2 DEF Channels
<1> HIDE DEF cur, other
<1>4. /\ IsQuiet(Task("ProcessBusy", cur)) /\ IsQuiet(Task("Fill", other))
      /\ IsQuiet(Task("Fill", cur)) /\ IsQuiet(Task("Switch", cur))
  BY <1>3, QuietTask DEF Ops
<1>5. Quiet(todo') BY <1>1, <1>4, FourTasks
<1>6. TodoFits' BY <1>1, <1>2, <1>3, <1>5, QuietFits
<1>7. \A c \in Channels : SameChannel(st, st', c) BY <1>1 DEF SameChannel
<1>8. StreamsFit' BY <1>1, <1>7, CallKeepsStreams, StreamsUnchanged DEF Invariant
<1> QED BY <1>1, <1>6, <1>8 DEF Invariant

\* CdStreamGetStatus or CdStreamSync about a channel: the task is over, nothing else
LEMMA SkipsFits ==
    ASSUME Invariant, NEW op, NEW c, NEW states, Skips(op, c, states)
    PROVE  Invariant'
<1>1. loop \in Loops /\ currentChannel \in Channels BY DEF Invariant, TodoFits
<1>2. /\ todo # <<>> /\ GoesOnWith(<<>>) /\ UNCHANGED <<st, currentChannel, loop>> /\ Stream!Call
  BY DEF Skips, Doing
<1> QED BY <1>1, <1>2, NoTasks, CallKeepsStreams, OnlyTodo

\* CdStreamSync returns
LEMMA SyncReturnsFits ==
    ASSUME Invariant, NEW c, c \in Channels, todo # <<>>, NEW tasks, Quiet(tasks),
           GoesOnWith(tasks), Stream!SyncReturns(c), UNCHANGED <<st, currentChannel, loop>>
    PROVE  Invariant'
<1>0. loop \in Loops /\ currentChannel \in Channels /\ StreamsFit /\ TodoFits
  BY DEF Invariant, TodoFits
<1>1. TodoFits' BY <1>0, GoesOn
<1>2. /\ phase[c] = "idle" /\ phase' = phase /\ status' = status
      /\ request' = [request EXCEPT ![c] = Garbage]
  BY DEF Stream!SyncReturns, Stream!Service!SyncReturns
<1>3. request = [d \in Channels |-> request[d]] BY <1>0 DEF StreamsFit
<1>4. request' = [d \in Channels |-> request'[d]] /\ \A d \in Channels \ {c} : request'[d] = request[d]
  BY <1>2, <1>3
<1>5. OnlyStream(c) BY <1>0, <1>2, <1>4 DEF OnlyStream, StreamsFit
<1>6. StreamFits(c)' BY <1>0, <1>2 DEF StreamFits, StreamsFit, LoadStatus
<1>7. \A d \in Channels : SameChannel(st, st', d) BY DEF SameChannel
<1>8. StreamsFit' BY <1>0, <1>5, <1>6, <1>7, OneStreamMoves
<1> QED BY <1>1, <1>8 DEF Invariant

\* ProcessLoadingChannel: what the three answers do to the models and the stream
LEMMA AnswerBusy ==
    ASSUME Invariant, NEW c, c \in Channels, GetStatus(c), ret'.val \in Busy, st' = st
    PROVE  Fits(st)' /\ StreamsFit' /\ \A d \in Channels : SameChannel(st, st', d)
<1>0. StreamsFit /\ Fits(st) BY DEF Invariant
<1>1. /\ OnlyStream(c) /\ phase' = phase
      /\ \/ ret'.val \in Busy /\ UNCHANGED <<request, status>>
         \/ /\ phase[c] \in {"idle", "settling"}
            /\ ret'.val = status[c] /\ status'[c] = "SUCCESS"
  BY <1>0, GetStatusAnswers
<1>2. StreamFits(c)' BY <1>0, <1>1 DEF StreamFits, StreamsFit, LoadStatus
<1>3. \A d \in Channels : SameChannel(st, st', d) BY DEF SameChannel
<1>4. StreamsFit' BY <1>0, <1>1, <1>2, <1>3, OneStreamMoves
<1> QED BY <1>0, <1>3, <1>4

\* The read has failed: the channel notes it
LEMMA AnswerFailure ==
    ASSUME Invariant, NEW c, c \in Channels, GetStatus(c), ret'.val = "READING_FAILURE",
           LoadStatus(c) # "IDLE", NEW e, e \in Channels \cup {-1},
           st' = [WithStatus(st, c, "ERR") EXCEPT !.ms_channelError = e]
    PROVE  Fits(st)' /\ StreamsFit'
<1>0. StreamsFit /\ Fits(st) BY DEF Invariant
<1>1. /\ OnlyStream(c) /\ phase' = phase
      /\ \/ ret'.val \in Busy /\ UNCHANGED <<request, status>>
         \/ /\ phase[c] \in {"idle", "settling"}
            /\ ret'.val = status[c] /\ status'[c] = "SUCCESS"
  BY <1>0, GetStatusAnswers
<1>2. /\ phase[c] \in {"idle", "settling"} /\ status[c] = "READING_FAILURE"
  BY <1>1 DEF Busy
<1>3. LoadStatus(c) \in {"READING", "ERR"}
  <2>1. LoadStatus(c) # "STARTED" BY <1>0, <1>2 DEF StreamsFit, StreamFits
  <2>2. st.ms_channel[c] \in Channel BY <1>0, SlotTypes DEF Fits, Sound
  <2> QED BY <2>1, <2>2 DEF Channel, LoadStatus
<1> DEFINE x == WithStatus(st, c, "ERR")
<1>4. /\ Fits(x) /\ x.ms_channel[c].LoadStatus = "ERR"
      /\ \A d \in Channels \ {c} : SameChannel(st, x, d)
  BY <1>0, <1>3, StatusFits DEF LoadStatus
<1> HIDE DEF x
<1>5. Fits(st') /\ \A d \in Channels : SameChannel(x, st', d) BY <1>4, ChannelErrorFits DEF x
<1>6. LoadStatus(c)' = "ERR" /\ \A d \in Channels \ {c} : SameChannel(st, st', d)
  BY <1>4, <1>5 DEF SameChannel, LoadStatus
<1>7. StreamFits(c)' BY <1>1, <1>2, <1>6 DEF StreamFits
<1>8. StreamsFit' BY <1>0, <1>1, <1>6, <1>7, OneStreamMoves
<1> QED BY <1>5, <1>8

\* The read is over: its models are turned into objects
LEMMA AnswerSuccess ==
    ASSUME Invariant, NEW c, c \in Channels, GetStatus(c), ret'.val = "SUCCESS",
           LoadStatus(c) # "IDLE", st' \in LoadChannel(st, c)
    PROVE  Fits(st)' /\ StreamsFit'
<1>0. StreamsFit /\ Fits(st) BY DEF Invariant
<1>1. /\ OnlyStream(c) /\ phase' = phase
      /\ \/ ret'.val \in Busy /\ UNCHANGED <<request, status>>
         \/ /\ phase[c] \in {"idle", "settling"}
            /\ ret'.val = status[c] /\ status'[c] = "SUCCESS"
  BY <1>0, GetStatusAnswers
<1>2. phase[c] \in {"idle", "settling"} /\ status'[c] = "SUCCESS"
  BY <1>1 DEF Busy
<1>3. /\ Fits(st') /\ \A d \in Channels \ {c} : SameChannel(st, st', d)
  BY <1>0, LoadChannelSound DEF LoadStatus
<1>4. StreamFits(c)' BY <1>1, <1>2 DEF StreamFits
<1>5. StreamsFit' BY <1>0, <1>1, <1>3, <1>4, OneStreamMoves
<1> QED BY <1>3, <1>5

\* so whatever the answer is, everything fits
LEMMA ProcessLoadingChannelFits ==
    ASSUME Invariant, NEW c, c \in Channels, todo # <<>>, LoadStatus(c) # "IDLE",
           ProcessLoadingChannel(c)
    PROVE  Invariant'
<1>0. /\ loop \in Loops /\ currentChannel \in Channels /\ TodoFits /\ GetStatus(c)
      /\ UNCHANGED <<currentChannel, loop>> /\ st \in State
  BY DEF Invariant, TodoFits, ProcessLoadingChannel, Fits, Sound
<1>1. CASE ret'.val \in Busy /\ GoesOnWith(<<>>) /\ UNCHANGED st
  <2>1. Fits(st)' /\ StreamsFit' BY <1>0, <1>1, AnswerBusy
  <2>2. TodoFits' BY <1>0, <1>1, NoTasks, GoesOn
  <2> QED BY <2>1, <2>2 DEF Invariant
<1>2. CASE /\ ret'.val = "READING_FAILURE"
           /\ st' = [st EXCEPT !.ms_channel[c].LoadStatus = "ERR",
                               !.ms_channelError = IF @ = -1 THEN c ELSE @]
           /\ GoesOnWith(IF st.ms_channelError = -1 THEN <<Task("Retry", c)>> ELSE <<>>)
  <2> DEFINE e == IF st.ms_channelError = -1 THEN c ELSE st.ms_channelError
             tasks == IF st.ms_channelError = -1 THEN <<Task("Retry", c)>> ELSE <<>>
  <2>1. e \in Channels \cup {-1} BY <1>0 DEF State
  <2>2. st' = [WithStatus(st, c, "ERR") EXCEPT !.ms_channelError = e]
    BY <1>0, <1>2 DEF WithStatus, State
  <2> HIDE DEF e
  <2>3. Fits(st)' /\ StreamsFit' BY <1>0, <1>2, <2>1, <2>2, AnswerFailure
  <2>4. Quiet(<<Task("Retry", c)>>) BY QuietTask, OneTask DEF Ops
  <2>5. Quiet(tasks) BY <2>4, NoTasks
  <2>6. GoesOnWith(tasks) BY <1>2
  <2> HIDE DEF tasks
  <2>7. TodoFits' BY <1>0, <2>5, <2>6, GoesOn
  <2> QED BY <2>3, <2>7 DEF Invariant
<1>3. CASE ret'.val = "SUCCESS" /\ st' \in LoadChannel(st, c) /\ GoesOnWith(<<>>)
  <2>1. Fits(st)' /\ StreamsFit' BY <1>0, <1>3, AnswerSuccess
  <2>2. TodoFits' BY <1>0, <1>3, NoTasks, GoesOn
  <2> QED BY <2>1, <2>2 DEF Invariant
<1> QED BY <1>1, <1>2, <1>3 DEF ProcessLoadingChannel

\* The task of a channel that was busy when the call began
LEMMA ProcessBusyFits == ASSUME Invariant, NEW c, c \in Channels, ProcessBusy(c) PROVE Invariant'
  BY SkipsFits, ProcessLoadingChannelFits DEF ProcessBusy, Doing

\* The second half of a big dictionary
LEMMA FinishFits == ASSUME Invariant, NEW c, c \in Channels, Finish(c) PROVE Invariant'
  BY SkipsFits, ProcessLoadingChannelFits DEF Finish, Doing

\* FlushChannels, for a channel
LEMMA FlushChannelFits ==
    ASSUME Invariant, NEW c, c \in Channels, FlushChannel(c)
    PROVE  Invariant'
<1>1. Quiet(<<Task("ProcessBusy", c)>>) BY QuietTask, OneTask DEF Ops
<1> DEFINE tasks == <<Task("ProcessBusy", c)>>
<1>2. \/ Skips("Flush", c, {"READING"})
      \/ /\ todo # <<>> /\ GoesOnWith(tasks) /\ Stream!SyncReturns(c)
         /\ UNCHANGED <<st, currentChannel, loop>>
  BY DEF FlushChannel, Doing
<1>3. Quiet(tasks) BY <1>1
<1> HIDE DEF tasks
<1> QED BY <1>2, <1>3, SkipsFits, SyncReturnsFits

\* CdStreamSync waits
LEMMA SyncBusyFits ==
    ASSUME Invariant, NEW c, c \in Channels, SyncBusy(c)
    PROVE  Invariant'
<1>1. \/ Skips("Sync", c, {"READING", "STARTED", "ERR"})
      \/ /\ todo # <<>> /\ GoesOnWith(<<>>) /\ Stream!SyncReturns(c)
         /\ UNCHANGED <<st, currentChannel, loop>>
  BY DEF SyncBusy, Doing
<1> QED BY <1>1, NoTasks, SkipsFits, SyncReturnsFits

\* RequestModelStream and CdStreamRead, for a channel that may be filled
LEMMA FillFits ==
    ASSUME Invariant, NEW c, c \in Channels, Fill(c)
    PROVE  Invariant'
<1>0. loop \in Loops /\ currentChannel \in Channels /\ TodoFits /\ StreamsFit /\ Fits(st)
  BY DEF Invariant, TodoFits
<1>1. ASSUME todo # <<>>, GoesOnWith(<<>>), UNCHANGED <<st, currentChannel, loop>>, Stream!Call
      PROVE  Invariant'
  BY <1>0, <1>1, NoTasks, CallKeepsStreams, OnlyTodo
<1>2. ASSUME NEW posn, NEW ifpsMayLoad, NEW to, to = RequestModelStream(st, c, posn, ifpsMayLoad),
             todo # <<>>, GoesOnWith(<<>>), UNCHANGED <<currentChannel, loop>>,
             LoadStatus(c) = "IDLE", ~st.ms_bLoadingBigModel, st' = to.s,
             IF to.reads THEN Read(c, to.s) ELSE Stream!Call
      PROVE  Invariant'
  <2>1. TodoFits' BY <1>0, <1>2, NoTasks, GoesOn
  <2>2. /\ Fits(to.s) /\ to.reads \in BOOLEAN
        /\ \A d \in Channels \ {c} : SameChannel(st, to.s, d)
        /\ to.reads => to.s.ms_channel[c].LoadStatus = "READING"
        /\ ~to.reads => SameChannel(st, to.s, c)
    BY <1>0, <1>2, RequestModelStreamSound DEF LoadStatus
  <2>3. CASE to.reads
    <3>1. LoadStatus(c)' = "READING" BY <1>2, <2>2, <2>3 DEF LoadStatus
    <3>2. /\ OnlyStream(c)
          /\ \/ /\ phase'[c] = "waiting"
                /\ request'[c] = [offset |-> to.s.ms_channel[c].pos,
                                  sectors |-> to.s.ms_channel[c].sectorCount]
             \/ phase'[c] = phase[c] /\ request'[c] = request[c]
      BY <1>0, <1>2, <2>3, ReadAnswers
    <3>3. phase[c] \notin {"waiting", "reading"} BY <1>0, <1>2 DEF StreamsFit, StreamFits
    <3>4. StreamFits(c)' BY <1>2, <3>1, <3>2, <3>3 DEF StreamFits
    <3>5. StreamsFit' BY <1>0, <1>2, <2>2, <3>2, <3>4, OneStreamMoves
    <3> QED BY <1>2, <2>1, <2>2, <3>5 DEF Invariant
  <2>4. CASE ~to.reads
    <3>1. \A d \in Channels : SameChannel(st, st', d) BY <1>2, <2>2, <2>4
    <3>2. StreamsFit' BY <1>0, <1>2, <2>4, <3>1, CallKeepsStreams, StreamsUnchanged
    <3> QED BY <1>2, <2>1, <2>2, <3>2 DEF Invariant
  <2> QED BY <2>2, <2>3, <2>4
<1> QED BY <1>1, <1>2 DEF Fill, Doing

\* The other channel is the current one
LEMMA SwitchFits ==
    ASSUME Invariant, NEW c, c \in Channels, Switch(c)
    PROVE  Invariant'
<1>0. loop \in Loops BY DEF Invariant, TodoFits
<1>1. /\ todo # <<>> /\ GoesOnWith(<<>>) /\ UNCHANGED <<st, loop>> /\ Stream!Call
      /\ currentChannel' \in {c, 1 - c}
  BY DEF Switch, Doing
<1>2. currentChannel' \in Channels BY <1>1 DEF Channels
<1> QED BY <1>0, <1>1, <1>2, NoTasks, CallKeepsStreams, OnlyTodo

\* The channels are flushed
LEMMA FlushedFits == ASSUME Invariant, Flushed PROVE Invariant'
<1>0. loop \in Loops /\ currentChannel \in Channels BY DEF Invariant, TodoFits
<1>1. todo # <<>> /\ GoesOnWith(<<>>) /\ UNCHANGED <<st, currentChannel, loop>> /\ Stream!Call
  BY DEF Flushed, Doing
<1> QED BY <1>0, <1>1, NoTasks, CallKeepsStreams, OnlyTodo

\* LoadAllRequestedModels
LEMMA CountFits == ASSUME Invariant, Count PROVE Invariant'
<1> DEFINE n == IF 2 * st.ms_numModelsRequested > 10 THEN 2 * st.ms_numModelsRequested ELSE 10
           tasks == <<Task("Round", 0)>>
<1>0. loop \in Loops /\ currentChannel \in Channels /\ st.ms_numModelsRequested \in Int
  BY DEF Invariant, TodoFits, Fits, Sound, State
<1>1. /\ todo # <<>> /\ GoesOnWith(tasks) /\ UNCHANGED <<st, currentChannel>> /\ Stream!Call
      /\ loop' = [loop EXCEPT !.n = n]
  BY DEF Count, Doing
<1>2. n \in Int BY <1>0
<1>3. 0 \in Channels BY DEF Channels
<1>4. Quiet(tasks) BY <1>3, QuietTask, OneTask DEF Ops
<1> HIDE DEF n, tasks
<1>5. loop' \in Loops BY <1>0, <1>1, <1>2 DEF Loops
<1> QED BY <1>0, <1>1, <1>4, <1>5, CallKeepsStreams, OnlyTodo

\* No loop is under way
LEMMA NoLoopType == NoLoop \in Loops
<1>1. 0 \in Channels BY DEF Channels
<1> QED BY <1>1 DEF NoLoop, Loops

\* One round of the loop
LEMMA RoundFits == ASSUME Invariant, Round PROVE Invariant'
<1> DEFINE over == (st.requested = <<>> /\ BothIdle) \/ loop.n <= 0
           c == IF st.ms_bLoadingBigModel THEN 0 ELSE loop.ch
           more == <<Task("Sync", c), Task("ProcessReading", c), Task("After", c)>>
           tasks == IF over THEN Flush ELSE more
<1>0. loop \in Loops /\ currentChannel \in Channels BY DEF Invariant, TodoFits
<1>1. /\ todo # <<>> /\ GoesOnWith(tasks) /\ UNCHANGED <<st, currentChannel>> /\ Stream!Call
      /\ loop' = IF over THEN NoLoop ELSE [loop EXCEPT !.ch = c]
  BY DEF Round, Doing
<1>2. c \in Channels
  <2>1. 0 \in Channels BY DEF Channels
  <2> QED BY <1>0, <2>1 DEF Loops
<1> HIDE DEF c, over
<1>3. Quiet(more)
  <2>1. IsQuiet(Task("Sync", c)) /\ IsQuiet(Task("ProcessReading", c)) /\ IsQuiet(Task("After", c))
    BY <1>2, QuietTask DEF Ops
  <2> QED BY <2>1, ThreeTasks
<1> HIDE DEF more
<1>4. Quiet(tasks) BY <1>3, FlushIsQuiet
<1>5. loop' \in Loops
  <2>1. [loop EXCEPT !.ch = c] \in Loops BY <1>0, <1>2 DEF Loops
  <2> QED BY <1>1, <2>1, NoLoopType
<1> HIDE DEF tasks
<1> QED BY <1>0, <1>1, <1>4, <1>5, CallKeepsStreams, OnlyTodo

\* ProcessLoadingChannel, in the loop
LEMMA ProcessReadingFits ==
    ASSUME Invariant, NEW c, c \in Channels, ProcessReading(c)
    PROVE  Invariant'
<1> DEFINE more == <<Task("ProcessBusy", c), Task("Finish", c)>>
           tasks == IF LoadStatus(c) = "READING" THEN more ELSE <<>>
<1>0. loop \in Loops /\ currentChannel \in Channels BY DEF Invariant, TodoFits
<1>1. /\ todo # <<>> /\ GoesOnWith(tasks) /\ UNCHANGED <<st, currentChannel, loop>> /\ Stream!Call
  BY DEF ProcessReading, Doing
<1>2. Quiet(more)
  <2>1. IsQuiet(Task("ProcessBusy", c)) /\ IsQuiet(Task("Finish", c))
    BY QuietTask DEF Ops
  <2> QED BY <2>1, ThreeTasks
<1> HIDE DEF more
<1>3. Quiet(tasks) BY <1>2, NoTasks
<1> HIDE DEF tasks
<1> QED BY <1>0, <1>1, <1>3, CallKeepsStreams, OnlyTodo

\* What follows it
LEMMA AfterFits ==
    ASSUME Invariant, NEW c, c \in Channels, After(c)
    PROVE  Invariant'
<1> DEFINE d == 1 - c
           more == <<Task("Fill", d), Task("Fill", c), Task("NextRound", c)>>
<1>0. loop \in Loops /\ currentChannel \in Channels BY DEF Invariant, TodoFits
<1>1. /\ todo # <<>> /\ UNCHANGED <<st, currentChannel>> /\ Stream!Call
      /\ \/ GoesOnWith(Flush) /\ loop' = NoLoop
         \/ GoesOnWith(more) /\ loop' = loop
  BY DEF After, Doing
<1>2. d \in Channels BY DEF Channels
<1> HIDE DEF d
<1>3. Quiet(more)
  <2>1. IsQuiet(Task("Fill", d)) /\ IsQuiet(Task("Fill", c)) /\ IsQuiet(Task("NextRound", c))
    BY <1>2, QuietTask DEF Ops
  <2> QED BY <2>1, ThreeTasks
<1> HIDE DEF more
<1> QED BY <1>0, <1>1, <1>3, FlushIsQuiet, NoLoopType, CallKeepsStreams, OnlyTodo

\* The loop goes on, or is over
LEMMA NextRoundFits ==
    ASSUME Invariant, NEW c, c \in Channels, NextRound(c)
    PROVE  Invariant'
<1> DEFINE d == 1 - c
           more == <<Task("Round", 0)>>
           k == loop.n - 1
           next == [loop EXCEPT !.ch = d, !.n = k]
           tasks == IF BothIdle THEN Flush ELSE more
<1>0. loop \in Loops /\ currentChannel \in Channels BY DEF Invariant, TodoFits
<1>1. /\ todo # <<>> /\ UNCHANGED <<st, currentChannel>> /\ Stream!Call /\ GoesOnWith(tasks)
      /\ loop' = IF BothIdle THEN NoLoop ELSE next
  BY DEF NextRound, Doing
<1>2. d \in Channels /\ 0 \in Channels BY DEF Channels
<1>k. k \in Int BY <1>0 DEF Loops
<1> HIDE DEF d, k
<1>3. next \in Loops BY <1>0, <1>2, <1>k DEF Loops
<1> HIDE DEF next
<1>4. Quiet(more) BY <1>2, QuietTask, OneTask DEF Ops
<1> HIDE DEF more
<1>5. Quiet(tasks) /\ loop' \in Loops BY <1>1, <1>3, <1>4, FlushIsQuiet, NoLoopType
<1> HIDE DEF tasks
<1> QED BY <1>0, <1>1, <1>5, CallKeepsStreams, OnlyTodo

\* A channel that has failed is read again
LEMMA AgainFits ==
    ASSUME NEW rest, NEW op, NEW c, Quiet(rest), c \in Channels, op \in Ops,
           todo' = <<Task(op, c)>> \o rest, LoadStatus(c)' = "ERR",
           loop' \in Loops, currentChannel' \in Channels
    PROVE  TodoFits'
<1> DEFINE x == Task(op, c)
<1>1. x \in Tasks /\ x.ch = c BY DEF Task, Tasks
<1>2. todo' = <<x>> \o rest OBVIOUS
<1> HIDE DEF x
<1>3. rest \in Seq(Tasks) BY DEF Quiet
<1>4. <<x>> \in Seq(Tasks) /\ Len(<<x>>) = 1 BY <1>1
<1>5. /\ todo' \in Seq(Tasks) /\ Len(todo') = 1 + Len(rest) /\ Len(rest) \in Nat
      /\ \A i \in 1 .. 1 + Len(rest) : todo'[i] = IF i <= 1 THEN x ELSE rest[i - 1]
  BY <1>2, <1>3, <1>4
<1>6. ASSUME NEW i \in 1 .. Len(todo')
      PROVE  IsQuiet(todo'[i]) \/ (i = 1 /\ LoadStatus(todo[i].ch)' = "ERR")
  <2>1. CASE i = 1
    <3>1. todo'[i] = x BY <1>5, <2>1
    <3> QED BY <1>1, <2>1, <3>1 DEF LoadStatus
  <2>2. CASE i # 1
    <3>1. i - 1 \in 1 .. Len(rest) /\ todo'[i] = rest[i - 1] BY <1>5, <2>2
    <3> QED BY <3>1 DEF Quiet
  <2> QED BY <2>1, <2>2
<1> QED BY <1>5, <1>6 DEF TodoFits

\* RetryLoadFile needs no state of its channel to begin with
LEMMA RetryIsQuiet ==
    ASSUME TodoFits, NEW c, c \in Channels, Doing("Retry", c)
    PROVE  Quiet(todo)
<1>1. todo \in Seq(Tasks) /\ todo # <<>> /\ Head(todo) = Task("Retry", c) BY DEF TodoFits, Doing
<1>2. todo[1] = Task("Retry", c) BY <1>1
<1>3. IsQuiet(Task("Retry", c)) BY QuietTask DEF Ops
<1>4. \A i \in 1 .. Len(todo) : IsQuiet(todo[i]) BY <1>2, <1>3 DEF TodoFits
<1> QED BY <1>1, <1>4 DEF Quiet

\* but does when it reads again
LEMMA AgainNeedsError ==
    ASSUME TodoFits, NEW op, NEW c, op \in {"Again", "Reread"}, c \in Channels, Doing(op, c)
    PROVE  LoadStatus(c) = "ERR"
<1>1. todo \in Seq(Tasks) /\ todo # <<>> /\ Head(todo) = Task(op, c) BY DEF TodoFits, Doing
<1>2. todo[1] = Task(op, c) /\ 1 \in 1 .. Len(todo) BY <1>1
<1>3. ~IsQuiet(todo[1]) /\ todo[1].ch = c BY <1>2 DEF IsQuiet, Task
<1> QED BY <1>2, <1>3 DEF TodoFits

\* RetryLoadFile while the channel is being read
LEMMA RetryReadingFits ==
    ASSUME Invariant, NEW c, c \in Channels, RetryReading(c)
    PROVE  Invariant'
<1>0. /\ loop \in Loops /\ currentChannel \in Channels /\ TodoFits /\ GetStatus(c)
      /\ UNCHANGED <<currentChannel, loop>> /\ st \in State /\ Quiet(todo) /\ todo # <<>>
      /\ LoadStatus(c) = "READING"
  BY RetryIsQuiet DEF Invariant, TodoFits, RetryReading, Fits, Sound, Doing
<1>1. CASE ret'.val \in Busy /\ UNCHANGED <<st, todo>>
  <2>1. Fits(st)' /\ StreamsFit' BY <1>0, <1>1, AnswerBusy
  <2>2. TodoFits' BY <1>0, <1>1, QuietFits
  <2> QED BY <2>1, <2>2 DEF Invariant
<1>2. CASE /\ ret'.val = "READING_FAILURE" /\ UNCHANGED todo
           /\ st' = [st EXCEPT !.ms_channel[c].LoadStatus = "ERR"]
  <2> DEFINE e == st.ms_channelError
  <2>1. e \in Channels \cup {-1} BY <1>0 DEF State
  <2>2. st' = [WithStatus(st, c, "ERR") EXCEPT !.ms_channelError = e]
    BY <1>0, <1>2 DEF WithStatus, State
  <2> HIDE DEF e
  <2>3. Fits(st)' /\ StreamsFit' BY <1>0, <1>2, <2>1, <2>2, AnswerFailure
  <2>4. TodoFits' BY <1>0, <1>2, QuietFits
  <2> QED BY <2>3, <2>4 DEF Invariant
<1>3. CASE /\ ret'.val = "SUCCESS" /\ st' \in LoadChannel(st, c)
           /\ GoesOnWith(<<Task("Finish", c), Task("Continue", c)>>)
  <2>1. Fits(st)' /\ StreamsFit' BY <1>0, <1>3, AnswerSuccess
  <2>2. IsQuiet(Task("Finish", c)) /\ IsQuiet(Task("Continue", c)) BY QuietTask DEF Ops
  <2> DEFINE tasks == <<Task("Finish", c), Task("Continue", c)>>
  <2>3. Quiet(tasks) BY <2>2, ThreeTasks
  <2>4. GoesOnWith(tasks) BY <1>3
  <2> HIDE DEF tasks
  <2>5. TodoFits' BY <1>0, <2>3, <2>4, GoesOn
  <2> QED BY <2>1, <2>5 DEF Invariant
<1> QED BY <1>1, <1>2, <1>3 DEF RetryReading

\* CdStreamGetStatus may drop the result of the read that failed
LEMMA ErrorAnswered ==
    ASSUME Invariant, NEW c, c \in Channels, GetStatus(c), LoadStatus(c) = "ERR", st' = st
    PROVE  Fits(st)' /\ StreamsFit'
<1>0. StreamsFit /\ Fits(st) BY DEF Invariant
<1>1. /\ OnlyStream(c) /\ phase' = phase
      /\ \/ ret'.val \in Busy /\ UNCHANGED <<request, status>>
         \/ /\ phase[c] \in {"idle", "settling"}
            /\ ret'.val = status[c] /\ status'[c] = "SUCCESS"
  BY <1>0, GetStatusAnswers
<1>2. StreamFits(c)' BY <1>0, <1>1 DEF StreamFits, StreamsFit, LoadStatus
<1>3. \A d \in Channels : SameChannel(st, st', d) BY DEF SameChannel
<1>4. StreamsFit' BY <1>0, <1>1, <1>2, <1>3, OneStreamMoves
<1> QED BY <1>0, <1>4

\* while it has failed
LEMMA RetryErrorFits ==
    ASSUME Invariant, NEW c, c \in Channels, RetryError(c)
    PROVE  Invariant'
<1>0. /\ loop \in Loops /\ currentChannel \in Channels /\ TodoFits /\ GetStatus(c)
      /\ UNCHANGED <<st, currentChannel, loop>> /\ Quiet(todo)
      /\ LoadStatus(c) = "ERR"
  BY RetryIsQuiet DEF Invariant, TodoFits, RetryError
<1>1. Fits(st)' /\ StreamsFit' BY <1>0, ErrorAnswered
<1>2. LoadStatus(c)' = "ERR" BY <1>0 DEF LoadStatus
<1>3. \/ todo' = todo
      \/ \E op \in {"Again", "Reread"} : todo' = <<Task(op, c)>> \o todo
  BY DEF RetryError
<1>4. CASE todo' = todo
  <2>1. TodoFits' BY <1>0, <1>4, QuietFits
  <2> QED BY <1>1, <2>1 DEF Invariant
<1>5. ASSUME NEW op \in {"Again", "Reread"}, todo' = <<Task(op, c)>> \o todo PROVE Invariant'
  <2>1. op \in Ops BY DEF Ops
  <2>2. TodoFits' BY <1>0, <1>2, <1>5, <2>1, AgainFits
  <2> QED BY <1>1, <2>2 DEF Invariant
<1> QED BY <1>3, <1>4, <1>5

\* when it begins the read again
LEMMA RetryAgainFits ==
    ASSUME Invariant, NEW c, c \in Channels, RetryAgain(c)
    PROVE  Invariant'
<1>0. /\ loop \in Loops /\ currentChannel \in Channels /\ TodoFits /\ GetStatus(c)
      /\ UNCHANGED <<st, currentChannel, loop>> /\ todo # <<>> /\ Doing("Again", c)
  BY DEF Invariant, TodoFits, RetryAgain, Doing
<1>1. LoadStatus(c) = "ERR" BY <1>0, AgainNeedsError
<1>2. Fits(st)' /\ StreamsFit' BY <1>0, <1>1, ErrorAnswered
<1>3. LoadStatus(c)' = "ERR" BY <1>0, <1>1 DEF LoadStatus
<1>4. GoesOnWith(<<>>) \/ GoesOnWith(<<Task("Reread", c)>>) BY DEF RetryAgain
<1>5. CASE GoesOnWith(<<>>)
  <2>1. TodoFits' BY <1>0, <1>5, NoTasks, GoesOn
  <2> QED BY <1>2, <2>1 DEF Invariant
<1>6. CASE GoesOnWith(<<Task("Reread", c)>>)
  <2>1. Quiet(Tail(todo)) BY <1>0, TailIsQuiet
  <2>2. todo' = <<Task("Reread", c)>> \o Tail(todo) BY <1>6 DEF GoesOnWith
  <2>3. "Reread" \in Ops BY DEF Ops
  <2>4. TodoFits' BY <1>0, <1>3, <2>1, <2>2, <2>3, AgainFits
  <2> QED BY <1>2, <2>4 DEF Invariant
<1> QED BY <1>4, <1>5, <1>6

\* CdStreamRead
LEMMA RetryReadFits ==
    ASSUME Invariant, NEW c, c \in Channels, RetryRead(c)
    PROVE  Invariant'
<1>0. /\ loop \in Loops /\ currentChannel \in Channels /\ TodoFits /\ Fits(st) /\ StreamsFit
      /\ UNCHANGED <<currentChannel, loop>> /\ todo # <<>> /\ GoesOnWith(<<>>)
      /\ Read(c, st) /\ Doing("Reread", c) /\ st' = WithStatus(st, c, "READING")
  BY DEF Invariant, TodoFits, RetryRead, Doing, WithStatus
<1>1. TodoFits' BY <1>0, NoTasks, GoesOn
<1>2. LoadStatus(c) = "ERR" BY <1>0, AgainNeedsError
<1>3. /\ Fits(st)' /\ LoadStatus(c)' = "READING"
      /\ \A d \in Channels \ {c} : SameChannel(st, st', d)
      /\ st'.ms_channel[c].pos = st.ms_channel[c].pos
      /\ st'.ms_channel[c].sectorCount = st.ms_channel[c].sectorCount
  <2>1. st.ms_channel[c].LoadStatus \in {"READING", "ERR"} BY <1>2 DEF LoadStatus
  <2>2. LET t == WithStatus(st, c, "READING") IN
        /\ Fits(t) /\ t.ms_channel[c].LoadStatus = "READING"
        /\ \A d \in Channels \ {c} : SameChannel(st, t, d)
        /\ t.ms_channel[c].pos = st.ms_channel[c].pos
        /\ t.ms_channel[c].sectorCount = st.ms_channel[c].sectorCount
    BY <1>0, <2>1, StatusFits
  <2> QED BY <1>0, <2>2 DEF LoadStatus
<1>4. /\ OnlyStream(c)
      /\ \/ /\ phase'[c] = "waiting"
            /\ request'[c] = [offset |-> st.ms_channel[c].pos, sectors |-> st.ms_channel[c].sectorCount]
         \/ phase'[c] = phase[c] /\ request'[c] = request[c]
  BY <1>0, ReadAnswers
<1>5. StreamFits(c)' BY <1>0, <1>3, <1>4 DEF StreamFits, StreamsFit
<1>6. StreamsFit' BY <1>0, <1>3, <1>4, <1>5, OneStreamMoves
<1> QED BY <1>1, <1>3, <1>6 DEF Invariant

\* and when it goes on
LEMMA RetryContinueFits ==
    ASSUME Invariant, NEW c, c \in Channels, RetryContinue(c)
    PROVE  Invariant'
<1>0. /\ loop \in Loops /\ currentChannel \in Channels /\ TodoFits /\ Fits(st) /\ StreamsFit
      /\ UNCHANGED <<currentChannel, loop>> /\ todo # <<>> /\ GoesOnWith(<<>>)
      /\ st' = [st EXCEPT !.ms_channelError = -1] /\ Stream!Call
  BY DEF Invariant, TodoFits, RetryContinue, Doing
<1>1. TodoFits' BY <1>0, NoTasks, GoesOn
<1>2. Fits(st)' /\ \A d \in Channels : SameChannel(st, st', d)
  <2>1. LET t == [st EXCEPT !.ms_channelError = -1] IN
        Fits(t) /\ \A d \in Channels : SameChannel(st, t, d)
    BY <1>0, ChannelErrorFits
  <2> QED BY <1>0, <2>1
<1>3. StreamsFit' BY <1>0, <1>2, CallKeepsStreams, StreamsUnchanged
<1> QED BY <1>1, <1>2, <1>3 DEF Invariant

\* RetryLoadFile
LEMMA RetryFits == ASSUME Invariant, NEW c, c \in Channels, Retry(c) PROVE Invariant'
  BY RetryReadingFits, RetryErrorFits, RetryAgainFits, RetryReadFits, RetryContinueFits DEF Retry

\* One step of the call under way
LEMMA StepFits == ASSUME Invariant, Step PROVE Invariant'
<1>1. ASSUME NEW c \in Channels,
             \/ ProcessBusy(c) \/ Finish(c) \/ FlushChannel(c) \/ Fill(c) \/ Switch(c)
             \/ SyncBusy(c) \/ ProcessReading(c) \/ After(c) \/ NextRound(c)
             \/ Retry(c)
      PROVE  Invariant'
  BY <1>1, ProcessBusyFits, FinishFits, FlushChannelFits, FillFits, SwitchFits, SyncBusyFits,
     ProcessReadingFits, AfterFits, NextRoundFits, RetryFits
<1> QED BY <1>1, LoadRequestedModelsFits, FlushedFits, CountFits, RoundFits DEF Step

\* The streaming thread: a read begins, ends or fails, and the stream is released
LEMMA ProgressFits ==
    ASSUME Invariant, NEW c, c \in Channels, Progress(c)
    PROVE  Invariant'
<1>0. /\ TodoFits /\ Fits(st) /\ StreamsFit /\ UNCHANGED <<todo, currentChannel, loop>>
      /\ phase \in [Channels -> Stream!Service!Phases] /\ status = [d \in Channels |-> status[d]]
      /\ request = [d \in Channels |-> request[d]] /\ StreamFits(c)
      /\ {"reading", "settling", "idle"} \subseteq Stream!Service!Phases
  BY DEF Invariant, Progress, StreamsFit, Stream!Service!Phases
<1>1. /\ Fits(st)' /\ \A d \in Channels : SameChannel(st, st', d)
  <2>1. CASE st' = st BY <1>0, <2>1 DEF SameChannel
  <2>2. CASE st' = [st EXCEPT !.faults = @ + 1]
    <3>1. LET t == [st EXCEPT !.faults = @ + 1] IN
          Fits(t) /\ \A d \in Channels : SameChannel(st, t, d)
      BY <1>0, FaultFits
    <3> QED BY <2>2, <3>1
  <2> QED BY <2>1, <2>2 DEF Progress
<1>2. TodoFits' BY <1>0, <1>1, TodoUnchanged
<1>3. LoadStatus(c)' = LoadStatus(c) /\ SameChannel(st, st', c) BY <1>1 DEF SameChannel, LoadStatus
<1>4. \/ Stream!Start(c) \/ Stream!Complete(c) \/ Stream!Settle(c)
      \/ Stream!Take(c) \/ Stream!Release(c) \/ Stream!Meet(c)
  BY DEF Progress, Stream!Progress
<1>5. CASE Stream!Start(c)
  <2>1. /\ phase[c] = "waiting" /\ phase' = [phase EXCEPT ![c] = "reading"]
        /\ request' = request /\ status' = status
    BY <1>5 DEF Stream!Start, Stream!Service!Start
  <2>2. /\ phase' \in [Channels -> Stream!Service!Phases] /\ phase'[c] = "reading"
        /\ \A d \in Channels \ {c} : phase'[d] = phase[d]
    BY <1>0, <2>1
  <2>3. OnlyStream(c) BY <1>0, <2>1, <2>2 DEF OnlyStream
  <2>4. StreamFits(c)' BY <1>0, <1>3, <2>1, <2>2 DEF StreamFits, SameChannel
  <2>5. StreamsFit' BY <1>0, <1>1, <2>3, <2>4, OneStreamMoves
  <2> QED BY <1>1, <1>2, <2>5 DEF Invariant
<1>6. CASE Stream!Complete(c)
  <2>1. /\ phase[c] = "reading" /\ phase' = [phase EXCEPT ![c] = "settling"]
        /\ request' = request
        /\ status' = status \/ status' = [status EXCEPT ![c] = "READING_FAILURE"]
    BY <1>6 DEF Stream!Complete, Stream!Service!Complete
  <2>2. /\ phase' \in [Channels -> Stream!Service!Phases] /\ phase'[c] = "settling"
        /\ \A d \in Channels \ {c} : phase'[d] = phase[d]
    BY <1>0, <2>1
  <2>3. status' = [d \in Channels |-> status'[d]] /\ \A d \in Channels \ {c} : status'[d] = status[d]
    BY <1>0, <2>1
  <2>4. OnlyStream(c) BY <1>0, <2>1, <2>2, <2>3 DEF OnlyStream
  <2>5. LoadStatus(c)' # "STARTED" BY <1>0, <1>3, <2>1 DEF StreamFits
  <2>6. StreamFits(c)' BY <2>2, <2>5 DEF StreamFits
  <2>7. StreamsFit' BY <1>0, <1>1, <2>4, <2>6, OneStreamMoves
  <2> QED BY <1>1, <1>2, <2>7 DEF Invariant
<1>7. CASE Stream!Settle(c)
  <2>1. /\ phase[c] = "settling" /\ phase' = [phase EXCEPT ![c] = "idle"]
        /\ request' = request /\ status' = status
    BY <1>7 DEF Stream!Settle, Stream!Service!Settle
  <2>2. /\ phase' \in [Channels -> Stream!Service!Phases] /\ phase'[c] = "idle"
        /\ \A d \in Channels \ {c} : phase'[d] = phase[d]
    BY <1>0, <2>1
  <2>3. OnlyStream(c) BY <1>0, <2>1, <2>2 DEF OnlyStream
  <2>4. StreamFits(c)' BY <1>0, <1>3, <2>1, <2>2 DEF StreamFits
  <2>5. StreamsFit' BY <1>0, <1>1, <2>3, <2>4, OneStreamMoves
  <2> QED BY <1>1, <1>2, <2>5 DEF Invariant
<1>8. CASE Stream!Take(c) \/ Stream!Release(c)
  <2>1. UNCHANGED <<phase, request, status>> BY <1>8 DEF Stream!Take, Stream!Release
  <2>2. StreamsFit' BY <1>0, <1>1, <2>1, StreamsUnchanged
  <2> QED BY <1>1, <1>2, <2>2 DEF Invariant
<1>9. CASE Stream!Meet(c)
  <2>1. PICK p \in {"reading", "settling"} :
            /\ phase[c] = "waiting" /\ phase' = [phase EXCEPT ![c] = p]
            /\ request' = request /\ status' = status
    BY <1>9 DEF Stream!Meet
  <2>2. /\ phase' \in [Channels -> Stream!Service!Phases] /\ phase'[c] = p
        /\ \A d \in Channels \ {c} : phase'[d] = phase[d]
    BY <1>0, <2>1
  <2>3. OnlyStream(c) BY <1>0, <2>1, <2>2 DEF OnlyStream
  <2>4. StreamFits(c)' BY <1>0, <1>3, <2>1, <2>2 DEF StreamFits, SameChannel
  <2>5. StreamsFit' BY <1>0, <1>1, <2>3, <2>4, OneStreamMoves
  <2> QED BY <1>1, <1>2, <2>5 DEF Invariant
<1> QED BY <1>4, <1>5, <1>6, <1>7, <1>8, <1>9

\* Any step
LEMMA NextFits == ASSUME Invariant, Next PROVE Invariant'
  BY CallFits, StepFits, ProgressFits DEF Next

\* None
LEMMA StutterFits == ASSUME Invariant, UNCHANGED vars PROVE Invariant'
<1>1. /\ st' = st /\ UNCHANGED <<todo, loop, currentChannel>> /\ UNCHANGED <<phase, request, status>>
  BY DEF vars, streamVars
<1>2. \A c \in Channels : SameChannel(st, st', c) BY <1>1 DEF SameChannel
<1>3. TodoFits' BY <1>1, <1>2, TodoUnchanged DEF Invariant
<1>4. StreamsFit' BY <1>1, <1>2, StreamsUnchanged DEF Invariant
<1> QED BY <1>1, <1>3, <1>4 DEF Invariant

\* Nothing is loaded or requested yet
LEMMA InitFits == ASSUME Init PROVE Invariant
<1> DEFINE loadStates == [m \in Models |-> "NOT_LOADED"]
           flags == [m \in Models |-> {}]
           channels == [c \in Channels |-> IdleChannel]
<1>0. st = [LoadState |-> loadStates, Flags |-> flags, requested |-> <<>>, loaded |-> {},
            ms_numModelsRequested |-> 0, ms_numPriorityRequests |-> 0,
            ms_bLoadingBigModel |-> FALSE, ms_channel |-> channels, ms_channelError |-> -1,
            ms_memoryUsed |-> 0, faults |-> 0]
  BY DEF Init
<1>1. loadStates \in [Models -> LoadStates] /\ \A m \in Models : loadStates[m] = "NOT_LOADED"
  BY DEF LoadStates
<1>2. flags \in [Models -> SUBSET Flags] OBVIOUS
<1>3. IdleChannel \in Channel /\ IdleChannel.LoadStatus = "IDLE" /\ IdleChannel.models = <<>>
      /\ IdleChannel.pos = 0 /\ IdleChannel.sectorCount = 0
  <2> DEFINE none == <<>>
  <2>1. none \in Seq(Slot) OBVIOUS
  <2>2. IdleChannel = [LoadStatus |-> "IDLE", models |-> none, pos |-> 0, sectorCount |-> 0]
    BY DEF IdleChannel
  <2> HIDE DEF none
  <2>3. IdleChannel \in Channel /\ IdleChannel.LoadStatus = "IDLE" /\ IdleChannel.models = none
        /\ IdleChannel.pos = 0 /\ IdleChannel.sectorCount = 0
    BY <2>1, <2>2 DEF Channel
  <2> QED BY <2>3 DEF none
<1>4. channels \in [Channels -> Channel] /\ \A c \in Channels : channels[c] = IdleChannel
  BY <1>3
<1> DEFINE none == <<>>
<1>5. none \in Seq(Models) OBVIOUS
<1>6. IsInjective(none) /\ Range(none) = {} /\ Len(none) = 0 BY DEF IsInjective, Range
<1>7. 0 \in 0 .. UINT32 - 1 BY BoundAssumption
<1>8. st = [LoadState |-> loadStates, Flags |-> flags, requested |-> none, loaded |-> {},
            ms_numModelsRequested |-> 0, ms_numPriorityRequests |-> 0,
            ms_bLoadingBigModel |-> FALSE, ms_channel |-> channels, ms_channelError |-> -1,
            ms_memoryUsed |-> 0, faults |-> 0]
  BY <1>0
<1> HIDE DEF loadStates, flags, channels, none
<1>9. /\ st \in State /\ st.LoadState = loadStates /\ st.requested = none /\ st.loaded = {}
      /\ st.ms_numModelsRequested = 0 /\ st.ms_bLoadingBigModel = FALSE
      /\ st.ms_channel = channels /\ st.ms_memoryUsed = 0
  BY <1>1, <1>2, <1>4, <1>5, <1>7, <1>8 DEF State
<1>10. \A m \in Models : st.LoadState[m] = "NOT_LOADED" BY <1>1, <1>9
<1>11. RequestsFit(st) BY <1>6, <1>9, <1>10 DEF RequestsFit
<1>12. LoadedFit(st) BY <1>9, <1>10 DEF LoadedFit
<1>13. MemoryFits(st)
  <2>1. LoadedModels(st) = {} BY <1>10 DEF LoadedModels
  <2> QED BY <1>9, <2>1, SizeOfNone DEF MemoryFits
<1>14. NeedsFit(st) BY <1>10 DEF NeedsFit, DFFs
<1>15. \A c \in Channels : /\ st.ms_channel[c] = IdleChannel /\ st.ms_channel[c].models = <<>>
                          /\ Places(st, c) = {} /\ st.ms_channel[c].LoadStatus = "IDLE"
  BY <1>3, <1>4, <1>9 DEF Places
<1>16. SlotsFit(st, NoPlace) BY <1>10, <1>15 DEF SlotsFit
<1>17. ChannelsFit(st) BY <1>9, <1>15 DEF ChannelsFit
<1>18. HalfLoaded(st) = NoPlace
  <2>1. 0 \in Channels BY DEF Channels
  <2> QED BY <1>15, <2>1 DEF HalfLoaded
<1>19. Fits(st) BY <1>9, <1>11, <1>12, <1>13, <1>14, <1>16, <1>17, <1>18 DEF Fits, Sound
<1>20. StreamsFit
  <2>1. /\ phase = [c \in Channels |-> "idle"] /\ request = [c \in Channels |-> Garbage]
        /\ status = [c \in Channels |-> "SUCCESS"]
    BY DEF Init, Stream!Init, Stream!Service!Init
  <2>2. /\ phase \in [Channels -> Stream!Service!Phases] /\ request = [c \in Channels |-> request[c]]
        /\ status = [c \in Channels |-> status[c]]
        /\ \A c \in Channels : phase[c] = "idle"
    BY <2>1 DEF Stream!Service!Phases
  <2>3. \A c \in Channels : StreamFits(c) BY <1>15, <2>2 DEF StreamFits, LoadStatus
  <2> QED BY <2>2, <2>3 DEF StreamsFit
<1>21. TodoFits
  <2>1. todo = <<>> /\ currentChannel = 0 /\ loop = NoLoop BY DEF Init
  <2>2. 0 \in Channels BY DEF Channels
  <2>3. todo \in Seq(Tasks) /\ Len(todo) = 0 BY <2>1
  <2> QED BY <2>1, <2>2, <2>3, NoLoopType DEF TodoFits
<1> QED BY <1>19, <1>20, <1>21 DEF Invariant

\* Everything fits in every state that can be reached: the books, the channels,
\* what the streams carry out, and what is left to do of the call under way.
THEOREM InvariantHolds == Spec => []Invariant
  BY InitFits, NextFits, StutterFits, PTL DEF Spec

-----------------------------------------------------------------------------
(* What the invariant says                                                 *)

\* What a channel holds, by its slots
LEMMA InChannel ==
    ASSUME NEW c, c \in Channels, Fits(st), NEW m
    PROVE  m \in Holds(c) <=> m # MODEL_INVALID /\ \E k \in Places(st, c) : Id(st, c, k) = m
<1> DEFINE q == st.ms_channel[c].models
<1>1. Range(q) = {q[k] : k \in DOMAIN q} BY DEF Range
<1>2. Holds(c) = {x.id : x \in Range(q)} \ {MODEL_INVALID} BY DEF Holds
<1>3. \A k : Id(st, c, k) = q[k].id BY DEF Id
<1>4. Places(st, c) = DOMAIN q BY DEF Places
<1> HIDE DEF q
<1> QED BY <1>1, <1>2, <1>3, <1>4

\* A model is in at most one place
LEMMA OnePlace ==
    ASSUME Fits(st), NEW c \in Channels, NEW d \in Channels, NEW m, m \in Holds(c), m \in Holds(d)
    PROVE  c = d
<1>1. PICK k \in Places(st, c) : Id(st, c, k) = m BY InChannel
<1>2. PICK l \in Places(st, d) : Id(st, d, l) = m BY InChannel
<1>3. m # MODEL_INVALID BY InChannel
<1>4. SlotsFit(st, HalfLoaded(st)) BY DEF Fits, Sound
<1> QED BY <1>1, <1>2, <1>3, <1>4 DEF SlotsFit

\* What the invariant says of the types, and of the books
LEMMA TypesFit == ASSUME Invariant PROVE TypeOK
<1>1. st \in State /\ currentChannel \in Channels BY DEF Invariant, Fits, Sound, TodoFits
<1>2. \A c \in Channels : LoadStatus(c) \in {"IDLE", "READING", "STARTED", "ERR"}
  BY <1>1, SlotTypes DEF LoadStatus, Channel
<1> QED BY <1>1, <1>2 DEF State, TypeOK

\* that the books agree
LEMMA BooksFit == ASSUME Invariant PROVE BooksAgree
<1>1. RequestsFit(st) /\ LoadedFit(st) /\ MemoryFits(st) BY DEF Invariant, Fits, Sound
<1>2. RequestListIsConsistent BY <1>1 DEF RequestsFit, RequestListIsConsistent
<1>3. LoadedListIsConsistent BY <1>1 DEF LoadedFit, LoadedListIsConsistent, MayBeLost, Listed
<1>4. MemoryIsAccounted BY <1>1 DEF MemoryFits, SizeOf, LoadedModels, MemoryIsAccounted
<1> QED BY <1>2, <1>3, <1>4, TypesFit DEF BooksAgree

\* that a model being read is in one channel
LEMMA ReadingFits == ASSUME Invariant PROVE ReadingMeansInOneChannel
<1>0. /\ Fits(st) /\ st \in State /\ SlotsFit(st, HalfLoaded(st)) /\ ChannelsFit(st)
      /\ 0 \in Channels /\ 1 \in Channels
  BY DEF Invariant, Fits, Sound, Channels
<1>1. ASSUME NEW m \in Models, st.LoadState[m] = "READING"
      PROVE  Cardinality({c \in Channels : m \in Holds(c) /\ LoadStatus(c) # "IDLE"}) = 1
  <2>1. \E c \in Channels : \E k \in Places(st, c) : Id(st, c, k) = m BY <1>0, <1>1 DEF SlotsFit
  <2>2. PICK c \in Channels : \E k \in Places(st, c) : Id(st, c, k) = m BY <2>1
  <2>3. m \in Holds(c) BY <1>0, <2>2, InChannel, ModelAssumption
  <2>4. LoadStatus(c) # "IDLE"
    <3>1. LoadStatus(c) = "IDLE" => st.ms_channel[c].models = <<>>
      BY <1>0 DEF ChannelsFit, LoadStatus
    <3> QED BY <2>2, <3>1 DEF Places
  <2>5. \A d \in Channels : m \in Holds(d) => d = c BY <1>0, <2>3, OnePlace
  <2> DEFINE S == {d \in Channels : m \in Holds(d) /\ LoadStatus(d) # "IDLE"}
  <2>6. S = {c} BY <2>3, <2>4, <2>5
  <2> QED BY <2>6, FS_Singleton
<1>2. ASSUME NEW c \in Channels, LoadStatus(c) \in {"READING", "ERR"}, NEW m \in Holds(c)
      PROVE  st.LoadState[m] = "READING"
  <2>1. PICK k \in Places(st, c) : Id(st, c, k) = m BY <1>0, InChannel
  <2>2. m # MODEL_INVALID BY <1>0, InChannel
  <2>3. k # 0 BY <1>0, SlotTypes
  <2>4. <<c, k>> # HalfLoaded(st)
    <3>1. CASE HalfLoaded(st) = NoPlace
      BY <2>3, <3>1 DEF NoPlace
    <3>2. CASE st.ms_channel[0].LoadStatus = "STARTED"
      <4>1. c # 0 BY <1>2, <3>2 DEF LoadStatus
      <4> QED BY <3>2, <4>1 DEF HalfLoaded
    <3> QED BY <3>1, <3>2 DEF HalfLoaded
  <2> QED BY <1>0, <2>1, <2>2, <2>4 DEF SlotsFit
<1>3. Holds(0) \cap Holds(1) = {} BY <1>0, OnePlace
<1> QED BY <1>1, <1>2, <1>3 DEF ReadingMeansInOneChannel

\* that the read covers it
LEMMA ReadsFit == ASSUME Invariant PROVE ChannelReadsItsModels
<1>0. Fits(st) /\ st \in State /\ SlotsFit(st, HalfLoaded(st)) /\ StreamsFit
  BY DEF Invariant, Fits, Sound
<1>1. ASSUME NEW c \in Channels, phase[c] \in {"waiting", "reading"}
      PROVE  LET ch == st.ms_channel[c] IN
             /\ LoadStatus(c) \in {"READING", "ERR"}
             /\ request[c] = [offset |-> ch.pos, sectors |-> ch.sectorCount]
             /\ \A x \in Range(ch.models) : x.id # MODEL_INVALID =>
                    /\ CdOffset[x.id] = ch.pos + x.at
                    /\ x.at + CdSize[x.id] <= ch.sectorCount
  <2> DEFINE ch == st.ms_channel[c]
             q == ch.models
  <2>1. /\ LoadStatus(c) \in {"READING", "ERR"}
        /\ request[c] = [offset |-> ch.pos, sectors |-> ch.sectorCount]
    BY <1>0, <1>1 DEF StreamsFit, StreamFits
  <2>2. ASSUME NEW x \in Range(q), x.id # MODEL_INVALID
        PROVE  /\ CdOffset[x.id] = ch.pos + x.at
               /\ x.at + CdSize[x.id] <= ch.sectorCount
    <3>1. PICK k \in DOMAIN q : x = q[k] BY DEF Range
    <3>2. k \in Places(st, c) /\ Id(st, c, k) = x.id /\ st.ms_channel[c].models[k].at = x.at
      BY <3>1 DEF Places, Id
    <3> QED BY <1>0, <2>2, <3>2 DEF SlotsFit
  <2> QED BY <2>1, <2>2
<1> QED BY <1>1 DEF ChannelReadsItsModels

\* that a big model has both halves
LEMMA BigFits == ASSUME Invariant PROVE BigModelHasBothHalves
<1>0. ChannelsFit(st) /\ StreamsFit /\ 1 \in Channels
  BY DEF Invariant, Fits, Channels
<1>1. ASSUME NEW c \in Channels, LoadStatus(c) # "IDLE",
             st.ms_channel[c].sectorCount > ms_streamingBufferSize
      PROVE  /\ c = 0 /\ st.ms_bLoadingBigModel /\ LoadStatus(1) = "IDLE"
             /\ phase[1] \notin {"waiting", "reading"}
  <2>1. c = 0 /\ st.ms_bLoadingBigModel BY <1>0, <1>1 DEF ChannelsFit, LoadStatus
  <2>2. LoadStatus(1) = "IDLE" BY <1>0, <2>1 DEF ChannelsFit, LoadStatus
  <2>3. phase[1] \notin {"waiting", "reading"} BY <1>0, <2>2 DEF StreamsFit, StreamFits
  <2> QED BY <2>1, <2>2, <2>3
<1> QED BY <1>1 DEF BigModelHasBothHalves

\* and that what a model needs is loaded
LEMMA NeedsAreLoaded == ASSUME Invariant PROVE LoadedModelHasWhatItNeeds
  BY DEF Invariant, Fits, Sound, NeedsFit, LoadedModelHasWhatItNeeds

\* The books that RequestModel, RemoveModel and the channels keep by hand agree
\* with the states of the models.
THEOREM BooksAlwaysAgree == Spec => []BooksAgree
  BY InvariantHolds, BooksFit, PTL

\* A model that is being read is in exactly one channel, and the read that the
\* stream carries out covers it where the channel will look for it.
THEOREM ChannelsAlwaysAgree == Spec => []ChannelsAgree
<1>1. Invariant => ChannelsAgree BY ReadingFits, ReadsFit DEF ChannelsAgree
<1> QED BY <1>1, InvariantHolds, PTL

\* No eviction, release, drop or failed conversion takes the textures or the
\* animations of a loaded model away.
THEOREM LoadedModelsAreWhole == Spec => []LoadedModelHasWhatItNeeds
  BY InvariantHolds, NeedsAreLoaded, PTL

\* A read longer than half the buffer has the other half for itself.
THEOREM BigModelsFit == Spec => []BigModelHasBothHalves
  BY InvariantHolds, BigFits, PTL

\* All of it at once.
THEOREM NothingIsEverAtOdds == Spec => []NothingIsAtOdds
<1>1. Invariant => NothingIsAtOdds
  BY BooksFit, ReadingFits, ReadsFit, NeedsAreLoaded, BigFits DEF NothingIsAtOdds, ChannelsAgree
<1> QED BY <1>1, InvariantHolds, PTL
=============================================================================
