--------------------------- MODULE CdStreamProofs ---------------------------
(***************************************************************************)
(* The safety of CdStream for any number of streams.                       *)
(*                                                                         *)
(* The invariants of the runs are not inductive.  What makes them so is    *)
(* the life of a stream that has something to read: it is either being     *)
(* stored into the queue by the main thread, or in the queue, or in the    *)
(* hands of CdStreamThread after it has left the queue, and never two of   *)
(* these at a time.                                                        *)
(***************************************************************************)
EXTENDS CdStream, FiniteSetTheorems, TLAPS

USE CountAssumption, SectorAssumption, SemaphoreAssumption, GarbageAssumption

-----------------------------------------------------------------------------
\* Who owns the critical section
LockInv ==
    /\ cdStreamThreadSync = "Main" <=>
          mpc \in {"Sync_Test", "Sync_SetLocked", "Sync_Finish"}
    /\ cdStreamThreadSync = "Thread" <=>
          tpc \in {"ClearSectors", "Signal", "ClearInUse", "Unlock"}

\* The main thread is storing stream s into the queue
Filling(s) == ms = s /\ mpc \in {"AddToQueue_Store", "AddToQueue_Advance"}

Queued(s) == \E i \in Occupied : m_queue[i] = s

\* Stream s has left the queue and is not yet marked as read
Leaving(s) == streamId = s /\ tpc \in {"Lock", "ClearSectors"}

LifeInv ==
    /\ \A s \in Streams :
          /\ nSectorsToRead[s] # 0 <=> Filling(s) \/ Queued(s) \/ Leaving(s)
          /\ ~(Filling(s) /\ Queued(s))
          /\ ~(Filling(s) /\ Leaving(s))
          /\ ~(Queued(s) /\ Leaving(s))
    /\ \A i, j \in Occupied : m_queue[i] = m_queue[j] => i = j
    /\ mpc = "AddToQueue_Advance" => m_queue[m_tail] = ms

\* What CdStreamThread works on
ThreadInv ==
    /\ tpc \in {"SetInUse", "ReadFile", "GetOverlappedResult", "RemoveFirst"} =>
          m_head # m_tail /\ streamId = m_queue[m_head]
    /\ tpc \in {"Lock", "ClearSectors", "Signal", "ClearInUse"} =>
          streamId \in Streams
    /\ \A s \in Streams :
          bInUse[s] <=>
             /\ streamId = s
             /\ tpc \in {"ReadFile", "GetOverlappedResult", "RemoveFirst",
                         "Lock", "ClearSectors", "Signal", "ClearInUse"}
    /\ tpc \in {"Signal", "ClearInUse"} => nSectorsToRead[streamId] = 0
    /\ tpc = "NotCreated" <=> mpc \in {"Init", "InitThread"}
    /\ tpc = "NotCreated" => m_head = m_tail /\ gStreamSemaphore = 0

\* What the main thread knows of the stream of its call
MainInv ==
    /\ mpc \in {"Read_TestInUse", "Read_Fill", "GetStatus_Result",
                "Sync_Relock", "Sync_Finish"} => nSectorsToRead[ms] = 0
    /\ mpc = "Sync_SetLocked" => nSectorsToRead[ms] # 0
    /\ mpc = "Read_Fill" => ~bInUse[ms]
    /\ mpc \in {"Read_TestSectors", "Read_TestInUse", "Read_Fill"} =>
          expected[ms] # Garbage

\* Stream s still owes CdStreamSync a wake-up, if it is asked for one
Unsignalled(s) == nSectorsToRead[s] # 0 \/ (streamId = s /\ tpc = "Signal")

SyncInv ==
    /\ WakeUpIsForThisRead
    /\ \A s \in Streams :
          bLocked[s] /\ Unsignalled(s) =>
             mpc = "Sync_Wait" /\ ms = s /\ hSemaphore[s] = 0
    /\ mpc = "Sync_Wait" =>
          hSemaphore[ms] = 1 \/ (bLocked[ms] /\ Unsignalled(ms))

\* The device has not finished with stream s
Unread(s) ==
    /\ nSectorsToRead[s] # 0
    /\ ~(streamId = s /\ tpc \in {"RemoveFirst", "Lock", "ClearSectors"})

DataInv ==
    \A s \in Streams :
        /\ expected[s] # Garbage => hFile[s] = expected[s].file
        /\ accepted[s] # Garbage => accepted[s] \in Reads
        /\ nSectorsToRead[s] # 0 =>
              /\ accepted[s] = expected[s]
              /\ accepted[s] # Garbage
              /\ nSectorOffset[s] = expected[s].offset
        /\ Unread(s) => status[s] = "SUCCESS"
        /\ ~Unread(s) /\ status[s] = "SUCCESS" /\ accepted[s] # Garbage =>
              data[s] = accepted[s]

\* CdStreamRemoveImages has been through the streams before ms
RemoveInv ==
    /\ removing =>
          /\ mpc \in {"Sync_Lock", "Sync_Test", "Sync_SetLocked", "Sync_Wait",
                      "Sync_Relock", "Sync_Finish", "ImagesRemoved", "Shutdown"}
          /\ \A s \in Streams : s < ms => nSectorsToRead[s] = 0
    /\ mpc \in {"ImagesRemoved", "Shutdown"} =>
          /\ removing
          /\ tpc = "Wait"
          /\ \A s \in Streams : nSectorsToRead[s] = 0

IInv == /\ TypeOK
        /\ LockInv
        /\ LifeInv
        /\ ThreadInv
        /\ MainInv
        /\ SemaphoreCountsQueue
        /\ SyncInv
        /\ DataInv
        /\ RemoveInv

-----------------------------------------------------------------------------
(* The ring buffer. *)

\* The index after x wraps round at the end of the buffer.
LEMMA NextIndex ==
    ASSUME NEW x \in Slots
    PROVE  /\ (x + 1) % m_size = IF x + 1 = m_size THEN 0 ELSE x + 1
           /\ (x + 1) % m_size \in Slots
  BY DEF Slots, m_size

\* The length of the queue without the modulus.
LEMMA DistanceCases ==
    ASSUME NEW h \in Slots, NEW t \in Slots
    PROVE  Distance(h, t) = IF h <= t THEN t - h ELSE t - h + m_size
  BY DEF Slots, m_size, Distance

\* A queue has a length, and it is zero when the queue is empty.
LEMMA DistanceRange ==
    ASSUME NEW h \in Slots, NEW t \in Slots
    PROVE  /\ Distance(h, t) \in 0 .. gStreamCount
           /\ Distance(h, t) = 0 <=> h = t
           /\ h = t <=> Between(h, t) = {}
           /\ h # t => h \in Between(h, t)
           /\ t \notin Between(h, t)
<1>1. Distance(h, t) \in 0 .. gStreamCount /\ (Distance(h, t) = 0 <=> h = t)
  BY DistanceCases DEF Slots, m_size
<1>2. t \notin Between(h, t) /\ (h # t => h \in Between(h, t))
  BY DEF Slots, m_size, Between
<1>3. h = t => Between(h, t) = {}
  BY DEF Slots, m_size, Between
<1> QED BY <1>1, <1>2, <1>3

\* Moving the tail of a queue that is not full adds the slot it was at.
LEMMA MoveTail ==
    ASSUME NEW h \in Slots, NEW t \in Slots, (t + 1) % m_size # h
    PROVE  /\ Between(h, (t + 1) % m_size) = Between(h, t) \cup {t}
           /\ Distance(h, (t + 1) % m_size) = Distance(h, t) + 1
<1> DEFINE u == (t + 1) % m_size
<1>1. u = (IF t + 1 = m_size THEN 0 ELSE t + 1) /\ u \in Slots /\ u # h
  BY NextIndex
<1>2. Between(h, u) = Between(h, t) \cup {t}
  BY <1>1 DEF Between, Slots, m_size
<1>3. Distance(h, u) = Distance(h, t) + 1
  <2> HIDE DEF u
  <2>1. Distance(h, u) = IF h <= u THEN u - h ELSE u - h + m_size
    BY <1>1, DistanceCases
  <2>2. Distance(h, t) = IF h <= t THEN t - h ELSE t - h + m_size
    BY DistanceCases
  <2> QED BY <1>1, <2>1, <2>2 DEF Slots, m_size
<1> QED BY <1>2, <1>3 DEF u

\* Moving the head of a queue that is not empty drops the slot it was at.
LEMMA MoveHead ==
    ASSUME NEW h \in Slots, NEW t \in Slots, h # t
    PROVE  /\ Between((h + 1) % m_size, t) = Between(h, t) \ {h}
           /\ Distance((h + 1) % m_size, t) = Distance(h, t) - 1
<1> DEFINE u == (h + 1) % m_size
<1>1. u = (IF h + 1 = m_size THEN 0 ELSE h + 1) /\ u \in Slots
  BY NextIndex
<1>2. Between(u, t) = Between(h, t) \ {h}
  BY <1>1 DEF Between, Slots, m_size
<1>3. Distance(u, t) = Distance(h, t) - 1
  <2> HIDE DEF u
  <2>1. Distance(u, t) = IF u <= t THEN t - u ELSE t - u + m_size
    BY <1>1, DistanceCases
  <2>2. Distance(h, t) = IF h <= t THEN t - h ELSE t - h + m_size
    BY DistanceCases
  <2> QED BY <1>1, <2>1, <2>2 DEF Slots, m_size
<1> QED BY <1>2, <1>3 DEF u

\* A full queue holds every slot but the one at its tail.
LEMMA FullQueue ==
    ASSUME NEW h \in Slots, NEW t \in Slots, (t + 1) % m_size = h
    PROVE  Slots = Between(h, t) \cup {t}
  BY NextIndex DEF Between, Slots, m_size

\* There are more slots than streams.
LEMMA MoreSlotsThanStreams ==
    ASSUME NEW q \in [Slots -> Streams]
    PROVE  \E i, j \in Slots : i # j /\ q[i] = q[j]
<1>1. IsFiniteSet(Slots) /\ Cardinality(Slots) = gStreamCount + 1
  BY FS_Interval DEF Slots, m_size
<1>2. IsFiniteSet(Streams) /\ Cardinality(Streams) = gStreamCount
  BY FS_Interval DEF Streams
<1> QED BY <1>1, <1>2, FS_PigeonHole

-----------------------------------------------------------------------------
\* gStreamCount is at least one: stream 0 exists (CdStreamInit reads with it).
LEMMA ZeroStream == 0 \in Streams
  BY DEF Streams

\* The queue has a first slot, where both ends of it start.
LEMMA ZeroSlot == 0 \in Slots
  BY DEF Slots, m_size

\* Storing one value of the right type keeps the type of a table.
LEMMA ExceptType ==
    ASSUME NEW S, NEW T, NEW f \in [S -> T], NEW x, NEW v \in T
    PROVE  [f EXCEPT ![x] = v] \in [S -> T]
  OBVIOUS

\* Every step keeps the types.
LEMMA TypeStep ==
    ASSUME IInv, [Next]_vars
    PROVE  TypeOK'
<1> USE DEF IInv, TypeOK, vars, initVars, streamVars, queueVars, syncVars, mainVars, threadVars, bufferVars,
           MainPcs, ThreadPcs, Statuses, Answers, Buffers, Calls, Returns, NoAnswer
<1>1. CASE CdStreamInit
  BY <1>1 DEF CdStreamInit
<1>2. CASE CdStreamInitThread
  BY <1>2, ZeroStream DEF CdStreamInitThread, m_size, Slots
<1>3. CASE Read_TestSectors
  BY <1>3 DEF Read_TestSectors
<1>4. CASE Read_TestInUse
  BY <1>4 DEF Read_TestInUse
<1>5. CASE Read_Fill
  <2>1. bLocked' \in [Streams -> BOOLEAN]
    BY <1>5, ExceptType DEF Read_Fill
  <2>2. expected[ms] \in Reads
    BY <1>5 DEF Read_Fill, MainInv
  <2>3. expected[ms].offset \in Sectors
    BY <2>2 DEF Reads
  <2> QED BY <1>5, <2>1, <2>2, <2>3 DEF Read_Fill
<1>6. CASE AddToQueue_Store
  BY <1>6 DEF AddToQueue_Store
<1>7. CASE AddToQueue_Advance
  BY <1>7, NextIndex DEF AddToQueue_Advance
<1>8. CASE Read_Release
  BY <1>8 DEF Read_Release
<1>9. CASE GetStatus_TestInUse
  BY <1>9 DEF GetStatus_TestInUse
<1>10. CASE GetStatus_TestSectors
  BY <1>10 DEF GetStatus_TestSectors
<1>11. CASE GetStatus_Result
  BY <1>11 DEF GetStatus_Result
<1>12. CASE Sync_Lock
  BY <1>12 DEF Sync_Lock
<1>13. CASE Sync_Test
  BY <1>13 DEF Sync_Test
<1>14. CASE Sync_SetLocked
  <2>1. bLocked' \in [Streams -> BOOLEAN]
    BY <1>14, ExceptType DEF Sync_SetLocked
  <2> QED BY <1>14, <2>1 DEF Sync_SetLocked
<1>15. CASE Sync_Wait
  BY <1>15 DEF Sync_Wait
<1>16. CASE Sync_Relock
  BY <1>16 DEF Sync_Relock
<1>17. CASE Sync_Finish
  <2>1. bInUse' \in [Streams -> BOOLEAN]
    BY <1>17, ExceptType DEF Sync_Finish
  <2>2. ms' \in Streams
    BY <1>17 DEF Sync_Finish, Streams
  <2> QED BY <1>17, <2>1, <2>2 DEF Sync_Finish
<1>18. ASSUME NEW s \in Streams, NEW r \in Reads, CdStreamRead(s, r)
       PROVE  TypeOK'
  <2>1. r.file \in Files
    BY <1>18 DEF Reads
  <2> QED BY <1>18, <2>1, ZeroStream DEF CdStreamRead
<1>19. ASSUME NEW s \in Streams, CdStreamGetStatus(s)
       PROVE  TypeOK'
  BY <1>19, ZeroStream DEF CdStreamGetStatus
<1>20. ASSUME NEW s \in Streams, CdStreamSync(s)
       PROVE  TypeOK'
  BY <1>20, ZeroStream DEF CdStreamSync
<1>21. CASE CdStreamRemoveImages
  BY <1>21, ZeroStream DEF CdStreamRemoveImages
<1>22. CASE CdStreamShutdown
  BY <1>22 DEF CdStreamShutdown, Slots, m_size
<1>23. CASE Thread_Wait
  BY <1>23 DEF Thread_Wait
<1>24. CASE Thread_GetFirst
  <2>1. streamId' \in Streams \cup {-1}
    BY <1>24 DEF Thread_GetFirst, GetFirstInQueue
  <2> QED BY <1>24, <2>1 DEF Thread_GetFirst
<1>25. CASE Thread_SetInUse
  <2>1. bInUse' \in [Streams -> BOOLEAN]
    BY <1>25, ExceptType DEF Thread_SetInUse
  <2> QED BY <1>25, <2>1 DEF Thread_SetInUse
<1>26. CASE Thread_ReadFile
  <2> USE <1>26 DEF Outcome, Thread_ReadFile
  <2>1. status' \in [Streams -> Statuses]
    OBVIOUS
  <2>2. data' \in [Streams -> Buffers]
    <3>1. CASE streamId \in Streams
      BY <3>1 DEF Reads
    <3>2. CASE streamId \notin Streams
      BY <3>2
    <3> QED BY <3>1, <3>2
  <2> QED BY <2>1, <2>2
<1>27. CASE Thread_GetOverlappedResult
  <2> USE <1>27 DEF Outcome, Thread_GetOverlappedResult
  <2>1. status' \in [Streams -> Statuses]
    OBVIOUS
  <2>2. data' \in [Streams -> Buffers]
    <3>1. CASE streamId \in Streams
      BY <3>1 DEF Reads
    <3>2. CASE streamId \notin Streams
      BY <3>2
    <3> QED BY <3>1, <3>2
  <2> QED BY <2>1, <2>2
<1>28. CASE Thread_RemoveFirst
  BY <1>28, NextIndex DEF Thread_RemoveFirst, RemoveFirstInQueue
<1>29. CASE Thread_Lock
  BY <1>29 DEF Thread_Lock
<1>30. CASE Thread_ClearSectors
  <2>1. nSectorsToRead' \in [Streams -> {0, SectorCount}]
    BY <1>30, ExceptType DEF Thread_ClearSectors
  <2> QED BY <1>30, <2>1 DEF Thread_ClearSectors
<1>31. CASE Thread_Signal
  <2>1. streamId \in Streams
    BY <1>31 DEF Thread_Signal, ThreadInv
  <2>2. hSemaphore' \in [Streams -> 0 .. SyncSemaphoreMax]
    BY <1>31, <2>1 DEF Thread_Signal
  <2> QED BY <1>31, <2>2 DEF Thread_Signal
<1>32. CASE Thread_ClearInUse
  <2>1. bInUse' \in [Streams -> BOOLEAN]
    BY <1>32, ExceptType DEF Thread_ClearInUse
  <2> QED BY <1>32, <2>1 DEF Thread_ClearInUse
<1>33. CASE Thread_Unlock
  BY <1>33 DEF Thread_Unlock
<1>34. CASE UNCHANGED vars
  BY <1>34 DEF vars
<1> QED BY <1>1, <1>2, <1>3, <1>4, <1>5, <1>6, <1>7, <1>8, <1>9, <1>10, <1>11, <1>12, <1>13, <1>14, <1>15, <1>16, <1>17, <1>18, <1>19, <1>20, <1>21, <1>22, <1>23, <1>24, <1>25, <1>26, <1>27, <1>28, <1>29, <1>30, <1>31, <1>32, <1>33, <1>34
     DEF Next, MainStep, MainCall, ThreadStep, Exited

-----------------------------------------------------------------------------
\* The queue is never full when a stream is being stored.
LEMMA NeverFull ==
    ASSUME TypeOK, LifeInv, mpc = "AddToQueue_Advance"
    PROVE  (m_tail + 1) % m_size # m_head
<1>1. SUFFICES ASSUME (m_tail + 1) % m_size = m_head PROVE FALSE
  OBVIOUS
<1>2. Slots = Occupied \cup {m_tail}
  BY <1>1, FullQueue DEF TypeOK, Occupied
<1>3. PICK i, j \in Slots : i # j /\ m_queue[i] = m_queue[j]
  BY MoreSlotsThanStreams DEF TypeOK
<1>4. ms \in Streams /\ Filling(ms) /\ m_queue[m_tail] = ms
  BY DEF TypeOK, LifeInv, Filling
<1>5. \A k \in Occupied : m_queue[k] # ms
  BY <1>4 DEF LifeInv, Queued
<1>6. \A k, l \in Occupied : m_queue[k] = m_queue[l] => k = l
  BY DEF LifeInv
<1> QED BY <1>2, <1>3, <1>4, <1>5, <1>6

\* When nothing is left to read the queue is empty.
LEMMA NothingQueued ==
    ASSUME TypeOK, LifeInv, \A s \in Streams : nSectorsToRead[s] = 0
    PROVE  m_head = m_tail
<1>1. SUFFICES ASSUME m_head # m_tail PROVE FALSE
  OBVIOUS
<1>2. m_head \in Occupied
  BY <1>1, DistanceRange DEF TypeOK, Occupied
<1>3. m_queue[m_head] \in Streams /\ Queued(m_queue[m_head])
  BY <1>2 DEF TypeOK, Queued
<1> QED BY <1>3 DEF LifeInv

\* Both threads keep to the critical section.
LEMMA LockStep ==
    ASSUME IInv, [Next]_vars
    PROVE  LockInv'
<1> USE DEF IInv, LockInv, vars, initVars, streamVars, queueVars, syncVars, mainVars, threadVars, bufferVars, Calls, Returns
<1>1. CASE CdStreamInit
  BY <1>1 DEF CdStreamInit
<1>2. CASE CdStreamInitThread
  BY <1>2 DEF CdStreamInitThread, ThreadInv
<1>3. CASE Read_TestSectors
  BY <1>3 DEF Read_TestSectors
<1>4. CASE Read_TestInUse
  BY <1>4 DEF Read_TestInUse
<1>5. CASE Read_Fill
  BY <1>5 DEF Read_Fill
<1>6. CASE AddToQueue_Store
  BY <1>6 DEF AddToQueue_Store
<1>7. CASE AddToQueue_Advance
  BY <1>7 DEF AddToQueue_Advance
<1>8. CASE Read_Release
  BY <1>8 DEF Read_Release
<1>9. CASE GetStatus_TestInUse
  BY <1>9 DEF GetStatus_TestInUse
<1>10. CASE GetStatus_TestSectors
  BY <1>10 DEF GetStatus_TestSectors
<1>11. CASE GetStatus_Result
  BY <1>11 DEF GetStatus_Result
<1>12. CASE Sync_Lock
  BY <1>12 DEF Sync_Lock
<1>13. CASE Sync_Test
  BY <1>13 DEF Sync_Test
<1>14. CASE Sync_SetLocked
  BY <1>14 DEF Sync_SetLocked
<1>15. CASE Sync_Wait
  BY <1>15 DEF Sync_Wait
<1>16. CASE Sync_Relock
  BY <1>16 DEF Sync_Relock
<1>17. CASE Sync_Finish
  BY <1>17 DEF Sync_Finish
<1>18. ASSUME NEW s \in Streams, NEW r \in Reads, CdStreamRead(s, r)
       PROVE  LockInv'
  BY <1>18 DEF CdStreamRead
<1>19. ASSUME NEW s \in Streams, CdStreamGetStatus(s)
       PROVE  LockInv'
  BY <1>19 DEF CdStreamGetStatus
<1>20. ASSUME NEW s \in Streams, CdStreamSync(s)
       PROVE  LockInv'
  BY <1>20 DEF CdStreamSync
<1>21. CASE CdStreamRemoveImages
  BY <1>21 DEF CdStreamRemoveImages
<1>22. CASE CdStreamShutdown
  BY <1>22 DEF CdStreamShutdown
<1>23. CASE Thread_Wait
  BY <1>23 DEF Thread_Wait
<1>24. CASE Thread_GetFirst
  BY <1>24 DEF Thread_GetFirst
<1>25. CASE Thread_SetInUse
  BY <1>25 DEF Thread_SetInUse
<1>26. CASE Thread_ReadFile
  BY <1>26 DEF Thread_ReadFile
<1>27. CASE Thread_GetOverlappedResult
  BY <1>27 DEF Thread_GetOverlappedResult
<1>28. CASE Thread_RemoveFirst
  BY <1>28 DEF Thread_RemoveFirst
<1>29. CASE Thread_Lock
  BY <1>29 DEF Thread_Lock
<1>30. CASE Thread_ClearSectors
  BY <1>30 DEF Thread_ClearSectors
<1>31. CASE Thread_Signal
  BY <1>31 DEF Thread_Signal
<1>32. CASE Thread_ClearInUse
  BY <1>32 DEF Thread_ClearInUse
<1>33. CASE Thread_Unlock
  BY <1>33 DEF Thread_Unlock
<1>34. CASE UNCHANGED vars
  BY <1>34 DEF vars
<1> QED BY <1>1, <1>2, <1>3, <1>4, <1>5, <1>6, <1>7, <1>8, <1>9, <1>10, <1>11, <1>12, <1>13, <1>14, <1>15, <1>16, <1>17, <1>18, <1>19, <1>20, <1>21, <1>22, <1>23, <1>24, <1>25, <1>26, <1>27, <1>28, <1>29, <1>30, <1>31, <1>32, <1>33, <1>34
     DEF Next, MainStep, MainCall, ThreadStep, Exited

\* A stream with something to read stays in one place.
LEMMA LifeStep ==
    ASSUME IInv, [Next]_vars
    PROVE  LifeInv'
<1> USE DEF IInv, TypeOK, LifeInv, Filling, Queued, Leaving, Occupied, vars, initVars, streamVars, queueVars, syncVars, mainVars, threadVars, bufferVars, Calls, Returns
<1>1. CASE CdStreamInit
  BY <1>1 DEF CdStreamInit
<1>2. CASE CdStreamInitThread
  <2>1. Occupied = {} /\ Occupied' = {}
    BY <1>2, DistanceRange, ZeroSlot DEF CdStreamInitThread, ThreadInv
  <2>2. tpc = "NotCreated"
    BY <1>2 DEF CdStreamInitThread, ThreadInv
  <2> QED BY <1>2, <2>1, <2>2 DEF CdStreamInitThread
<1>3. CASE Read_TestSectors
  BY <1>3 DEF Read_TestSectors
<1>4. CASE Read_TestInUse
  BY <1>4 DEF Read_TestInUse
<1>5. CASE Read_Fill
  <2>1. nSectorsToRead[ms] = 0
    BY <1>5 DEF Read_Fill, MainInv
  <2> QED BY <1>5, <2>1 DEF Read_Fill
<1>6. CASE AddToQueue_Store
  <2>1. m_tail \notin Occupied /\ Occupied' = Occupied
    BY <1>6, DistanceRange DEF AddToQueue_Store
  <2>2. \A i \in Occupied : i \in Slots /\ m_queue'[i] = m_queue[i]
    BY <1>6, <2>1 DEF AddToQueue_Store, Between
  <2>3. m_queue'[m_tail] = ms
    BY <1>6 DEF AddToQueue_Store
  <2> HIDE DEF Occupied
  <2>4. \A s \in Streams : Queued(s)' <=> Queued(s)
    BY <2>1, <2>2
  <2> QED BY <1>6, <2>1, <2>2, <2>3, <2>4 DEF AddToQueue_Store
<1>7. CASE AddToQueue_Advance
  <2>1. Occupied' = Occupied \cup {m_tail}
    BY <1>7, NeverFull, MoveTail DEF AddToQueue_Advance
  <2>2. m_tail \notin Occupied
    BY DistanceRange
  <2> HIDE DEF Occupied
  <2>3. m_queue[m_tail] = ms /\ m_queue' = m_queue
    BY <1>7 DEF AddToQueue_Advance
  <2>4. \A s \in Streams : Queued(s)' <=> Queued(s) \/ s = ms
    BY <2>1, <2>3
  <2>5. \A i \in Occupied : m_queue[i] # ms
    BY <1>7 DEF AddToQueue_Advance
  <2> QED BY <1>7, <2>1, <2>2, <2>3, <2>4, <2>5 DEF AddToQueue_Advance
<1>8. CASE Read_Release
  BY <1>8 DEF Read_Release
<1>9. CASE GetStatus_TestInUse
  BY <1>9 DEF GetStatus_TestInUse
<1>10. CASE GetStatus_TestSectors
  BY <1>10 DEF GetStatus_TestSectors
<1>11. CASE GetStatus_Result
  BY <1>11 DEF GetStatus_Result
<1>12. CASE Sync_Lock
  BY <1>12 DEF Sync_Lock
<1>13. CASE Sync_Test
  BY <1>13 DEF Sync_Test
<1>14. CASE Sync_SetLocked
  BY <1>14 DEF Sync_SetLocked
<1>15. CASE Sync_Wait
  BY <1>15 DEF Sync_Wait
<1>16. CASE Sync_Relock
  BY <1>16 DEF Sync_Relock
<1>17. CASE Sync_Finish
  BY <1>17 DEF Sync_Finish
<1>18. ASSUME NEW s \in Streams, NEW r \in Reads, CdStreamRead(s, r)
       PROVE  LifeInv'
  BY <1>18 DEF CdStreamRead
<1>19. ASSUME NEW s \in Streams, CdStreamGetStatus(s)
       PROVE  LifeInv'
  BY <1>19 DEF CdStreamGetStatus
<1>20. ASSUME NEW s \in Streams, CdStreamSync(s)
       PROVE  LifeInv'
  BY <1>20 DEF CdStreamSync
<1>21. CASE CdStreamRemoveImages
  BY <1>21 DEF CdStreamRemoveImages
<1>22. CASE CdStreamShutdown
  <2>1. Occupied' = {}
    BY <1>22, DistanceRange, ZeroSlot DEF CdStreamShutdown
  <2>2. Occupied = {}
    BY <1>22, NothingQueued, DistanceRange DEF CdStreamShutdown, RemoveInv
  <2> HIDE DEF Occupied
  <2> QED BY <1>22, <2>1, <2>2 DEF CdStreamShutdown
<1>23. CASE Thread_Wait
  BY <1>23 DEF Thread_Wait
<1>24. CASE Thread_GetFirst
  BY <1>24 DEF Thread_GetFirst
<1>25. CASE Thread_SetInUse
  BY <1>25 DEF Thread_SetInUse
<1>26. CASE Thread_ReadFile
  BY <1>26 DEF Thread_ReadFile
<1>27. CASE Thread_GetOverlappedResult
  BY <1>27 DEF Thread_GetOverlappedResult
<1>28. CASE Thread_RemoveFirst
  <2>1. m_head # m_tail /\ streamId = m_queue[m_head]
    BY <1>28 DEF Thread_RemoveFirst, ThreadInv
  <2>2. Occupied' = Occupied \ {m_head} /\ m_head \in Occupied
    BY <1>28, <2>1, MoveHead, DistanceRange
       DEF Thread_RemoveFirst, RemoveFirstInQueue
  <2> HIDE DEF Occupied
  <2>3. m_queue' = m_queue /\ streamId \in Streams
    BY <1>28, <2>1 DEF Thread_RemoveFirst
  <2>4. \A s \in Streams : Queued(s)' <=> Queued(s) /\ s # streamId
    BY <2>1, <2>2, <2>3
  <2>5. Queued(streamId)
    BY <2>1, <2>2
  <2> QED BY <1>28, <2>1, <2>2, <2>3, <2>4, <2>5 DEF Thread_RemoveFirst
<1>29. CASE Thread_Lock
  BY <1>29 DEF Thread_Lock
<1>30. CASE Thread_ClearSectors
  BY <1>30 DEF Thread_ClearSectors
<1>31. CASE Thread_Signal
  BY <1>31 DEF Thread_Signal
<1>32. CASE Thread_ClearInUse
  BY <1>32 DEF Thread_ClearInUse
<1>33. CASE Thread_Unlock
  BY <1>33 DEF Thread_Unlock
<1>34. CASE UNCHANGED vars
  BY <1>34 DEF vars
<1> QED BY <1>1, <1>2, <1>3, <1>4, <1>5, <1>6, <1>7, <1>8, <1>9, <1>10, <1>11, <1>12, <1>13, <1>14, <1>15, <1>16, <1>17, <1>18, <1>19, <1>20, <1>21, <1>22, <1>23, <1>24, <1>25, <1>26, <1>27, <1>28, <1>29, <1>30, <1>31, <1>32, <1>33, <1>34
     DEF Next, MainStep, MainCall, ThreadStep, Exited

\* CdStreamSync clears bInUse of a stream that is not in use.
LEMMA SyncFreesNothing ==
    ASSUME IInv, mpc = "Sync_Finish"
    PROVE  ~bInUse[ms]
<1>1. nSectorsToRead[ms] = 0 /\ ms \in Streams
  BY DEF IInv, MainInv, TypeOK
<1>2. tpc \notin {"ClearSectors", "Signal", "ClearInUse"}
  BY DEF IInv, LockInv
<1>3. ~Queued(ms) /\ ~Leaving(ms)
  BY <1>1 DEF IInv, LifeInv
<1>4. ~(streamId = ms /\ tpc \in {"ReadFile", "GetOverlappedResult", "RemoveFirst"})
  <2>1. SUFFICES ASSUME streamId = ms,
                        tpc \in {"ReadFile", "GetOverlappedResult", "RemoveFirst"}
                 PROVE  FALSE
    OBVIOUS
  <2>2. m_head # m_tail /\ m_queue[m_head] = ms
    BY <2>1 DEF IInv, ThreadInv
  <2>3. m_head \in Occupied
    BY <2>2, DistanceRange DEF IInv, TypeOK, Occupied
  <2> QED BY <1>3, <2>2, <2>3 DEF Queued
<1> QED BY <1>1, <1>2, <1>3, <1>4 DEF IInv, ThreadInv, Leaving

\* CdStreamThread works on the first stream of the queue.
LEMMA WorkStep ==
    ASSUME IInv, [Next]_vars
    PROVE  ThreadInv'
<1> USE DEF IInv, TypeOK, ThreadInv, vars, initVars, streamVars, queueVars, syncVars, mainVars, threadVars, bufferVars, Calls, Returns
<1>1. CASE CdStreamInit
  BY <1>1 DEF CdStreamInit
<1>2. CASE CdStreamInitThread
  BY <1>2 DEF CdStreamInitThread
<1>3. CASE Read_TestSectors
  BY <1>3 DEF Read_TestSectors
<1>4. CASE Read_TestInUse
  BY <1>4 DEF Read_TestInUse
<1>5. CASE Read_Fill
  <2>1. nSectorsToRead[ms] = 0 /\ ~bInUse[ms]
    BY <1>5 DEF Read_Fill, MainInv
  <2>2. ~(streamId = ms /\ tpc \in {"Signal", "ClearInUse"})
    BY <2>1
  <2> QED BY <1>5, <2>1, <2>2 DEF Read_Fill
<1>6. CASE AddToQueue_Store
  <2>1. m_head # m_tail => m_queue'[m_head] = m_queue[m_head]
    BY <1>6 DEF AddToQueue_Store
  <2> QED BY <1>6, <2>1 DEF AddToQueue_Store
<1>7. CASE AddToQueue_Advance
  <2>1. m_head # m_tail'
    BY <1>7, NeverFull DEF AddToQueue_Advance
  <2>2. tpc # "NotCreated"
    BY <1>7 DEF AddToQueue_Advance
  <2> QED BY <1>7, <2>1, <2>2 DEF AddToQueue_Advance
<1>8. CASE Read_Release
  BY <1>8 DEF Read_Release
<1>9. CASE GetStatus_TestInUse
  BY <1>9 DEF GetStatus_TestInUse
<1>10. CASE GetStatus_TestSectors
  BY <1>10 DEF GetStatus_TestSectors
<1>11. CASE GetStatus_Result
  BY <1>11 DEF GetStatus_Result
<1>12. CASE Sync_Lock
  BY <1>12 DEF Sync_Lock
<1>13. CASE Sync_Test
  BY <1>13 DEF Sync_Test
<1>14. CASE Sync_SetLocked
  BY <1>14 DEF Sync_SetLocked
<1>15. CASE Sync_Wait
  BY <1>15 DEF Sync_Wait
<1>16. CASE Sync_Relock
  BY <1>16 DEF Sync_Relock
<1>17. CASE Sync_Finish
  <2>1. ~bInUse[ms]
    BY <1>17, SyncFreesNothing DEF Sync_Finish
  <2>2. bInUse' = bInUse
    BY <1>17, <2>1 DEF Sync_Finish
  <2> QED BY <1>17, <2>2 DEF Sync_Finish
<1>18. ASSUME NEW s \in Streams, NEW r \in Reads, CdStreamRead(s, r)
       PROVE  ThreadInv'
  BY <1>18 DEF CdStreamRead
<1>19. ASSUME NEW s \in Streams, CdStreamGetStatus(s)
       PROVE  ThreadInv'
  BY <1>19 DEF CdStreamGetStatus
<1>20. ASSUME NEW s \in Streams, CdStreamSync(s)
       PROVE  ThreadInv'
  BY <1>20 DEF CdStreamSync
<1>21. CASE CdStreamRemoveImages
  BY <1>21 DEF CdStreamRemoveImages
<1>22. CASE CdStreamShutdown
  <2>1. tpc = "Wait"
    BY <1>22 DEF CdStreamShutdown, RemoveInv
  <2> QED BY <1>22, <2>1 DEF CdStreamShutdown
<1>23. CASE Thread_Wait
  BY <1>23 DEF Thread_Wait
<1>24. CASE Thread_GetFirst
  <2>1. m_head # m_tail
    BY <1>24, DistanceRange DEF Thread_GetFirst, SemaphoreCountsQueue, QueueLength,
                               One, ThreadHoldsFirst
  <2> QED BY <1>24, <2>1 DEF Thread_GetFirst, GetFirstInQueue
<1>25. CASE Thread_SetInUse
  BY <1>25 DEF Thread_SetInUse
<1>26. CASE Thread_ReadFile
  BY <1>26 DEF Thread_ReadFile
<1>27. CASE Thread_GetOverlappedResult
  BY <1>27 DEF Thread_GetOverlappedResult
<1>28. CASE Thread_RemoveFirst
  BY <1>28 DEF Thread_RemoveFirst
<1>29. CASE Thread_Lock
  BY <1>29 DEF Thread_Lock
<1>30. CASE Thread_ClearSectors
  BY <1>30 DEF Thread_ClearSectors
<1>31. CASE Thread_Signal
  BY <1>31 DEF Thread_Signal
<1>32. CASE Thread_ClearInUse
  BY <1>32 DEF Thread_ClearInUse
<1>33. CASE Thread_Unlock
  BY <1>33 DEF Thread_Unlock
<1>34. CASE UNCHANGED vars
  BY <1>34 DEF vars
<1> QED BY <1>1, <1>2, <1>3, <1>4, <1>5, <1>6, <1>7, <1>8, <1>9, <1>10, <1>11, <1>12, <1>13, <1>14, <1>15, <1>16, <1>17, <1>18, <1>19, <1>20, <1>21, <1>22, <1>23, <1>24, <1>25, <1>26, <1>27, <1>28, <1>29, <1>30, <1>31, <1>32, <1>33, <1>34
     DEF Next, MainStep, MainCall, ThreadStep, Exited

\* The stream CdStreamThread works on is in the queue until it is removed.
LEMMA HeadIsQueued ==
    ASSUME IInv,
           tpc \in {"SetInUse", "ReadFile", "GetOverlappedResult", "RemoveFirst"}
    PROVE  Queued(streamId) /\ streamId \in Streams /\ nSectorsToRead[streamId] # 0
<1>1. m_head # m_tail /\ m_queue[m_head] = streamId
  BY DEF IInv, ThreadInv
<1>2. m_head \in Occupied
  BY <1>1, DistanceRange DEF IInv, TypeOK, Occupied
<1>3. Queued(streamId) /\ streamId \in Streams
  BY <1>1, <1>2 DEF Queued, IInv, TypeOK
<1> QED BY <1>3 DEF IInv, LifeInv

\* What a call has found out of its stream stays true.
LEMMA CallStep ==
    ASSUME IInv, [Next]_vars
    PROVE  MainInv'
<1> USE DEF IInv, TypeOK, MainInv, vars, initVars, streamVars, queueVars, syncVars, mainVars, threadVars, bufferVars, Calls, Returns
<1>1. CASE CdStreamInit
  BY <1>1 DEF CdStreamInit
<1>2. CASE CdStreamInitThread
  BY <1>2 DEF CdStreamInitThread
<1>3. CASE Read_TestSectors
  BY <1>3 DEF Read_TestSectors
<1>4. CASE Read_TestInUse
  BY <1>4 DEF Read_TestInUse
<1>5. CASE Read_Fill
  BY <1>5 DEF Read_Fill
<1>6. CASE AddToQueue_Store
  BY <1>6 DEF AddToQueue_Store
<1>7. CASE AddToQueue_Advance
  BY <1>7 DEF AddToQueue_Advance
<1>8. CASE Read_Release
  BY <1>8 DEF Read_Release
<1>9. CASE GetStatus_TestInUse
  BY <1>9 DEF GetStatus_TestInUse
<1>10. CASE GetStatus_TestSectors
  BY <1>10 DEF GetStatus_TestSectors
<1>11. CASE GetStatus_Result
  BY <1>11 DEF GetStatus_Result
<1>12. CASE Sync_Lock
  BY <1>12 DEF Sync_Lock
<1>13. CASE Sync_Test
  BY <1>13 DEF Sync_Test
<1>14. CASE Sync_SetLocked
  BY <1>14 DEF Sync_SetLocked
<1>15. CASE Sync_Wait
  BY <1>15 DEF Sync_Wait, SyncInv, WakeUpIsForThisRead
<1>16. CASE Sync_Relock
  BY <1>16 DEF Sync_Relock
<1>17. CASE Sync_Finish
  BY <1>17 DEF Sync_Finish
<1>18. ASSUME NEW s \in Streams, NEW r \in Reads, CdStreamRead(s, r)
       PROVE  MainInv'
  BY <1>18 DEF CdStreamRead
<1>19. ASSUME NEW s \in Streams, CdStreamGetStatus(s)
       PROVE  MainInv'
  BY <1>19 DEF CdStreamGetStatus
<1>20. ASSUME NEW s \in Streams, CdStreamSync(s)
       PROVE  MainInv'
  BY <1>20 DEF CdStreamSync
<1>21. CASE CdStreamRemoveImages
  BY <1>21 DEF CdStreamRemoveImages
<1>22. CASE CdStreamShutdown
  BY <1>22 DEF CdStreamShutdown
<1>23. CASE Thread_Wait
  BY <1>23 DEF Thread_Wait
<1>24. CASE Thread_GetFirst
  BY <1>24 DEF Thread_GetFirst
<1>25. CASE Thread_SetInUse
  <2>1. mpc = "Read_Fill" => streamId # ms
    <3>1. SUFFICES ASSUME mpc = "Read_Fill", streamId = ms PROVE FALSE
      OBVIOUS
    <3>2. Queued(ms)
      BY <1>25, <3>1, HeadIsQueued DEF Thread_SetInUse
    <3> QED BY <3>1, <3>2 DEF LifeInv
  <2> QED BY <1>25, <2>1 DEF Thread_SetInUse
<1>26. CASE Thread_ReadFile
  BY <1>26 DEF Thread_ReadFile
<1>27. CASE Thread_GetOverlappedResult
  BY <1>27 DEF Thread_GetOverlappedResult
<1>28. CASE Thread_RemoveFirst
  BY <1>28 DEF Thread_RemoveFirst
<1>29. CASE Thread_Lock
  BY <1>29 DEF Thread_Lock
<1>30. CASE Thread_ClearSectors
  <2>1. cdStreamThreadSync = "Thread" /\ mpc # "Sync_SetLocked"
    BY <1>30 DEF Thread_ClearSectors, LockInv
  <2> QED BY <1>30, <2>1 DEF Thread_ClearSectors
<1>31. CASE Thread_Signal
  BY <1>31 DEF Thread_Signal
<1>32. CASE Thread_ClearInUse
  BY <1>32 DEF Thread_ClearInUse
<1>33. CASE Thread_Unlock
  BY <1>33 DEF Thread_Unlock
<1>34. CASE UNCHANGED vars
  BY <1>34 DEF vars
<1> QED BY <1>1, <1>2, <1>3, <1>4, <1>5, <1>6, <1>7, <1>8, <1>9, <1>10, <1>11, <1>12, <1>13, <1>14, <1>15, <1>16, <1>17, <1>18, <1>19, <1>20, <1>21, <1>22, <1>23, <1>24, <1>25, <1>26, <1>27, <1>28, <1>29, <1>30, <1>31, <1>32, <1>33, <1>34
     DEF Next, MainStep, MainCall, ThreadStep, Exited

\* The semaphore goes on counting the queue.
LEMMA CountStep ==
    ASSUME IInv, [Next]_vars
    PROVE  SemaphoreCountsQueue'
<1> USE DEF IInv, TypeOK, SemaphoreCountsQueue, QueueLength, One, ThreadHoldsFirst, vars, initVars, streamVars, queueVars, syncVars, mainVars, threadVars, bufferVars, Calls, Returns
<1>1. CASE CdStreamInit
  BY <1>1 DEF CdStreamInit
<1>2. CASE CdStreamInitThread
  <2>1. Distance(m_head', m_tail') = 0
    BY <1>2, DistanceRange, ZeroSlot DEF CdStreamInitThread
  <2> QED BY <1>2, <2>1 DEF CdStreamInitThread
<1>3. CASE Read_TestSectors
  BY <1>3 DEF Read_TestSectors
<1>4. CASE Read_TestInUse
  BY <1>4 DEF Read_TestInUse
<1>5. CASE Read_Fill
  BY <1>5 DEF Read_Fill
<1>6. CASE AddToQueue_Store
  BY <1>6 DEF AddToQueue_Store
<1>7. CASE AddToQueue_Advance
  <2>1. Distance(m_head', m_tail') = Distance(m_head, m_tail) + 1
    BY <1>7, NeverFull, MoveTail DEF AddToQueue_Advance
  <2>2. Distance(m_head, m_tail) \in Nat
    BY DistanceRange
  <2> QED BY <1>7, <2>1, <2>2 DEF AddToQueue_Advance
<1>8. CASE Read_Release
  <2>1. Distance(m_head, m_tail) \in 0 .. gStreamCount
    BY DistanceRange
  <2>2. gStreamSemaphore < StreamSemaphoreMax
    BY <1>8, <2>1 DEF Read_Release
  <2> QED BY <1>8, <2>1, <2>2 DEF Read_Release
<1>9. CASE GetStatus_TestInUse
  BY <1>9 DEF GetStatus_TestInUse
<1>10. CASE GetStatus_TestSectors
  BY <1>10 DEF GetStatus_TestSectors
<1>11. CASE GetStatus_Result
  BY <1>11 DEF GetStatus_Result
<1>12. CASE Sync_Lock
  BY <1>12 DEF Sync_Lock
<1>13. CASE Sync_Test
  BY <1>13 DEF Sync_Test
<1>14. CASE Sync_SetLocked
  BY <1>14 DEF Sync_SetLocked
<1>15. CASE Sync_Wait
  BY <1>15 DEF Sync_Wait
<1>16. CASE Sync_Relock
  BY <1>16 DEF Sync_Relock
<1>17. CASE Sync_Finish
  BY <1>17 DEF Sync_Finish
<1>18. ASSUME NEW s \in Streams, NEW r \in Reads, CdStreamRead(s, r)
       PROVE  SemaphoreCountsQueue'
  BY <1>18 DEF CdStreamRead
<1>19. ASSUME NEW s \in Streams, CdStreamGetStatus(s)
       PROVE  SemaphoreCountsQueue'
  BY <1>19 DEF CdStreamGetStatus
<1>20. ASSUME NEW s \in Streams, CdStreamSync(s)
       PROVE  SemaphoreCountsQueue'
  BY <1>20 DEF CdStreamSync
<1>21. CASE CdStreamRemoveImages
  BY <1>21 DEF CdStreamRemoveImages
<1>22. CASE CdStreamShutdown
  <2>1. Distance(m_head', m_tail') = 0
    BY <1>22, DistanceRange, ZeroSlot DEF CdStreamShutdown
  <2>2. Distance(m_head, m_tail) = 0
    BY <1>22, NothingQueued, DistanceRange DEF CdStreamShutdown, RemoveInv
  <2> QED BY <1>22, <2>1, <2>2 DEF CdStreamShutdown
<1>23. CASE Thread_Wait
  BY <1>23 DEF Thread_Wait
<1>24. CASE Thread_GetFirst
  BY <1>24 DEF Thread_GetFirst
<1>25. CASE Thread_SetInUse
  BY <1>25 DEF Thread_SetInUse
<1>26. CASE Thread_ReadFile
  BY <1>26 DEF Thread_ReadFile
<1>27. CASE Thread_GetOverlappedResult
  BY <1>27 DEF Thread_GetOverlappedResult
<1>28. CASE Thread_RemoveFirst
  <2>1. m_head # m_tail
    BY <1>28 DEF Thread_RemoveFirst, ThreadInv
  <2>2. Distance(m_head', m_tail') = Distance(m_head, m_tail) - 1
    BY <1>28, <2>1, MoveHead DEF Thread_RemoveFirst, RemoveFirstInQueue
  <2>3. Distance(m_head, m_tail) \in Nat
    BY DistanceRange
  <2> QED BY <1>28, <2>2, <2>3 DEF Thread_RemoveFirst
<1>29. CASE Thread_Lock
  BY <1>29 DEF Thread_Lock
<1>30. CASE Thread_ClearSectors
  BY <1>30 DEF Thread_ClearSectors
<1>31. CASE Thread_Signal
  BY <1>31 DEF Thread_Signal
<1>32. CASE Thread_ClearInUse
  BY <1>32 DEF Thread_ClearInUse
<1>33. CASE Thread_Unlock
  BY <1>33 DEF Thread_Unlock
<1>34. CASE UNCHANGED vars
  BY <1>34 DEF vars
<1> QED BY <1>1, <1>2, <1>3, <1>4, <1>5, <1>6, <1>7, <1>8, <1>9, <1>10, <1>11, <1>12, <1>13, <1>14, <1>15, <1>16, <1>17, <1>18, <1>19, <1>20, <1>21, <1>22, <1>23, <1>24, <1>25, <1>26, <1>27, <1>28, <1>29, <1>30, <1>31, <1>32, <1>33, <1>34
     DEF Next, MainStep, MainCall, ThreadStep, Exited

\* A CdStreamSync that waits gets one wake-up, and only then.
LEMMA WakeUpStep ==
    ASSUME IInv, [Next]_vars
    PROVE  SyncInv'
<1> USE DEF IInv, TypeOK, SyncInv, WakeUpIsForThisRead, Unsignalled, vars, initVars, streamVars, queueVars, syncVars, mainVars, threadVars, bufferVars, Calls, Returns
<1>1. CASE CdStreamInit
  BY <1>1 DEF CdStreamInit
<1>2. CASE CdStreamInitThread
  BY <1>2 DEF CdStreamInitThread
<1>3. CASE Read_TestSectors
  BY <1>3 DEF Read_TestSectors
<1>4. CASE Read_TestInUse
  BY <1>4 DEF Read_TestInUse
<1>5. CASE Read_Fill
  BY <1>5 DEF Read_Fill
<1>6. CASE AddToQueue_Store
  BY <1>6 DEF AddToQueue_Store
<1>7. CASE AddToQueue_Advance
  BY <1>7 DEF AddToQueue_Advance
<1>8. CASE Read_Release
  BY <1>8 DEF Read_Release
<1>9. CASE GetStatus_TestInUse
  BY <1>9 DEF GetStatus_TestInUse
<1>10. CASE GetStatus_TestSectors
  BY <1>10 DEF GetStatus_TestSectors
<1>11. CASE GetStatus_Result
  BY <1>11 DEF GetStatus_Result
<1>12. CASE Sync_Lock
  BY <1>12 DEF Sync_Lock
<1>13. CASE Sync_Test
  BY <1>13 DEF Sync_Test
<1>14. CASE Sync_SetLocked
  <2>1. nSectorsToRead[ms] # 0 /\ hSemaphore[ms] = 0
    BY <1>14 DEF Sync_SetLocked, MainInv
  <2> QED BY <1>14, <2>1 DEF Sync_SetLocked
<1>15. CASE Sync_Wait
  BY <1>15 DEF Sync_Wait
<1>16. CASE Sync_Relock
  BY <1>16 DEF Sync_Relock
<1>17. CASE Sync_Finish
  BY <1>17 DEF Sync_Finish
<1>18. ASSUME NEW s \in Streams, NEW r \in Reads, CdStreamRead(s, r)
       PROVE  SyncInv'
  BY <1>18 DEF CdStreamRead
<1>19. ASSUME NEW s \in Streams, CdStreamGetStatus(s)
       PROVE  SyncInv'
  BY <1>19 DEF CdStreamGetStatus
<1>20. ASSUME NEW s \in Streams, CdStreamSync(s)
       PROVE  SyncInv'
  BY <1>20 DEF CdStreamSync
<1>21. CASE CdStreamRemoveImages
  BY <1>21 DEF CdStreamRemoveImages
<1>22. CASE CdStreamShutdown
  BY <1>22 DEF CdStreamShutdown
<1>23. CASE Thread_Wait
  BY <1>23 DEF Thread_Wait
<1>24. CASE Thread_GetFirst
  BY <1>24 DEF Thread_GetFirst
<1>25. CASE Thread_SetInUse
  BY <1>25 DEF Thread_SetInUse
<1>26. CASE Thread_ReadFile
  BY <1>26 DEF Thread_ReadFile
<1>27. CASE Thread_GetOverlappedResult
  BY <1>27 DEF Thread_GetOverlappedResult
<1>28. CASE Thread_RemoveFirst
  BY <1>28 DEF Thread_RemoveFirst
<1>29. CASE Thread_Lock
  BY <1>29 DEF Thread_Lock
<1>30. CASE Thread_ClearSectors
  <2>1. streamId \in Streams
    BY <1>30 DEF Thread_ClearSectors, ThreadInv
  <2>2. nSectorsToRead[streamId] # 0
    BY <1>30, <2>1 DEF Thread_ClearSectors, LifeInv, Leaving
  <2> QED BY <1>30, <2>1, <2>2 DEF Thread_ClearSectors
<1>31. CASE Thread_Signal
  <2>1. streamId \in Streams /\ nSectorsToRead[streamId] = 0
    BY <1>31 DEF Thread_Signal, ThreadInv
  <2>2. CASE bLocked[streamId]
    <3>1. mpc = "Sync_Wait" /\ ms = streamId /\ hSemaphore[streamId] = 0
      BY <1>31, <2>1, <2>2 DEF Thread_Signal
    <3>2. hSemaphore' = [hSemaphore EXCEPT ![streamId] = 1]
      BY <1>31, <2>1, <2>2, <3>1 DEF Thread_Signal
    <3> QED BY <1>31, <2>1, <3>1, <3>2 DEF Thread_Signal
  <2>3. CASE ~bLocked[streamId]
    BY <1>31, <2>1, <2>3 DEF Thread_Signal
  <2> QED BY <2>2, <2>3
<1>32. CASE Thread_ClearInUse
  BY <1>32 DEF Thread_ClearInUse
<1>33. CASE Thread_Unlock
  BY <1>33 DEF Thread_Unlock
<1>34. CASE UNCHANGED vars
  BY <1>34 DEF vars
<1> QED BY <1>1, <1>2, <1>3, <1>4, <1>5, <1>6, <1>7, <1>8, <1>9, <1>10, <1>11, <1>12, <1>13, <1>14, <1>15, <1>16, <1>17, <1>18, <1>19, <1>20, <1>21, <1>22, <1>23, <1>24, <1>25, <1>26, <1>27, <1>28, <1>29, <1>30, <1>31, <1>32, <1>33, <1>34
     DEF Next, MainStep, MainCall, ThreadStep, Exited

\* A read that succeeds fills the buffer with what was accepted, and no other
\* stream is touched.
LEMMA OutcomeIsTheData ==
    ASSUME IInv, streamId \in Streams, nSectorsToRead[streamId] # 0, Outcome
    PROVE  /\ status'[streamId] = "SUCCESS" => data'[streamId] = accepted[streamId]
           /\ \A s \in Streams : s # streamId =>
                 status'[s] = status[s] /\ data'[s] = data[s]
<1>1. accepted[streamId] = [file |-> hFile[streamId],
                            offset |-> nSectorOffset[streamId]]
  BY DEF IInv, DataInv, Reads
<1> QED BY <1>1 DEF IInv, TypeOK, Outcome

\* A result is reported with its data.
LEMMA DataStep ==
    ASSUME IInv, [Next]_vars
    PROVE  DataInv'
<1> USE DEF IInv, TypeOK, DataInv, Unread, vars, initVars, streamVars, queueVars, syncVars, mainVars, threadVars, bufferVars, Calls, Returns
<1>1. CASE CdStreamInit
  BY <1>1 DEF CdStreamInit
<1>2. CASE CdStreamInitThread
  <2>1. tpc = "NotCreated"
    BY <1>2 DEF CdStreamInitThread, ThreadInv
  <2>2. \A s \in Streams : Unread(s)' <=> Unread(s)
    BY <1>2, <2>1 DEF CdStreamInitThread
  <2> QED BY <1>2, <2>2 DEF CdStreamInitThread
<1>3. CASE Read_TestSectors
  BY <1>3 DEF Read_TestSectors
<1>4. CASE Read_TestInUse
  BY <1>4 DEF Read_TestInUse
<1>5. CASE Read_Fill
  <2>1. nSectorsToRead[ms] = 0 /\ ~bInUse[ms] /\ expected[ms] # Garbage
    BY <1>5 DEF Read_Fill, MainInv
  <2>2. ~(streamId = ms /\ tpc \in {"RemoveFirst", "Lock", "ClearSectors"})
    BY <2>1 DEF ThreadInv
  <2>3. expected[ms] \in Reads
    BY <2>1 DEF Buffers
  <2>4. Unread(ms)' /\ \A s \in Streams : s # ms => (Unread(s)' <=> Unread(s))
    BY <1>5, <2>2 DEF Read_Fill
  <2> HIDE DEF Unread
  <2>5. \A s \in Streams : s # ms =>
           /\ nSectorsToRead'[s] = nSectorsToRead[s]
           /\ nSectorOffset'[s] = nSectorOffset[s]
           /\ accepted'[s] = accepted[s]
           /\ status'[s] = status[s]
           /\ data'[s] = data[s]
    BY <1>5 DEF Read_Fill
  <2>6. /\ nSectorOffset'[ms] = expected[ms].offset
        /\ accepted'[ms] = expected[ms]
        /\ status'[ms] = "SUCCESS"
    BY <1>5 DEF Read_Fill
  <2> QED BY <1>5, <2>1, <2>3, <2>4, <2>5, <2>6 DEF Read_Fill
<1>6. CASE AddToQueue_Store
  BY <1>6 DEF AddToQueue_Store
<1>7. CASE AddToQueue_Advance
  BY <1>7 DEF AddToQueue_Advance
<1>8. CASE Read_Release
  BY <1>8 DEF Read_Release
<1>9. CASE GetStatus_TestInUse
  BY <1>9 DEF GetStatus_TestInUse
<1>10. CASE GetStatus_TestSectors
  BY <1>10 DEF GetStatus_TestSectors
<1>11. CASE GetStatus_Result
  <2>1. nSectorsToRead[ms] = 0
    BY <1>11 DEF GetStatus_Result, MainInv
  <2> QED BY <1>11, <2>1 DEF GetStatus_Result
<1>12. CASE Sync_Lock
  BY <1>12 DEF Sync_Lock
<1>13. CASE Sync_Test
  BY <1>13 DEF Sync_Test
<1>14. CASE Sync_SetLocked
  BY <1>14 DEF Sync_SetLocked
<1>15. CASE Sync_Wait
  BY <1>15 DEF Sync_Wait
<1>16. CASE Sync_Relock
  BY <1>16 DEF Sync_Relock
<1>17. CASE Sync_Finish
  <2>1. nSectorsToRead[ms] = 0
    BY <1>17 DEF Sync_Finish, MainInv
  <2> QED BY <1>17, <2>1 DEF Sync_Finish
<1>18. ASSUME NEW s \in Streams, NEW r \in Reads, CdStreamRead(s, r)
       PROVE  DataInv'
  BY <1>18 DEF CdStreamRead
<1>19. ASSUME NEW s \in Streams, CdStreamGetStatus(s)
       PROVE  DataInv'
  BY <1>19 DEF CdStreamGetStatus
<1>20. ASSUME NEW s \in Streams, CdStreamSync(s)
       PROVE  DataInv'
  BY <1>20 DEF CdStreamSync
<1>21. CASE CdStreamRemoveImages
  BY <1>21 DEF CdStreamRemoveImages
<1>22. CASE CdStreamShutdown
  BY <1>22 DEF CdStreamShutdown
<1>23. CASE Thread_Wait
  BY <1>23 DEF Thread_Wait
<1>24. CASE Thread_GetFirst
  BY <1>24 DEF Thread_GetFirst
<1>25. CASE Thread_SetInUse
  BY <1>25 DEF Thread_SetInUse
<1>26. CASE Thread_ReadFile
  <2>1. streamId \in Streams /\ nSectorsToRead[streamId] # 0
    BY <1>26, HeadIsQueued DEF Thread_ReadFile
  <2>2. status[streamId] = "SUCCESS"
    BY <1>26, <2>1 DEF Thread_ReadFile
  <2>3. CASE Outcome /\ tpc' = "RemoveFirst"
    BY <1>26, <2>1, <2>3, OutcomeIsTheData DEF Thread_ReadFile
  <2>4. CASE UNCHANGED <<status, data>> /\ tpc' = "GetOverlappedResult"
    BY <1>26, <2>1, <2>4 DEF Thread_ReadFile
  <2> QED BY <1>26, <2>2, <2>3, <2>4 DEF Thread_ReadFile
<1>27. CASE Thread_GetOverlappedResult
  <2>1. streamId \in Streams /\ nSectorsToRead[streamId] # 0
    BY <1>27, HeadIsQueued DEF Thread_GetOverlappedResult
  <2> QED BY <1>27, <2>1, OutcomeIsTheData DEF Thread_GetOverlappedResult
<1>28. CASE Thread_RemoveFirst
  BY <1>28 DEF Thread_RemoveFirst
<1>29. CASE Thread_Lock
  BY <1>29 DEF Thread_Lock
<1>30. CASE Thread_ClearSectors
  BY <1>30 DEF Thread_ClearSectors
<1>31. CASE Thread_Signal
  BY <1>31 DEF Thread_Signal
<1>32. CASE Thread_ClearInUse
  BY <1>32 DEF Thread_ClearInUse
<1>33. CASE Thread_Unlock
  BY <1>33 DEF Thread_Unlock
<1>34. CASE UNCHANGED vars
  BY <1>34 DEF vars
<1> QED BY <1>1, <1>2, <1>3, <1>4, <1>5, <1>6, <1>7, <1>8, <1>9, <1>10, <1>11, <1>12, <1>13, <1>14, <1>15, <1>16, <1>17, <1>18, <1>19, <1>20, <1>21, <1>22, <1>23, <1>24, <1>25, <1>26, <1>27, <1>28, <1>29, <1>30, <1>31, <1>32, <1>33, <1>34
     DEF Next, MainStep, MainCall, ThreadStep, Exited

\* CdStreamRemoveImages leaves nothing to read behind.
LEMMA RemoveStep ==
    ASSUME IInv, [Next]_vars
    PROVE  RemoveInv'
<1> USE DEF IInv, TypeOK, RemoveInv, vars, initVars, streamVars, queueVars, syncVars, mainVars, threadVars, bufferVars, Calls, Returns
<1>1. CASE CdStreamInit
  BY <1>1 DEF CdStreamInit
<1>2. CASE CdStreamInitThread
  BY <1>2 DEF CdStreamInitThread
<1>3. CASE Read_TestSectors
  BY <1>3 DEF Read_TestSectors
<1>4. CASE Read_TestInUse
  BY <1>4 DEF Read_TestInUse
<1>5. CASE Read_Fill
  BY <1>5 DEF Read_Fill
<1>6. CASE AddToQueue_Store
  BY <1>6 DEF AddToQueue_Store
<1>7. CASE AddToQueue_Advance
  BY <1>7 DEF AddToQueue_Advance
<1>8. CASE Read_Release
  BY <1>8 DEF Read_Release
<1>9. CASE GetStatus_TestInUse
  BY <1>9 DEF GetStatus_TestInUse
<1>10. CASE GetStatus_TestSectors
  BY <1>10 DEF GetStatus_TestSectors
<1>11. CASE GetStatus_Result
  BY <1>11 DEF GetStatus_Result
<1>12. CASE Sync_Lock
  BY <1>12 DEF Sync_Lock
<1>13. CASE Sync_Test
  BY <1>13 DEF Sync_Test
<1>14. CASE Sync_SetLocked
  BY <1>14 DEF Sync_SetLocked
<1>15. CASE Sync_Wait
  BY <1>15 DEF Sync_Wait
<1>16. CASE Sync_Relock
  BY <1>16 DEF Sync_Relock
<1>17. CASE Sync_Finish
  <2>1. nSectorsToRead[ms] = 0
    BY <1>17 DEF Sync_Finish, MainInv
  <2>2. ASSUME removing, ms + 1 >= gStreamCount
        PROVE  tpc = "Wait" /\ \A s \in Streams : nSectorsToRead[s] = 0
    <3>1. \A s \in Streams : nSectorsToRead[s] = 0
      BY <2>1, <2>2 DEF Streams
    <3>2. tpc \notin {"SetInUse", "ReadFile", "GetOverlappedResult", "RemoveFirst"}
      BY <3>1, HeadIsQueued
    <3>3. tpc # "Lock"
      BY <3>1 DEF ThreadInv, LifeInv, Leaving
    <3>4. tpc \notin {"ClearSectors", "Signal", "ClearInUse", "Unlock"}
      BY <1>17 DEF LockInv, Sync_Finish
    <3>5. tpc # "GetFirst"
      BY <3>1, NothingQueued, DistanceRange
         DEF SemaphoreCountsQueue, QueueLength, One, ThreadHoldsFirst
    <3>6. tpc # "NotCreated"
      BY <1>17 DEF ThreadInv, Sync_Finish
    <3> QED BY <3>1, <3>2, <3>3, <3>4, <3>5, <3>6 DEF ThreadPcs
  <2>3. CASE ~removing
    BY <1>17, <2>3 DEF Sync_Finish
  <2>4. CASE removing /\ ms + 1 < gStreamCount
    BY <1>17, <2>1, <2>4 DEF Sync_Finish, Streams
  <2>5. CASE removing /\ ~(ms + 1 < gStreamCount)
    <3>1. tpc = "Wait" /\ \A s \in Streams : nSectorsToRead[s] = 0
      BY <2>2, <2>5 DEF Streams
    <3> QED BY <1>17, <2>5, <3>1 DEF Sync_Finish
  <2> QED BY <2>3, <2>4, <2>5
<1>18. ASSUME NEW s \in Streams, NEW r \in Reads, CdStreamRead(s, r)
       PROVE  RemoveInv'
  BY <1>18 DEF CdStreamRead
<1>19. ASSUME NEW s \in Streams, CdStreamGetStatus(s)
       PROVE  RemoveInv'
  BY <1>19 DEF CdStreamGetStatus
<1>20. ASSUME NEW s \in Streams, CdStreamSync(s)
       PROVE  RemoveInv'
  BY <1>20 DEF CdStreamSync
<1>21. CASE CdStreamRemoveImages
  BY <1>21 DEF CdStreamRemoveImages, Streams
<1>22. CASE CdStreamShutdown
  BY <1>22 DEF CdStreamShutdown
<1>23. CASE Thread_Wait
  <2>1. mpc \notin {"ImagesRemoved", "Shutdown"}
    <3>1. SUFFICES ASSUME mpc \in {"ImagesRemoved", "Shutdown"} PROVE FALSE
      OBVIOUS
    <3>2. m_head = m_tail
      BY <3>1, NothingQueued
    <3> QED BY <1>23, <3>1, <3>2, DistanceRange
            DEF Thread_Wait, SemaphoreCountsQueue, QueueLength, One,
                ThreadHoldsFirst
  <2> QED BY <1>23, <2>1 DEF Thread_Wait
<1>24. CASE Thread_GetFirst
  BY <1>24 DEF Thread_GetFirst
<1>25. CASE Thread_SetInUse
  BY <1>25 DEF Thread_SetInUse
<1>26. CASE Thread_ReadFile
  BY <1>26 DEF Thread_ReadFile
<1>27. CASE Thread_GetOverlappedResult
  BY <1>27 DEF Thread_GetOverlappedResult
<1>28. CASE Thread_RemoveFirst
  BY <1>28 DEF Thread_RemoveFirst
<1>29. CASE Thread_Lock
  BY <1>29 DEF Thread_Lock
<1>30. CASE Thread_ClearSectors
  BY <1>30 DEF Thread_ClearSectors
<1>31. CASE Thread_Signal
  BY <1>31 DEF Thread_Signal
<1>32. CASE Thread_ClearInUse
  BY <1>32 DEF Thread_ClearInUse
<1>33. CASE Thread_Unlock
  BY <1>33 DEF Thread_Unlock
<1>34. CASE UNCHANGED vars
  BY <1>34 DEF vars
<1> QED BY <1>1, <1>2, <1>3, <1>4, <1>5, <1>6, <1>7, <1>8, <1>9, <1>10, <1>11, <1>12, <1>13, <1>14, <1>15, <1>16, <1>17, <1>18, <1>19, <1>20, <1>21, <1>22, <1>23, <1>24, <1>25, <1>26, <1>27, <1>28, <1>29, <1>30, <1>31, <1>32, <1>33, <1>34
     DEF Next, MainStep, MainCall, ThreadStep, Exited

-----------------------------------------------------------------------------
\* The streams, the queue and the threads start as CdStreamInit leaves them.
LEMMA InitIInv == Init => IInv
<1> SUFFICES ASSUME Init PROVE IInv
  OBVIOUS
<1>1. Occupied = {} /\ QueueLength = 0
  BY DistanceRange, ZeroSlot DEF Init, Occupied, QueueLength
<1>2. TypeOK
  <2> USE ZeroStream, ZeroSlot
          DEF Init, MainPcs, ThreadPcs, Statuses, Answers, Buffers, NoAnswer
  <2>1. bLocked \in [Streams -> BOOLEAN] /\ bInUse \in [Streams -> BOOLEAN]
    OBVIOUS
  <2>2. /\ nSectorsToRead \in [Streams -> {0, SectorCount}]
        /\ status \in [Streams -> Statuses]
        /\ m_queue \in [Slots -> Streams]
        /\ hSemaphore \in [Streams -> 0 .. SyncSemaphoreMax]
        /\ data \in [Streams -> Buffers]
        /\ expected \in [Streams -> Buffers]
        /\ accepted \in [Streams -> Buffers]
    OBVIOUS
  <2>3. ret \in [op : {"None", "Read", "GetStatus", "Sync"}, s : Streams,
                val : Answers]
    OBVIOUS
  <2>4. /\ gStreamingInitialized \in BOOLEAN /\ gOverlappedIO \in BOOLEAN
        /\ removing \in BOOLEAN
    OBVIOUS
  <2>6. /\ m_head \in Slots /\ m_tail \in Slots
        /\ gStreamSemaphore \in 0 .. StreamSemaphoreMax
        /\ cdStreamThreadSync \in {"Nobody", "Main", "Thread"}
        /\ mpc \in MainPcs /\ ms \in Streams
        /\ tpc \in ThreadPcs /\ streamId \in Streams \cup {-1}
    OBVIOUS
  <2>5. nSectorOffset \in [Streams -> Sectors] /\ hFile \in [Streams -> Files]
    OBVIOUS
  <2> HIDE DEF Init, MainPcs, ThreadPcs, Statuses, Answers, Buffers, NoAnswer
  <2> QED BY <2>1, <2>2, <2>3, <2>4, <2>5, <2>6 DEF TypeOK
<1>3. LockInv /\ ThreadInv /\ MainInv /\ RemoveInv /\ SyncInv
  BY DEF Init, LockInv, ThreadInv, MainInv, RemoveInv, SyncInv,
         WakeUpIsForThisRead, Unsignalled
<1>4. LifeInv
  BY <1>1 DEF Init, LifeInv, Filling, Queued, Leaving
<1>5. SemaphoreCountsQueue
  BY <1>1 DEF Init, SemaphoreCountsQueue, One, ThreadHoldsFirst
<1>6. DataInv
  BY DEF Init, DataInv, Unread
<1> QED BY <1>2, <1>3, <1>4, <1>5, <1>6 DEF IInv

\* No step of either thread breaks the inductive invariant.
LEMMA IInvStep == IInv /\ [Next]_vars => IInv'
  BY TypeStep, LockStep, LifeStep, WorkStep, CallStep, CountStep, WakeUpStep,
     DataStep, RemoveStep
     DEF IInv

\* The inductive invariant holds in every state the two threads can reach.
THEOREM Inductive == Spec => []IInv
  BY InitIInv, IInvStep, PTL DEF Spec

-----------------------------------------------------------------------------
(* The invariants of the runs, for any number of streams. *)

\* No variable of CdStream ever leaves its type: the queue only holds streams
\* and no semaphore passes its maximum.
THEOREM TypeCorrect == Spec => []TypeOK
<1>1. IInv => TypeOK
  BY DEF IInv
<1> QED BY <1>1, Inductive, PTL

\* No wake-up of CdStreamThread is lost or made up.
THEOREM SemaphoreCorrect == Spec => []SemaphoreCountsQueue
<1>1. IInv => SemaphoreCountsQueue
  BY DEF IInv
<1> QED BY <1>1, Inductive, PTL

\* The queue of gStreamCount + 1 slots is large enough without a test.
THEOREM QueueCorrect == Spec => []QueueNeverOverflows
<1>1. IInv => QueueNeverOverflows
  BY NeverFull DEF IInv, LifeInv, QueueNeverOverflows
<1> QED BY <1>1, Inductive, PTL

\* CdStreamThread never reads gCdStreams[-1] and never reads nothing.
THEOREM ThreadCorrect == Spec => []ThreadHasWork
<1>1. IInv => ThreadHasWork
  <2> SUFFICES ASSUME IInv PROVE ThreadHasWork
    OBVIOUS
  <2>1. tpc = "GetFirst" => m_head # m_tail
    BY DistanceRange DEF IInv, TypeOK, SemaphoreCountsQueue, QueueLength, One,
                         ThreadHoldsFirst
  <2>2. tpc \in {"Lock", "ClearSectors"} =>
           streamId \in Streams /\ nSectorsToRead[streamId] # 0
    BY DEF IInv, ThreadInv, LifeInv, Leaving
  <2> QED BY <2>1, <2>2, HeadIsQueued DEF ThreadHasWork
<1> QED BY <1>1, Inductive, PTL

\* The queue, its semaphore and the thread fit together for any number of
\* streams.
THEOREM QueueSound == Spec => []QueueIsSound
<1>1. TypeOK /\ SemaphoreCountsQueue /\ QueueNeverOverflows /\ ThreadHasWork
         => QueueIsSound
  BY DEF QueueIsSound
<1> QED BY <1>1, TypeCorrect, SemaphoreCorrect, QueueCorrect, ThreadCorrect, PTL

\* No CdStreamSync is woken by an earlier read.
THEOREM WakeUpCorrect == Spec => []WakeUpIsForThisRead
<1>1. IInv => WakeUpIsForThisRead
  BY DEF IInv, SyncInv
<1> QED BY <1>1, Inductive, PTL

\* CdStreamSync returns after the end of the read and with its data.
THEOREM SyncCorrect == Spec => []SyncReturnsWithTheData
<1>1. IInv => SyncReturnsWithTheData
  <2> SUFFICES ASSUME IInv, mpc = "Sync_Finish"
               PROVE  nSectorsToRead[ms] = 0 /\ ~bInUse[ms] /\ Delivered(ms)
    BY DEF SyncReturnsWithTheData
  <2>1. ms \in Streams /\ nSectorsToRead[ms] = 0
    BY DEF IInv, TypeOK, MainInv
  <2> QED BY <2>1, SyncFreesNothing DEF IInv, DataInv, Unread, Delivered
<1> QED BY <1>1, Inductive, PTL

\* CdStreamGetStatus reports success of an accepted read with its data.
THEOREM StatusCorrect == Spec => []SuccessMeansTheData
<1>1. IInv => SuccessMeansTheData
  BY DEF IInv, TypeOK, MainInv, DataInv, Unread, Delivered, SuccessMeansTheData
<1> QED BY <1>1, Inductive, PTL

\* Nothing that CdStreamShutdown frees is in use by CdStreamThread.
THEOREM ShutdownCorrect == Spec => []FreedWhenThreadWaits
<1>1. IInv => FreedWhenThreadWaits
  <2> SUFFICES ASSUME IInv, mpc \in {"ImagesRemoved", "Shutdown"}
               PROVE  tpc = "Wait" /\ gStreamSemaphore = 0 /\ m_head = m_tail
    BY DEF FreedWhenThreadWaits
  <2>1. tpc = "Wait" /\ m_head = m_tail
    BY NothingQueued DEF IInv, RemoveInv
  <2>2. QueueLength = 0
    BY <2>1, DistanceRange DEF IInv, TypeOK, QueueLength
  <2> QED BY <2>1, <2>2 DEF IInv, TypeOK, SemaphoreCountsQueue, One, ThreadHoldsFirst
<1> QED BY <1>1, Inductive, PTL

-----------------------------------------------------------------------------
(* CdStreamService                                                         *)

\* What the device has not delivered is not in the buffer, and a read that
\* failed leaves nothing in it that could be taken for its data.
NothingTorn ==
    \A s \in Streams :
        nSectorsToRead[s] # 0 /\ (Unread(s) \/ status[s] # "SUCCESS") =>
            data[s] = Garbage

\* NothingTorn is kept where neither buffers nor results change
LEMMA QuietStep ==
    ASSUME NothingTorn, UNCHANGED <<nSectorsToRead, status, data>>,
           \A s \in Streams : Unread(s)' => Unread(s)
    PROVE  NothingTorn'
  BY DEF NothingTorn

LEMMA TornStep ==
    ASSUME IInv, NothingTorn, [Next]_vars
    PROVE  NothingTorn'
<1>1. CASE CdStreamInit
  BY <1>1, QuietStep DEF CdStreamInit, Unread, streamVars, threadVars, bufferVars
<1>2. CASE CdStreamInitThread
  <2>1. tpc = "NotCreated"
    BY <1>2 DEF CdStreamInitThread, IInv, ThreadInv
  <2> QED BY <1>2, <2>1, QuietStep DEF CdStreamInitThread, Unread, streamVars, bufferVars
<1>3. CASE Read_TestSectors
  BY <1>3, QuietStep DEF Read_TestSectors, Unread, streamVars, threadVars, bufferVars
<1>4. CASE Read_TestInUse
  BY <1>4, QuietStep DEF Read_TestInUse, Unread, streamVars, threadVars, bufferVars
<1>5. CASE Read_Fill
  <2>1. ms \in Streams /\ data' = [data EXCEPT ![ms] = Garbage] /\ data \in [Streams -> Buffers]
    BY <1>5 DEF Read_Fill, IInv, TypeOK
  <2>2. \A s \in Streams : s # ms =>
           /\ nSectorsToRead'[s] = nSectorsToRead[s] /\ status'[s] = status[s]
           /\ Unread(s)' => Unread(s)
    BY <1>5 DEF Read_Fill, IInv, TypeOK, Unread, threadVars
  <2> QED BY <2>1, <2>2 DEF NothingTorn
<1>6. CASE AddToQueue_Store
  BY <1>6, QuietStep DEF AddToQueue_Store, Unread, streamVars, threadVars, bufferVars
<1>7. CASE AddToQueue_Advance
  BY <1>7, QuietStep DEF AddToQueue_Advance, Unread, streamVars, threadVars, bufferVars
<1>8. CASE Read_Release
  BY <1>8, QuietStep DEF Read_Release, Unread, streamVars, threadVars, bufferVars
<1>9. CASE GetStatus_TestInUse
  BY <1>9, QuietStep DEF GetStatus_TestInUse, Unread, streamVars, threadVars, bufferVars
<1>10. CASE GetStatus_TestSectors
  BY <1>10, QuietStep DEF GetStatus_TestSectors, Unread, streamVars, threadVars, bufferVars
<1>11. CASE GetStatus_Result
  <2>1. ms \in Streams /\ nSectorsToRead[ms] = 0
    BY <1>11 DEF GetStatus_Result, IInv, TypeOK, MainInv
  <2> QED BY <1>11, <2>1 DEF GetStatus_Result, NothingTorn, Unread, IInv, TypeOK, threadVars
<1>12. CASE Sync_Lock
  BY <1>12, QuietStep DEF Sync_Lock, Unread, streamVars, threadVars, bufferVars
<1>13. CASE Sync_Test
  BY <1>13, QuietStep DEF Sync_Test, Unread, streamVars, threadVars, bufferVars
<1>14. CASE Sync_SetLocked
  BY <1>14, QuietStep DEF Sync_SetLocked, Unread, threadVars, bufferVars
<1>15. CASE Sync_Wait
  BY <1>15, QuietStep DEF Sync_Wait, Unread, streamVars, threadVars, bufferVars
<1>16. CASE Sync_Relock
  BY <1>16, QuietStep DEF Sync_Relock, Unread, streamVars, threadVars, bufferVars
<1>17. CASE Sync_Finish
  BY <1>17, QuietStep DEF Sync_Finish, Unread, threadVars, bufferVars
<1>18. ASSUME NEW s \in Streams, NEW r \in Reads, CdStreamRead(s, r)
       PROVE  NothingTorn'
  BY <1>18, QuietStep DEF CdStreamRead, Unread, threadVars, bufferVars
<1>19. ASSUME NEW s \in Streams, CdStreamGetStatus(s)
       PROVE  NothingTorn'
  BY <1>19, QuietStep DEF CdStreamGetStatus, Unread, streamVars, threadVars, bufferVars
<1>20. ASSUME NEW s \in Streams, CdStreamSync(s)
       PROVE  NothingTorn'
  BY <1>20, QuietStep DEF CdStreamSync, Unread, streamVars, threadVars, bufferVars
<1>21. CASE CdStreamRemoveImages
  BY <1>21, QuietStep DEF CdStreamRemoveImages, Unread, streamVars, threadVars, bufferVars
<1>22. CASE CdStreamShutdown
  BY <1>22, QuietStep DEF CdStreamShutdown, Unread, streamVars, threadVars, bufferVars
<1>23. CASE Thread_Wait
  BY <1>23, QuietStep DEF Thread_Wait, Unread, streamVars, threadVars, bufferVars
<1>24. CASE Thread_GetFirst
  BY <1>24, QuietStep DEF Thread_GetFirst, Unread, streamVars, bufferVars, IInv, TypeOK
<1>25. CASE Thread_SetInUse
  BY <1>25, QuietStep DEF Thread_SetInUse, Unread, streamVars, bufferVars, IInv, TypeOK
<1>26. CASE Thread_ReadFile
  <2>1. /\ streamId \in Streams /\ nSectorsToRead[streamId] # 0 /\ Unread(streamId)
        /\ status[streamId] = "SUCCESS"
    BY <1>26, HeadIsQueued DEF Thread_ReadFile, Unread, IInv, DataInv
  <2>2. CASE UNCHANGED <<status, data>>
    BY <1>26, <2>1, <2>2, QuietStep DEF Thread_ReadFile, Unread
  <2>3. CASE Outcome /\ tpc' = "RemoveFirst"
    BY <1>26, <2>1, <2>3 DEF Thread_ReadFile, Outcome, NothingTorn, Unread, IInv, TypeOK
  <2> QED BY <1>26, <2>1, <2>2, <2>3 DEF Thread_ReadFile
<1>27. CASE Thread_GetOverlappedResult
  <2>1. /\ streamId \in Streams /\ nSectorsToRead[streamId] # 0 /\ Unread(streamId)
    BY <1>27, HeadIsQueued DEF Thread_GetOverlappedResult, Unread
  <2> QED
    BY <1>27, <2>1 DEF Thread_GetOverlappedResult, Outcome, NothingTorn, Unread, IInv, TypeOK
<1>28. CASE Thread_RemoveFirst
  BY <1>28, QuietStep DEF Thread_RemoveFirst, Unread, streamVars, threadVars, bufferVars
<1>29. CASE Thread_Lock
  BY <1>29, QuietStep DEF Thread_Lock, Unread, streamVars, threadVars, bufferVars
<1>30. CASE Thread_ClearSectors
  <2>1. streamId \in Streams
    BY <1>30 DEF Thread_ClearSectors, IInv, ThreadInv
  <2> QED
    BY <1>30, <2>1 DEF Thread_ClearSectors, NothingTorn, Unread, IInv, TypeOK, bufferVars
<1>31. CASE Thread_Signal
  BY <1>31, QuietStep DEF Thread_Signal, Unread, streamVars, threadVars, bufferVars
<1>32. CASE Thread_ClearInUse
  BY <1>32, QuietStep DEF Thread_ClearInUse, Unread, threadVars, bufferVars
<1>33. CASE Thread_Unlock
  BY <1>33, QuietStep DEF Thread_Unlock, Unread, streamVars, threadVars, bufferVars
<1>34. CASE UNCHANGED vars
  BY <1>34, QuietStep DEF vars, Unread, streamVars, threadVars, bufferVars
<1> QED BY <1>1, <1>2, <1>3, <1>4, <1>5, <1>6, <1>7, <1>8, <1>9, <1>10, <1>11, <1>12,
            <1>13, <1>14, <1>15, <1>16, <1>17, <1>18, <1>19, <1>20, <1>21, <1>22,
            <1>23, <1>24, <1>25, <1>26, <1>27, <1>28, <1>29, <1>30, <1>31, <1>32,
            <1>33, <1>34
     DEF Next, MainStep, MainCall, ThreadStep, Exited

\* What the abstract streams show of the state
shown == <<nSectorsToRead, bInUse, status, data, accepted, ret>>

\* A step that leaves all of it alone is none to the caller
LEMMA ServiceStutters ==
    ASSUME UNCHANGED shown
    PROVE  [Service!Next]_(Service!vars)
  BY DEF shown, Service!vars, Phase, Over

\* A call begins
LEMMA ServiceCalled ==
    ASSUME UNCHANGED <<nSectorsToRead, bInUse, status, data, accepted>>, ret' = NoAnswer
    PROVE  [Service!Next]_(Service!vars)
<1>1. Service!Call
  BY DEF Service!Call, Service!NoAnswer, Service!Answer, NoAnswer, Phase, Over
<1> QED BY <1>1 DEF Service!Next

LEMMA ServiceStep ==
    ASSUME IInv, NothingTorn, [Next]_vars
    PROVE  [Service!Next]_(Service!vars)
<1> USE DEF streamVars, bufferVars, mainVars
<1>0. /\ nSectorsToRead \in [Streams -> {0, SectorCount}] /\ bInUse \in [Streams -> BOOLEAN]
      /\ status \in [Streams -> Statuses] /\ data \in [Streams -> Buffers]
      /\ accepted \in [Streams -> Buffers] /\ expected \in [Streams -> Buffers]
      /\ ms \in Streams
  BY DEF IInv, TypeOK
<1>1. CASE CdStreamInit
  BY <1>1, ServiceStutters DEF CdStreamInit, shown
<1>2. CASE CdStreamInitThread
  BY <1>2, ServiceStutters DEF CdStreamInitThread, shown
<1>3. CASE Read_TestSectors
  <2>1. CASE nSectorsToRead[ms] # 0
    <3>1. Service!Refuse(ms)
      BY <1>0, <1>3, <2>1 DEF Read_TestSectors, Returns, Service!Refuse, Service!Answer, Phase, Over
    <3> QED BY <1>0, <3>1 DEF Service!Next
  <2>2. CASE nSectorsToRead[ms] = 0
    BY <1>3, <2>2, ServiceStutters DEF Read_TestSectors, shown
  <2> QED BY <2>1, <2>2
<1>4. CASE Read_TestInUse
  <2>1. CASE bInUse[ms]
    <3>1. Service!Refuse(ms)
      BY <1>0, <1>4, <2>1 DEF Read_TestInUse, Returns, Service!Refuse, Service!Answer, Phase, Over
    <3> QED BY <1>0, <3>1 DEF Service!Next
  <2>2. CASE ~bInUse[ms]
    BY <1>4, <2>2, ServiceStutters DEF Read_TestInUse, shown
  <2> QED BY <2>1, <2>2
<1>5. CASE Read_Fill
  <2>1. nSectorsToRead[ms] = 0 /\ ~bInUse[ms] /\ expected[ms] \in Reads
    BY <1>0, <1>5 DEF Read_Fill, IInv, MainInv, Buffers
  <2>2. \A s \in Streams :
           /\ Phase(s)' = IF s = ms THEN "waiting" ELSE Phase(s)
           /\ Over(s)' <=> s # ms /\ Over(s)
           /\ s # ms => status'[s] = status[s] /\ data'[s] = data[s]
    BY <1>0, <1>5, <2>1 DEF Read_Fill, Phase, Over
  <2>3. Phase(ms) = "idle"
    BY <1>0, <2>1 DEF Phase
  <2>4. accepted' = [accepted EXCEPT ![ms] = expected[ms]]
        /\ ret' = [op |-> "Read", s |-> ms, val |-> "ACCEPTED"]
    BY <1>5 DEF Read_Fill
  <2>5. PICK c \in Streams, r \in Reads : c = ms /\ r = expected[ms]
    BY <1>0, <2>1
  <2>6. Service!Accept(c, r)
    BY <1>0, <2>2, <2>3, <2>4, <2>5 DEF Service!Accept, Service!Answer
  <2> QED BY <2>6 DEF Service!Next
<1>6. CASE AddToQueue_Store
  BY <1>6, ServiceStutters DEF AddToQueue_Store, shown
<1>7. CASE AddToQueue_Advance
  BY <1>7, ServiceStutters DEF AddToQueue_Advance, shown
<1>8. CASE Read_Release
  BY <1>8, ServiceStutters DEF Read_Release, shown
<1>9. CASE GetStatus_TestInUse
  <2>1. CASE bInUse[ms]
    <3>1. Service!ReportBusy(ms)
      BY <1>0, <1>9, <2>1
      DEF GetStatus_TestInUse, Returns, Service!ReportBusy, Service!Answer, Phase, Over
    <3> QED BY <1>0, <3>1 DEF Service!Next
  <2>2. CASE ~bInUse[ms]
    BY <1>9, <2>2, ServiceStutters DEF GetStatus_TestInUse, shown
  <2> QED BY <2>1, <2>2
<1>10. CASE GetStatus_TestSectors
  <2>1. CASE nSectorsToRead[ms] # 0
    <3>1. Service!ReportBusy(ms)
      BY <1>0, <1>10, <2>1
      DEF GetStatus_TestSectors, Returns, Service!ReportBusy, Service!Answer, Phase, Over
    <3> QED BY <1>0, <3>1 DEF Service!Next
  <2>2. CASE nSectorsToRead[ms] = 0
    BY <1>10, <2>2, ServiceStutters DEF GetStatus_TestSectors, shown
  <2> QED BY <2>1, <2>2
<1>11. CASE GetStatus_Result
  <2>1. nSectorsToRead[ms] = 0
    BY <1>11 DEF GetStatus_Result, IInv, MainInv
  <2>2. \A s \in Streams :
           /\ Phase(s)' = Phase(s) /\ Over(s)' = Over(s)
           /\ status'[s] = IF s = ms THEN "SUCCESS" ELSE status[s]
    BY <1>0, <1>11 DEF GetStatus_Result, Phase, Over
  <2>3. Phase(ms) \in {"idle", "settling"} /\ Over(ms)
    BY <1>0, <2>1 DEF Phase, Over
  <2>4. /\ ret' = [op |-> "GetStatus", s |-> ms, val |-> status[ms]]
        /\ accepted' = [accepted EXCEPT ![ms] = Garbage] /\ UNCHANGED data
    BY <1>11 DEF GetStatus_Result, Returns
  <2>5. PICK c \in Streams : c = ms
    BY <1>0
  <2>6. Service!ReportResult(c)
    BY <1>0, <2>2, <2>3, <2>4, <2>5 DEF Service!ReportResult, Service!Answer
  <2> QED BY <2>6 DEF Service!Next
<1>12. CASE Sync_Lock
  BY <1>12, ServiceStutters DEF Sync_Lock, shown
<1>13. CASE Sync_Test
  BY <1>13, ServiceStutters DEF Sync_Test, shown
<1>14. CASE Sync_SetLocked
  BY <1>14, ServiceStutters DEF Sync_SetLocked, shown
<1>15. CASE Sync_Wait
  BY <1>15, ServiceStutters DEF Sync_Wait, shown
<1>16. CASE Sync_Relock
  BY <1>16, ServiceStutters DEF Sync_Relock, shown
<1>17. CASE Sync_Finish
  <2>1. nSectorsToRead[ms] = 0 /\ ~bInUse[ms]
    BY <1>17, SyncFreesNothing DEF Sync_Finish, IInv, MainInv
  <2>2. bInUse' = bInUse
    BY <1>0, <1>17, <2>1 DEF Sync_Finish
  <2>3. Service!SyncReturns(ms)
    BY <1>0, <1>17, <2>1, <2>2 DEF Sync_Finish, Service!SyncReturns, Service!Answer, Phase, Over
  <2> QED BY <1>0, <2>3 DEF Service!Next
<1>18. ASSUME NEW s \in Streams, NEW r \in Reads, CdStreamRead(s, r)
       PROVE  [Service!Next]_(Service!vars)
  BY <1>18, ServiceCalled DEF CdStreamRead, Calls
<1>19. ASSUME NEW s \in Streams, CdStreamGetStatus(s)
       PROVE  [Service!Next]_(Service!vars)
  BY <1>19, ServiceCalled DEF CdStreamGetStatus, Calls
<1>20. ASSUME NEW s \in Streams, CdStreamSync(s)
       PROVE  [Service!Next]_(Service!vars)
  BY <1>20, ServiceCalled DEF CdStreamSync, Calls
<1>21. CASE CdStreamRemoveImages
  BY <1>21, ServiceCalled DEF CdStreamRemoveImages, Calls
<1>22. CASE CdStreamShutdown
  BY <1>22, ServiceStutters DEF CdStreamShutdown, shown
<1>23. CASE Thread_Wait
  BY <1>23, ServiceStutters DEF Thread_Wait, shown
<1>24. CASE Thread_GetFirst
  BY <1>24, ServiceStutters DEF Thread_GetFirst, shown
<1>25. CASE Thread_SetInUse
  <2>1. streamId \in Streams /\ nSectorsToRead[streamId] # 0 /\ ~bInUse[streamId]
    BY <1>25, HeadIsQueued DEF Thread_SetInUse, IInv, ThreadInv
  <2>2. Service!Start(streamId)
    BY <1>0, <1>25, <2>1 DEF Thread_SetInUse, Service!Start, Phase, Over
  <2> QED BY <2>1, <2>2 DEF Service!Next, Service!Progress
<1>26. CASE Thread_ReadFile
  <2>1. streamId \in Streams /\ nSectorsToRead[streamId] # 0
    BY <1>26, HeadIsQueued DEF Thread_ReadFile
  <2>2. \A s \in Streams : Over(s) => status'[s] = status[s] /\ data'[s] = data[s]
    BY <1>0, <1>26, <2>1 DEF Thread_ReadFile, Outcome, Over
  <2>3. UNCHANGED Service!vars
    BY <1>26, <2>2 DEF Thread_ReadFile, Service!vars, Phase, Over
  <2> QED BY <2>3
<1>27. CASE Thread_GetOverlappedResult
  <2>1. streamId \in Streams /\ nSectorsToRead[streamId] # 0
    BY <1>27, HeadIsQueued DEF Thread_GetOverlappedResult
  <2>2. \A s \in Streams : Over(s) => status'[s] = status[s] /\ data'[s] = data[s]
    BY <1>0, <1>27, <2>1 DEF Thread_GetOverlappedResult, Outcome, Over
  <2>3. UNCHANGED Service!vars
    BY <1>27, <2>2 DEF Thread_GetOverlappedResult, Service!vars, Phase, Over
  <2> QED BY <2>3
<1>28. CASE Thread_RemoveFirst
  BY <1>28, ServiceStutters DEF Thread_RemoveFirst, shown
<1>29. CASE Thread_Lock
  BY <1>29, ServiceStutters DEF Thread_Lock, shown
<1>30. CASE Thread_ClearSectors
  <2>1. /\ streamId \in Streams /\ nSectorsToRead[streamId] # 0 /\ bInUse[streamId]
        /\ ~Unread(streamId)
    BY <1>30 DEF Thread_ClearSectors, IInv, ThreadInv, LifeInv, Leaving, Unread
  <2>2. /\ status[streamId] = "SUCCESS" => data[streamId] = accepted[streamId]
        /\ status[streamId] # "SUCCESS" =>
              status[streamId] = "READING_FAILURE" /\ data[streamId] = Garbage
    BY <1>0, <2>1 DEF IInv, DataInv, NothingTorn, Statuses
  <2>3. nSectorsToRead' = [nSectorsToRead EXCEPT ![streamId] = 0]
        /\ UNCHANGED <<bInUse, status, data, accepted, ret>>
    BY <1>30 DEF Thread_ClearSectors
  <2>4. \A s \in Streams :
           /\ Phase(s)' = IF s = streamId THEN "settling" ELSE Phase(s)
           /\ Over(s)' <=> s = streamId \/ Over(s)
    BY <1>0, <2>1, <2>3 DEF Phase, Over
  <2>5. Phase(streamId) = "reading" /\ ~Over(streamId)
    BY <2>1 DEF Phase, Over
  <2>6. PICK c \in Streams : c = streamId
    BY <2>1
  <2>7. Service!Complete(c)
    <3>1. CASE status[streamId] = "SUCCESS"
      BY <1>0, <2>1, <2>2, <2>3, <2>4, <2>5, <2>6, <3>1 DEF Service!Complete
    <3>2. CASE status[streamId] # "SUCCESS"
      BY <1>0, <2>1, <2>2, <2>3, <2>4, <2>5, <2>6, <3>2 DEF Service!Complete
    <3> QED BY <3>1, <3>2
  <2> QED BY <2>7 DEF Service!Next, Service!Progress
<1>31. CASE Thread_Signal
  BY <1>31, ServiceStutters DEF Thread_Signal, shown
<1>32. CASE Thread_ClearInUse
  <2>1. streamId \in Streams /\ nSectorsToRead[streamId] = 0 /\ bInUse[streamId]
    BY <1>32 DEF Thread_ClearInUse, IInv, ThreadInv
  <2>2. Service!Settle(streamId)
    BY <1>0, <1>32, <2>1 DEF Thread_ClearInUse, Service!Settle, Phase, Over
  <2> QED BY <2>1, <2>2 DEF Service!Next, Service!Progress
<1>33. CASE Thread_Unlock
  BY <1>33, ServiceStutters DEF Thread_Unlock, shown
<1>34. CASE UNCHANGED vars
  BY <1>34, ServiceStutters DEF vars, shown
<1> QED BY <1>1, <1>2, <1>3, <1>4, <1>5, <1>6, <1>7, <1>8, <1>9, <1>10, <1>11, <1>12,
            <1>13, <1>14, <1>15, <1>16, <1>17, <1>18, <1>19, <1>20, <1>21, <1>22,
            <1>23, <1>24, <1>25, <1>26, <1>27, <1>28, <1>29, <1>30, <1>31, <1>32,
            <1>33, <1>34
     DEF Next, MainStep, MainCall, ThreadStep, Exited

LEMMA ServiceInit == Init => Service!Init /\ NothingTorn
<1>1. Init => Service!Init
  BY DEF Init, Service!Init, Service!NoAnswer, Service!Answer, NoAnswer, Phase, Over
<1>2. Init => NothingTorn
  BY DEF Init, NothingTorn
<1> QED BY <1>1, <1>2

\* The threads, the queue, the lock and the semaphores together take no step
\* that the abstract streams could not take: an answer to a caller is never
\* early, late for another read, or made up.  (That every accepted read is
\* carried out, the rest of ImplementsService, is left to TLC.)
THEOREM Implements == Spec => Service!Spec
<1>1. IInv /\ NothingTorn /\ [Next]_vars => NothingTorn'
  BY TornStep
<1>2. IInv /\ NothingTorn /\ [Next]_vars => [Service!Next]_(Service!vars)
  BY ServiceStep
<1> QED BY ServiceInit, Inductive, <1>1, <1>2, PTL DEF Spec, Service!Spec
=============================================================================
