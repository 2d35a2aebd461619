------------------------------ MODULE CdStream ------------------------------
(***************************************************************************)
(* The streaming of files from disk: source/game_sa/CdStreamInfo.cpp and   *)
(* the queue of source/game_sa/Queue.h.                                    *)
(*                                                                         *)
(* Two threads share the streams.  The main thread calls CdStreamRead,     *)
(* CdStreamGetStatus, CdStreamSync, CdStreamRemoveImages and               *)
(* CdStreamShutdown; CdStreamThread takes the streams out of the queue and *)
(* reads.  A step is one access to a shared variable, or several that the  *)
(* other thread cannot tell apart.  mpc and tpc are the two program        *)
(* counters.  The critical section of the build with                       *)
(* APPLY_CD_STREAM_DEADLOCK_FIX is modelled.                               *)
(***************************************************************************)
EXTENDS Integers

CONSTANTS gStreamCount,       \* number of streams (CGame::Initialise gives 5)
          StreamSemaphoreMax, \* maximum count of gStreamSemaphore (5)
          SyncSemaphoreMax,   \* maximum count of a stream's hSemaphore (2)
          Files,              \* the image files that are open
          Sectors,            \* the places a read may start at
          SectorCount,        \* the size of a read, never zero
          Garbage             \* a buffer content that is no read's data

Streams == 0 .. gStreamCount - 1

\* What a caller asks for: where to read (CdStreamPos)
Reads == [file : Files, offset : Sectors]

ASSUME CountAssumption == gStreamCount \in Nat \ {0}
ASSUME SectorAssumption == SectorCount \in Nat \ {0}
ASSUME SemaphoreAssumption ==
    /\ StreamSemaphoreMax \in Nat
    /\ gStreamCount <= StreamSemaphoreMax
    /\ SyncSemaphoreMax \in Nat \ {0}
ASSUME GarbageAssumption == Garbage \notin Reads

VARIABLES
    gStreamingInitialized, gOverlappedIO,
    \* the fields of CdStream, one function of the streams each
    nSectorOffset, nSectorsToRead, bLocked, bInUse, status, hFile,
    \* gStreamQueue
    m_queue, m_head, m_tail,
    \* semaphore counts and the owner of cdStreamThreadSync
    gStreamSemaphore, hSemaphore, cdStreamThreadSync,
    \* main thread: counter, stream of the current call, what it returns,
    \* whether it is one of CdStreamRemoveImages
    mpc, ms, ret, removing,
    \* CdStreamThread: counter and streamId
    tpc, streamId,
    \* what each stream's buffer holds, what its owner waits for, and the read
    \* that CdStreamRead accepted and whose end has not been reported
    data, expected, accepted

streamVars == <<nSectorOffset, nSectorsToRead, bLocked, bInUse, status, hFile>>
queueVars  == <<m_queue, m_head, m_tail>>
syncVars   == <<gStreamSemaphore, hSemaphore, cdStreamThreadSync>>
mainVars   == <<mpc, ms, ret, removing>>
threadVars == <<tpc, streamId>>
bufferVars == <<data, expected, accepted>>
initVars   == <<gStreamingInitialized, gOverlappedIO>>

vars == <<initVars, streamVars, queueVars, syncVars, mainVars, threadVars,
          bufferVars>>

\* Mutant: a full queue looks like an empty one
m_size_Short == gStreamCount

m_size == gStreamCount + 1

Slots == 0 .. m_size - 1

NoAnswer == [op |-> "None", s |-> 0, val |-> "SUCCESS"]

Init ==
    /\ gStreamingInitialized = FALSE
    /\ gOverlappedIO = TRUE
    /\ nSectorOffset \in [Streams -> Sectors]
    /\ nSectorsToRead = [s \in Streams |-> 0]
    /\ bLocked = [s \in Streams |-> FALSE]
    /\ bInUse = [s \in Streams |-> FALSE]
    /\ status = [s \in Streams |-> "SUCCESS"]
    /\ hFile \in [Streams -> Files]
    /\ m_queue = [i \in Slots |-> 0]
    /\ m_head = 0
    /\ m_tail = 0
    /\ gStreamSemaphore = 0
    /\ hSemaphore = [s \in Streams |-> 0]
    /\ cdStreamThreadSync = "Nobody"
    /\ mpc = "Init"
    /\ ms = 0
    /\ ret = NoAnswer
    /\ removing = FALSE
    /\ tpc = "NotCreated"
    /\ streamId = -1
    /\ data = [s \in Streams |-> Garbage]
    /\ expected = [s \in Streams |-> Garbage]
    /\ accepted = [s \in Streams |-> Garbage]

\* A call on stream s begins at pc
Calls(s, pc) ==
    /\ ms' = s
    /\ ret' = NoAnswer
    /\ mpc' = pc

\* The current call returns val
Returns(op, val) ==
    /\ ret' = [op |-> op, s |-> ms, val |-> val]
    /\ mpc' = "Idle"

(***************************************************************************)
(* CdStreamInit.  Only the main thread exists.  The trial read of one      *)
(* sector from stream 0 says whether overlapped reads work;                *)
(* CdStreamRemoveImages waits for it and drops its result.                 *)
(***************************************************************************)
CdStreamInit ==
    /\ mpc = "Init"
    /\ \E bStreamRead \in BOOLEAN : gOverlappedIO' = bStreamRead
    /\ gStreamingInitialized' = TRUE
    /\ mpc' = "InitThread"
    /\ UNCHANGED <<streamVars, queueVars, syncVars, ms, ret, removing,
                   threadVars, bufferVars>>

\* Mutant: the count given to the semaphore as its initial value
CdStreamInitThread_Signalled ==
    /\ mpc = "InitThread"
    /\ hSemaphore' = [s \in Streams |-> 0]
    /\ m_head' = 0
    /\ m_tail' = 0
    /\ gStreamSemaphore' = 1
    /\ tpc' = "Wait"
    /\ mpc' = "Idle"
    /\ UNCHANGED <<initVars, streamVars, m_queue, cdStreamThreadSync, ms,
                   ret, removing, streamId, bufferVars>>

CdStreamInitThread ==
    /\ mpc = "InitThread"
    /\ hSemaphore' = [s \in Streams |-> 0]
    /\ m_head' = 0
    /\ m_tail' = 0
    /\ gStreamSemaphore' = 0
    /\ tpc' = "Wait"
    /\ mpc' = "Idle"
    /\ UNCHANGED <<initVars, streamVars, m_queue, cdStreamThreadSync, ms,
                   ret, removing, streamId, bufferVars>>

(***************************************************************************)
(* CdStreamRead.  A caller asks for something else only when it believes   *)
(* that its last read of the stream is over (a channel of CStreaming that  *)
(* is idle, a request of CAEMP3BankLoader that has seen READING_SUCCESS),  *)
(* or repeats the read it waits for (CStreaming::RetryLoadFile).  No       *)
(* caller looks at the value returned.                                     *)
(***************************************************************************)
CdStreamRead(s, r) ==
    /\ mpc = "Idle"
    /\ expected[s] \in {Garbage, r}
    /\ hFile' = [hFile EXCEPT ![s] = r.file]
    /\ expected' = [expected EXCEPT ![s] = r]
    /\ Calls(s, "Read_TestSectors")
    /\ UNCHANGED <<initVars, nSectorOffset, nSectorsToRead, bLocked, bInUse,
                   status, queueVars, syncVars, removing, threadVars,
                   data, accepted>>

\* Mutant: only bInUse is tested
Read_TestSectors_Dropped ==
    /\ mpc = "Read_TestSectors"
    /\ mpc' = "Read_TestInUse"
    /\ UNCHANGED ret
    /\ UNCHANGED <<initVars, streamVars, queueVars, syncVars, ms, removing,
                   threadVars, bufferVars>>

Read_TestSectors ==
    /\ mpc = "Read_TestSectors"
    /\ IF nSectorsToRead[ms] # 0
         THEN Returns("Read", "REFUSED")
         ELSE mpc' = "Read_TestInUse" /\ UNCHANGED ret
    /\ UNCHANGED <<initVars, streamVars, queueVars, syncVars, ms, removing,
                   threadVars, bufferVars>>

Read_TestInUse ==
    /\ mpc = "Read_TestInUse"
    /\ IF bInUse[ms]
         THEN Returns("Read", "REFUSED")
         ELSE mpc' = "Read_Fill" /\ UNCHANGED ret
    /\ UNCHANGED <<initVars, streamVars, queueVars, syncVars, ms, removing,
                   threadVars, bufferVars>>

\* Mutant: bLocked is left from the last CdStreamSync
Read_Fill_KeepsLocked ==
    /\ mpc = "Read_Fill"
    /\ status' = [status EXCEPT ![ms] = "SUCCESS"]
    /\ nSectorOffset' = [nSectorOffset EXCEPT ![ms] = expected[ms].offset]
    /\ nSectorsToRead' = [nSectorsToRead EXCEPT ![ms] = SectorCount]
    /\ data' = [data EXCEPT ![ms] = Garbage]
    /\ accepted' = [accepted EXCEPT ![ms] = expected[ms]]
    /\ UNCHANGED bLocked
    /\ ret' = [op |-> "Read", s |-> ms, val |-> "ACCEPTED"]
    /\ mpc' = "AddToQueue_Store"
    /\ UNCHANGED <<initVars, bInUse, hFile, queueVars, syncVars, ms,
                   removing, threadVars, expected>>

\* The read is accepted: from here on the call will return true
Read_Fill ==
    /\ mpc = "Read_Fill"
    /\ status' = [status EXCEPT ![ms] = "SUCCESS"]
    /\ nSectorOffset' = [nSectorOffset EXCEPT ![ms] = expected[ms].offset]
    /\ nSectorsToRead' = [nSectorsToRead EXCEPT ![ms] = SectorCount]
    /\ data' = [data EXCEPT ![ms] = Garbage]
    /\ accepted' = [accepted EXCEPT ![ms] = expected[ms]]
    /\ bLocked' = [bLocked EXCEPT ![ms] = FALSE]
    /\ ret' = [op |-> "Read", s |-> ms, val |-> "ACCEPTED"]
    /\ mpc' = "AddToQueue_Store"
    /\ UNCHANGED <<initVars, bInUse, hFile, queueVars, syncVars, ms,
                   removing, threadVars, expected>>

AddToQueue_Store ==
    /\ mpc = "AddToQueue_Store"
    /\ m_queue' = [m_queue EXCEPT ![m_tail] = ms]
    /\ mpc' = "AddToQueue_Advance"
    /\ UNCHANGED <<initVars, streamVars, m_head, m_tail, syncVars, ms, ret,
                   removing, threadVars, bufferVars>>

AddToQueue_Advance ==
    /\ mpc = "AddToQueue_Advance"
    /\ m_tail' = (m_tail + 1) % m_size
    /\ mpc' = "Read_Release"
    /\ UNCHANGED <<initVars, streamVars, m_queue, m_head, syncVars, ms, ret,
                   removing, threadVars, bufferVars>>

\* ReleaseSemaphore fails, and leaves the count alone, at the maximum
Read_Release ==
    /\ mpc = "Read_Release"
    /\ gStreamSemaphore' = IF gStreamSemaphore < StreamSemaphoreMax
                             THEN gStreamSemaphore + 1
                             ELSE gStreamSemaphore
    /\ mpc' = "Idle"
    /\ UNCHANGED <<initVars, streamVars, queueVars, hSemaphore,
                   cdStreamThreadSync, ms, ret, removing, threadVars,
                   bufferVars>>

(***************************************************************************)
(* CdStreamGetStatus.  Three reads without the lock; a result that is not  *)
(* READING_SUCCESS is reported once.  A caller that is told the result     *)
(* stops waiting.                                                          *)
(***************************************************************************)
CdStreamGetStatus(s) ==
    /\ mpc = "Idle"
    /\ Calls(s, "GetStatus_TestInUse")
    /\ UNCHANGED <<initVars, streamVars, queueVars, syncVars, removing,
                   threadVars, bufferVars>>

GetStatus_TestInUse ==
    /\ mpc = "GetStatus_TestInUse"
    /\ IF bInUse[ms]
         THEN Returns("GetStatus", "READING")
         ELSE mpc' = "GetStatus_TestSectors" /\ UNCHANGED ret
    /\ UNCHANGED <<initVars, streamVars, queueVars, syncVars, ms, removing,
                   threadVars, bufferVars>>

\* Mutant: a stream that waits in the queue is not told from one that is done
GetStatus_TestSectors_Dropped ==
    /\ mpc = "GetStatus_TestSectors"
    /\ mpc' = "GetStatus_Result"
    /\ UNCHANGED ret
    /\ UNCHANGED <<initVars, streamVars, queueVars, syncVars, ms, removing,
                   threadVars, bufferVars>>

GetStatus_TestSectors ==
    /\ mpc = "GetStatus_TestSectors"
    /\ IF nSectorsToRead[ms] # 0
         THEN Returns("GetStatus", "WAITING_TO_READ")
         ELSE mpc' = "GetStatus_Result" /\ UNCHANGED ret
    /\ UNCHANGED <<initVars, streamVars, queueVars, syncVars, ms, removing,
                   threadVars, bufferVars>>

\* Mutant: a failure is reported again and again
GetStatus_Result_Sticky ==
    /\ mpc = "GetStatus_Result"
    /\ Returns("GetStatus", status[ms])
    /\ UNCHANGED status
    /\ expected' = [expected EXCEPT ![ms] = Garbage]
    /\ accepted' = [accepted EXCEPT ![ms] = Garbage]
    /\ UNCHANGED <<initVars, nSectorOffset, nSectorsToRead, bLocked, bInUse,
                   hFile, queueVars, syncVars, ms, removing, threadVars,
                   data>>

GetStatus_Result ==
    /\ mpc = "GetStatus_Result"
    /\ Returns("GetStatus", status[ms])
    /\ status' = [status EXCEPT ![ms] = "SUCCESS"]
    /\ expected' = [expected EXCEPT ![ms] = Garbage]
    /\ accepted' = [accepted EXCEPT ![ms] = Garbage]
    /\ UNCHANGED <<initVars, nSectorOffset, nSectorsToRead, bLocked, bInUse,
                   hFile, queueVars, syncVars, ms, removing, threadVars,
                   data>>

(***************************************************************************)
(* CdStreamSync, and CdStreamRemoveImages, which calls it for each stream  *)
(* in turn (gOpenStreamCount is always 0: its second loop does nothing).   *)
(***************************************************************************)
CdStreamSync(s) ==
    /\ mpc = "Idle"
    /\ Calls(s, "Sync_Lock")
    /\ UNCHANGED <<initVars, streamVars, queueVars, syncVars, removing,
                   threadVars, bufferVars>>

\* Mutant: the loop starts at the second stream
CdStreamRemoveImages_FromOne ==
    /\ mpc = "Idle"
    /\ Calls(1, "Sync_Lock")
    /\ removing' = TRUE
    /\ UNCHANGED <<initVars, streamVars, queueVars, syncVars,
                   threadVars, bufferVars>>

CdStreamRemoveImages ==
    /\ mpc = "Idle"
    /\ Calls(0, "Sync_Lock")
    /\ removing' = TRUE
    /\ UNCHANGED <<initVars, streamVars, queueVars, syncVars,
                   threadVars, bufferVars>>

Sync_Lock ==
    /\ mpc = "Sync_Lock"
    /\ cdStreamThreadSync = "Nobody"
    /\ cdStreamThreadSync' = "Main"
    /\ mpc' = "Sync_Test"
    /\ UNCHANGED <<initVars, streamVars, queueVars, gStreamSemaphore,
                   hSemaphore, ms, ret, removing, threadVars, bufferVars>>

\* Mutant: waits for a stream that is being read only, not for one in the queue
Sync_Test_Inverted ==
    /\ mpc = "Sync_Test"
    /\ mpc' = IF bInUse[ms] THEN "Sync_SetLocked" ELSE "Sync_Finish"
    /\ UNCHANGED <<initVars, streamVars, queueVars, syncVars, ms, ret, removing,
                   threadVars, bufferVars>>

Sync_Test ==
    /\ mpc = "Sync_Test"
    /\ mpc' = IF nSectorsToRead[ms] # 0 THEN "Sync_SetLocked" ELSE "Sync_Finish"
    /\ UNCHANGED <<initVars, streamVars, queueVars, syncVars, ms, ret, removing,
                   threadVars, bufferVars>>

Sync_SetLocked ==
    /\ mpc = "Sync_SetLocked"
    /\ bLocked' = [bLocked EXCEPT ![ms] = TRUE]
    /\ cdStreamThreadSync' = "Nobody"
    /\ mpc' = "Sync_Wait"
    /\ UNCHANGED <<initVars, nSectorOffset, nSectorsToRead, bInUse, status,
                   hFile, queueVars, gStreamSemaphore, hSemaphore, ms, ret,
                   removing, threadVars, bufferVars>>

Sync_Wait ==
    /\ mpc = "Sync_Wait"
    /\ hSemaphore[ms] > 0
    /\ hSemaphore' = [hSemaphore EXCEPT ![ms] = @ - 1]
    /\ mpc' = "Sync_Relock"
    /\ UNCHANGED <<initVars, streamVars, queueVars, gStreamSemaphore,
                   cdStreamThreadSync, ms, ret, removing, threadVars,
                   bufferVars>>

Sync_Relock ==
    /\ mpc = "Sync_Relock"
    /\ cdStreamThreadSync = "Nobody"
    /\ cdStreamThreadSync' = "Main"
    /\ mpc' = "Sync_Finish"
    /\ UNCHANGED <<initVars, streamVars, queueVars, gStreamSemaphore,
                   hSemaphore, ms, ret, removing, threadVars, bufferVars>>

Sync_Finish ==
    /\ mpc = "Sync_Finish"
    /\ bInUse' = [bInUse EXCEPT ![ms] = FALSE]
    /\ ret' = [op |-> "Sync", s |-> ms, val |-> status[ms]]
    /\ expected' = [expected EXCEPT ![ms] = Garbage]
    /\ accepted' = [accepted EXCEPT ![ms] = Garbage]
    /\ cdStreamThreadSync' = "Nobody"
    /\ IF ~removing
         THEN mpc' = "Idle" /\ UNCHANGED ms
         ELSE IF ms + 1 < gStreamCount
                THEN mpc' = "Sync_Lock" /\ ms' = ms + 1
                ELSE mpc' = "ImagesRemoved" /\ UNCHANGED ms
    /\ UNCHANGED <<initVars, nSectorOffset, nSectorsToRead, bLocked, status,
                   hFile, queueVars, gStreamSemaphore, hSemaphore,
                   removing, threadVars, data>>

\* CGame::FinalShutdown: the queue, the semaphores and the streams are freed
CdStreamShutdown ==
    /\ mpc = "ImagesRemoved"
    /\ m_head' = 0
    /\ m_tail' = 0
    /\ mpc' = "Shutdown"
    /\ UNCHANGED <<initVars, streamVars, m_queue, syncVars, ms, ret,
                   removing, threadVars, bufferVars>>

(***************************************************************************)
(* CdStreamThread                                                          *)
(***************************************************************************)
Thread_Wait ==
    /\ tpc = "Wait"
    /\ gStreamSemaphore > 0
    /\ gStreamSemaphore' = gStreamSemaphore - 1
    /\ tpc' = "GetFirst"
    /\ UNCHANGED <<initVars, streamVars, queueVars, hSemaphore,
                   cdStreamThreadSync, mainVars, streamId, bufferVars>>

GetFirstInQueue == IF m_head = m_tail THEN -1 ELSE m_queue[m_head]

Thread_GetFirst ==
    /\ tpc = "GetFirst"
    /\ streamId' = GetFirstInQueue
    /\ tpc' = "SetInUse"
    /\ UNCHANGED <<initVars, streamVars, queueVars, syncVars, mainVars,
                   bufferVars>>

Thread_SetInUse ==
    /\ tpc = "SetInUse"
    /\ bInUse' = [bInUse EXCEPT ![streamId] = TRUE]
    /\ tpc' = "ReadFile"
    /\ UNCHANGED <<initVars, nSectorOffset, nSectorsToRead, bLocked, status,
                   hFile, queueVars, syncVars, mainVars, streamId, bufferVars>>

\* The outcome of a read: all of it is in the buffer, or the read has failed
Outcome ==
    \/ /\ status' = [status EXCEPT ![streamId] = "SUCCESS"]
       /\ data' = [data EXCEPT ![streamId] =
                      [file |-> hFile[streamId],
                       offset |-> nSectorOffset[streamId]]]
    \/ /\ status' = [status EXCEPT ![streamId] = "READING_FAILURE"]
       /\ UNCHANGED data

\* An overlapped read may be left pending; nothing is read for a stream whose
\* status is not READING_SUCCESS
Thread_ReadFile ==
    /\ tpc = "ReadFile"
    /\ \/ /\ IF status[streamId] = "SUCCESS"
               THEN Outcome
               ELSE UNCHANGED <<status, data>>
          /\ tpc' = "RemoveFirst"
       \/ /\ status[streamId] = "SUCCESS"
          /\ gOverlappedIO
          /\ tpc' = "GetOverlappedResult"
          /\ UNCHANGED <<status, data>>
    /\ UNCHANGED <<initVars, nSectorOffset, nSectorsToRead, bLocked, bInUse,
                   hFile, queueVars, syncVars, mainVars, streamId, expected,
                   accepted>>

Thread_GetOverlappedResult ==
    /\ tpc = "GetOverlappedResult"
    /\ Outcome
    /\ tpc' = "RemoveFirst"
    /\ UNCHANGED <<initVars, nSectorOffset, nSectorsToRead, bLocked, bInUse,
                   hFile, queueVars, syncVars, mainVars, streamId, expected,
                   accepted>>

\* Mutant: the head runs off the ring
RemoveFirstInQueue_NoWrap ==
    m_head' = IF m_head # m_tail THEN m_head + 1 ELSE m_head

RemoveFirstInQueue ==
    m_head' = IF m_head # m_tail THEN (m_head + 1) % m_size ELSE m_head

Thread_RemoveFirst ==
    /\ tpc = "RemoveFirst"
    /\ RemoveFirstInQueue
    /\ tpc' = "Lock"
    /\ UNCHANGED <<initVars, streamVars, m_queue, m_tail, syncVars, mainVars,
                   streamId, bufferVars>>

\* Mutant: without APPLY_CD_STREAM_DEADLOCK_FIX in the thread
Thread_Lock_Dropped ==
    /\ tpc = "Lock"
    /\ UNCHANGED cdStreamThreadSync
    /\ tpc' = "ClearSectors"
    /\ UNCHANGED <<initVars, streamVars, queueVars, gStreamSemaphore,
                   hSemaphore, mainVars, streamId, bufferVars>>

Thread_Lock ==
    /\ tpc = "Lock"
    /\ cdStreamThreadSync = "Nobody"
    /\ cdStreamThreadSync' = "Thread"
    /\ tpc' = "ClearSectors"
    /\ UNCHANGED <<initVars, streamVars, queueVars, gStreamSemaphore,
                   hSemaphore, mainVars, streamId, bufferVars>>

Thread_ClearSectors ==
    /\ tpc = "ClearSectors"
    /\ nSectorsToRead' = [nSectorsToRead EXCEPT ![streamId] = 0]
    /\ tpc' = "Signal"
    /\ UNCHANGED <<initVars, nSectorOffset, bLocked, bInUse, status, hFile,
                   queueVars, syncVars, mainVars, streamId, bufferVars>>

Thread_Signal ==
    /\ tpc = "Signal"
    /\ hSemaphore' = IF bLocked[streamId] /\ hSemaphore[streamId] < SyncSemaphoreMax
                       THEN [hSemaphore EXCEPT ![streamId] = @ + 1]
                       ELSE hSemaphore
    /\ tpc' = "ClearInUse"
    /\ UNCHANGED <<initVars, streamVars, queueVars, gStreamSemaphore,
                   cdStreamThreadSync, mainVars, streamId, bufferVars>>

Thread_ClearInUse ==
    /\ tpc = "ClearInUse"
    /\ bInUse' = [bInUse EXCEPT ![streamId] = FALSE]
    /\ tpc' = "Unlock"
    /\ UNCHANGED <<initVars, nSectorOffset, nSectorsToRead, bLocked, status,
                   hFile, queueVars, syncVars, mainVars, streamId, bufferVars>>

Thread_Unlock ==
    /\ tpc = "Unlock"
    /\ cdStreamThreadSync' = "Nobody"
    /\ tpc' = "Wait"
    /\ UNCHANGED <<initVars, streamVars, queueVars, gStreamSemaphore,
                   hSemaphore, mainVars, streamId, bufferVars>>

-----------------------------------------------------------------------------
\* The steps of a call that has begun
MainStep ==
    \/ CdStreamInit \/ CdStreamInitThread
    \/ Read_TestSectors \/ Read_TestInUse \/ Read_Fill
    \/ AddToQueue_Store \/ AddToQueue_Advance \/ Read_Release
    \/ GetStatus_TestInUse \/ GetStatus_TestSectors \/ GetStatus_Result
    \/ Sync_Lock \/ Sync_Test \/ Sync_SetLocked \/ Sync_Wait \/ Sync_Relock
    \/ Sync_Finish

\* The calls the game makes
MainCall ==
    \/ \E s \in Streams : \/ \E r \in Reads : CdStreamRead(s, r)
                          \/ CdStreamGetStatus(s)
                          \/ CdStreamSync(s)
    \/ CdStreamRemoveImages
    \/ CdStreamShutdown

ThreadStep ==
    \/ Thread_Wait \/ Thread_GetFirst \/ Thread_SetInUse \/ Thread_ReadFile
    \/ Thread_GetOverlappedResult \/ Thread_RemoveFirst \/ Thread_Lock
    \/ Thread_ClearSectors \/ Thread_Signal \/ Thread_ClearInUse
    \/ Thread_Unlock

\* The process exits
Exited == mpc = "Shutdown" /\ UNCHANGED vars

Next == MainStep \/ MainCall \/ ThreadStep \/ Exited

Spec == Init /\ [][Next]_vars

\* Both threads are scheduled, and EnterCriticalSection does not starve
\* CdStreamThread for ever when the section is free again and again
FairSpec ==
    /\ Spec
    /\ WF_vars(MainStep)
    /\ WF_vars(ThreadStep)
    /\ SF_vars(Thread_Lock)

-----------------------------------------------------------------------------
MainPcs ==
    {"Init", "InitThread", "Idle", "Read_TestSectors", "Read_TestInUse",
     "Read_Fill", "AddToQueue_Store", "AddToQueue_Advance", "Read_Release",
     "GetStatus_TestInUse", "GetStatus_TestSectors", "GetStatus_Result",
     "Sync_Lock", "Sync_Test", "Sync_SetLocked", "Sync_Wait", "Sync_Relock",
     "Sync_Finish", "ImagesRemoved", "Shutdown"}

ThreadPcs ==
    {"NotCreated", "Wait", "GetFirst", "SetInUse", "ReadFile",
     "GetOverlappedResult", "RemoveFirst", "Lock", "ClearSectors", "Signal",
     "ClearInUse", "Unlock"}

Statuses == {"SUCCESS", "READING_FAILURE"}

Answers == {"ACCEPTED", "REFUSED",
            "SUCCESS", "WAITING_TO_READ", "READING_FAILURE", "READING"}

Buffers == Reads \cup {Garbage}

\* Every variable keeps its type: in particular the queue only ever holds
\* streams, and both semaphores stay below their maximum counts.
TypeOK ==
    /\ gStreamingInitialized \in BOOLEAN
    /\ gOverlappedIO \in BOOLEAN
    /\ nSectorOffset \in [Streams -> Sectors]
    /\ nSectorsToRead \in [Streams -> {0, SectorCount}]
    /\ bLocked \in [Streams -> BOOLEAN]
    /\ bInUse \in [Streams -> BOOLEAN]
    /\ status \in [Streams -> Statuses]
    /\ hFile \in [Streams -> Files]
    /\ m_queue \in [Slots -> Streams]
    /\ m_head \in Slots
    /\ m_tail \in Slots
    /\ gStreamSemaphore \in 0 .. StreamSemaphoreMax
    /\ hSemaphore \in [Streams -> 0 .. SyncSemaphoreMax]
    /\ cdStreamThreadSync \in {"Nobody", "Main", "Thread"}
    /\ mpc \in MainPcs
    /\ ms \in Streams
    /\ ret \in [op : {"None", "Read", "GetStatus", "Sync"}, s : Streams,
               val : Answers]
    /\ removing \in BOOLEAN
    /\ tpc \in ThreadPcs
    /\ streamId \in Streams \cup {-1}
    /\ data \in [Streams -> Buffers]
    /\ expected \in [Streams -> Buffers]
    /\ accepted \in [Streams -> Buffers]

-----------------------------------------------------------------------------
\* The slots from head up to tail, going round, and the number of them
Between(head, tail) ==
    {i \in Slots : IF head <= tail THEN head <= i /\ i < tail
                                  ELSE head <= i \/ i < tail}

Distance(head, tail) == (tail - head + m_size) % m_size

\* The slots of gStreamQueue that hold a stream
Occupied == Between(m_head, m_tail)

QueueLength == Distance(m_head, m_tail)

\* CdStreamThread has taken a stream and has not yet removed it from the queue
ThreadHoldsFirst ==
    tpc \in {"GetFirst", "SetInUse", "ReadFile", "GetOverlappedResult",
             "RemoveFirst"}

One(b) == IF b THEN 1 ELSE 0

\* gStreamSemaphore counts the queue: what is in it is announced by the
\* semaphore, in the thread's hands, or about to be announced by CdStreamRead.
\* (ReleaseSemaphore never fails at its maximum and no wake-up is lost.)
SemaphoreCountsQueue ==
    QueueLength = gStreamSemaphore + One(ThreadHoldsFirst)
                                   + One(mpc = "Read_Release")

\* AddToQueue has no test for a full queue and needs none: no stream is ever
\* in the queue twice, so that a slot is left when the next one is stored.
QueueNeverOverflows ==
    /\ \A i, j \in Occupied : m_queue[i] = m_queue[j] => i = j
    /\ mpc = "AddToQueue_Advance" => (m_tail + 1) % m_size # m_head

\* CdStreamThread never finds the queue empty after its wait (it would go on
\* with gCdStreams[-1]), and it works on a stream that has something to read.
ThreadHasWork ==
    /\ tpc = "GetFirst" => m_head # m_tail
    /\ tpc \in {"SetInUse", "ReadFile", "GetOverlappedResult", "RemoveFirst",
               "Lock", "ClearSectors"} =>
         /\ streamId \in Streams
         /\ nSectorsToRead[streamId] # 0

\* The queue and the thread that works it off agree: types, the semaphore that
\* announces its entries, its room and its head, at every interleaving of
\* AddToQueue, ReleaseSemaphore and RemoveFirstInQueue.
QueueIsSound == TypeOK /\ SemaphoreCountsQueue /\ QueueNeverOverflows /\ ThreadHasWork

\* The wake-up of a stream's semaphore is for the CdStreamSync that waits for it
\* and comes after the end of its read: none is left over from an earlier
\* read, where it would let a later CdStreamSync through too early.
WakeUpIsForThisRead ==
    \A s \in Streams :
        hSemaphore[s] > 0 =>
            /\ hSemaphore[s] = 1
            /\ mpc = "Sync_Wait"
            /\ ms = s
            /\ nSectorsToRead[s] = 0

\* What the caller waits for, when it has been accepted, is in its buffer
Delivered(s) ==
    status[s] = "SUCCESS" /\ expected[s] # Garbage /\ expected[s] = accepted[s]
        => data[s] = expected[s]

\* CdStreamSync returns after the end of the read, with the stream free for
\* the next CdStreamRead and, unless it reports a failure, with the data.
SyncReturnsWithTheData ==
    mpc = "Sync_Finish" =>
        nSectorsToRead[ms] = 0 /\ ~bInUse[ms] /\ Delivered(ms)

\* CdStreamGetStatus takes no lock, and still reports READING_SUCCESS for an
\* accepted read only when the data is there.
SuccessMeansTheData ==
    mpc = "GetStatus_Result" => nSectorsToRead[ms] = 0 /\ Delivered(ms)

\* Streaming.cpp converts the buffer of a channel when CdStreamGetStatus reports
\* READING_SUCCESS: the buffer would have to hold what the channel asked for,
\* which is more than CdStream promises (CdStreamRead may have been refused).
ReadyChannelHoldsItsModels ==
    mpc = "GetStatus_Result" /\ status[ms] = "SUCCESS" /\ expected[ms] # Garbage
        => data[ms] = expected[ms]

\* CdStreamShutdown frees the streams and the queue when CdStreamThread is
\* back at its wait: it never works on a stream that is freed.
FreedWhenThreadWaits ==
    mpc \in {"ImagesRemoved", "Shutdown"} =>
        /\ tpc = "Wait"
        /\ gStreamSemaphore = 0
        /\ m_head = m_tail

\* A CdStreamSync that waits is woken (the deadlock that the critical section
\* is there to prevent).
SyncReturns == mpc = "Sync_Wait" ~> mpc = "Sync_Finish"

-----------------------------------------------------------------------------
\* CdStreamService, the abstract view of the streams
Phase(s) ==
    IF nSectorsToRead[s] # 0 THEN IF bInUse[s] THEN "reading" ELSE "waiting"
                             ELSE IF bInUse[s] THEN "settling" ELSE "idle"

Over(s) == nSectorsToRead[s] = 0

Service == INSTANCE CdStreamService WITH
    phase   <- [s \in Streams |-> Phase(s)],
    request <- accepted,
    status  <- [s \in Streams |-> IF Over(s) THEN status[s] ELSE "SUCCESS"],
    data    <- [s \in Streams |-> IF Over(s) THEN data[s] ELSE Garbage],
    ret     <- ret

\* The threads, the queue, the lock and the semaphores together do what the
\* abstract streams do, and every accepted read is carried out in the end.
ImplementsService == Service!FairSpec
=============================================================================
