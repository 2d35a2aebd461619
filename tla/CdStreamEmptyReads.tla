------------------------- MODULE CdStreamEmptyReads -------------------------
(***************************************************************************)
(* CdStream for a caller that also asks for reads of no sectors            *)
(* (CStreaming, Streaming.cpp).  Such a read leaves nSectorsToRead 0 and   *)
(* bInUse FALSE but queues the stream, so that CdStreamRead is accepted    *)
(* again at once: the queue may hold more entries for a stream than it has *)
(* reads outstanding.  The thread takes each of them.  A read accepted     *)
(* before it takes a spare entry is carried out with that one, and the     *)
(* read's own entry is spare from then on.  A read accepted while the      *)
(* thread is at a spare entry may be cleared with it: it ends as a success *)
(* although nothing was read.                                              *)
(*                                                                         *)
(* The phases are those of CdStreamService.  The queue has room for every  *)
(* entry, and the thread can read no sectors without failing.              *)
(***************************************************************************)
EXTENDS Integers

CONSTANTS Streams, Reads, Garbage  \* see CdStreamService

VARIABLES phase, request, status, data, ret,  \* see CdStreamService
          spare,  \* spare[s]: the entries of s in the queue, but for that of
                  \* the read that waits
          taken   \* taken[s]: the thread is at an entry with nothing to read

Service == INSTANCE CdStreamService

vars == <<phase, request, status, data, ret, spare, taken>>

Answer(op, s, val) == Service!Answer(op, s, val)

Init ==
    /\ Service!Init
    /\ spare = [s \in Streams |-> 0]
    /\ taken = [s \in Streams |-> FALSE]

SameEntries == UNCHANGED <<spare, taken>>

Call == Service!Call /\ SameEntries

Accept(s, r) == Service!Accept(s, r) /\ SameEntries

\* CdStreamRead of no sectors: nothing is outstanding, an entry is queued
AcceptEmpty(s) ==
    /\ phase[s] = "idle"
    /\ status' = [status EXCEPT ![s] = "SUCCESS"]
    /\ spare' = [spare EXCEPT ![s] = @ + 1]
    /\ ret' = Answer("Read", s, "ACCEPTED")
    /\ UNCHANGED <<phase, request, data, taken>>

\* bInUse is set at a spare entry, too, unless CdStreamSync has reset it
Refuse(s) ==
    /\ phase[s] # "idle" \/ taken[s]
    /\ ret' = Answer("Read", s, "REFUSED")
    /\ UNCHANGED <<phase, request, status, data>>
    /\ SameEntries

ReportBusy(s) ==
    /\ \/ Service!ReportBusy(s)
       \/ /\ taken[s]
          /\ ret' = Answer("GetStatus", s, "READING")
          /\ UNCHANGED <<phase, request, status, data>>
    /\ SameEntries

ReportResult(s) == Service!ReportResult(s) /\ SameEntries

SyncReturns(s) == Service!SyncReturns(s) /\ SameEntries

\* The thread takes the first entry of a stream with a read outstanding
Start(s) == ~taken[s] /\ Service!Start(s) /\ SameEntries

Complete(s) == Service!Complete(s) /\ SameEntries

Settle(s) == Service!Settle(s) /\ SameEntries

\* The thread takes an entry of a stream with nothing to read
Take(s) ==
    /\ phase[s] = "idle"
    /\ spare[s] > 0
    /\ ~taken[s]
    /\ spare' = [spare EXCEPT ![s] = @ - 1]
    /\ taken' = [taken EXCEPT ![s] = TRUE]
    /\ UNCHANGED <<phase, request, status, data, ret>>

Release(s) ==
    /\ taken[s]
    /\ phase[s] = "idle"
    /\ taken' = [taken EXCEPT ![s] = FALSE]
    /\ UNCHANGED <<phase, request, status, data, ret, spare>>

\* The thread, at a spare entry, meets a read that was accepted meanwhile: it
\* reads it after all, or has looked at nSectorsToRead before and clears it
Meet(s) ==
    /\ taken[s]
    /\ phase[s] = "waiting"
    /\ \E p \in {"reading", "settling"} : phase' = [phase EXCEPT ![s] = p]
    /\ taken' = [taken EXCEPT ![s] = FALSE]
    /\ spare' = [spare EXCEPT ![s] = @ + 1]
    /\ UNCHANGED <<request, status, data, ret>>

\* What CdStream does of its own accord
Progress(s) ==
    Start(s) \/ Complete(s) \/ Settle(s) \/ Take(s) \/ Release(s) \/ Meet(s)
=============================================================================
