-------------------------- MODULE CdStreamService --------------------------
(***************************************************************************)
(* What CdStream (CdStreamInfo.cpp) promises to its callers, with no       *)
(* thread, queue, lock or semaphore: every stream goes through the phases  *)
(*                                                                         *)
(*    idle -> waiting -> reading -> settling -> idle                       *)
(*                                                                         *)
(* idle      no read is outstanding: CdStreamRead is accepted              *)
(* waiting   a read is accepted and the device has not begun               *)
(* reading   the device is at work                                         *)
(* settling  the result is there, but the stream is still marked in use:   *)
(*           CdStreamGetStatus may report the result already while         *)
(*           CdStreamRead is still refused                                 *)
(*                                                                         *)
(* CdStream.tla is shown to implement Spec.                                *)
(***************************************************************************)
EXTENDS Integers

CONSTANTS Streams,  \* the streams
          Reads,    \* what a caller may ask for
          Garbage   \* a buffer content that is no read's data

VARIABLES phase,    \* phase[s]
          request,  \* request[s]: the accepted read whose end is not reported
          status,   \* status[s]: the result CdStreamGetStatus has yet to report
          data,     \* data[s]: what the buffer of the last accepted read holds
          ret       \* the last value returned to the caller

vars == <<phase, request, status, data, ret>>

Phases == {"idle", "waiting", "reading", "settling"}

Answers == {"ACCEPTED", "REFUSED",
            "SUCCESS", "WAITING_TO_READ", "READING_FAILURE", "READING"}

Answer(op, s, val) == [op |-> op, s |-> s, val |-> val]

NoAnswer == Answer("None", 0, "SUCCESS")

\* No stream has been read from yet
Init ==
    /\ phase = [s \in Streams |-> "idle"]
    /\ request = [s \in Streams |-> Garbage]
    /\ status = [s \in Streams |-> "SUCCESS"]
    /\ data = [s \in Streams |-> Garbage]
    /\ ret = NoAnswer

\* A call begins
Call ==
    /\ ret' = NoAnswer
    /\ UNCHANGED <<phase, request, status, data>>

\* CdStreamRead returns true: the read is owed to the caller
Accept(s, r) ==
    /\ phase[s] = "idle"
    /\ phase' = [phase EXCEPT ![s] = "waiting"]
    /\ request' = [request EXCEPT ![s] = r]
    /\ status' = [status EXCEPT ![s] = "SUCCESS"]
    /\ data' = [data EXCEPT ![s] = Garbage]
    /\ ret' = Answer("Read", s, "ACCEPTED")

\* CdStreamRead returns false: nothing is read
Refuse(s) ==
    /\ phase[s] # "idle"
    /\ ret' = Answer("Read", s, "REFUSED")
    /\ UNCHANGED <<phase, request, status, data>>

Start(s) ==
    /\ phase[s] = "waiting"
    /\ phase' = [phase EXCEPT ![s] = "reading"]
    /\ UNCHANGED <<request, status, data, ret>>

\* The device has read all of it or has failed: the result can be reported
Complete(s) ==
    /\ phase[s] = "reading"
    /\ phase' = [phase EXCEPT ![s] = "settling"]
    /\ \/ /\ data' = [data EXCEPT ![s] = request[s]]
          /\ UNCHANGED status
       \/ /\ status' = [status EXCEPT ![s] = "READING_FAILURE"]
          /\ UNCHANGED data
    /\ UNCHANGED <<request, ret>>

Settle(s) ==
    /\ phase[s] = "settling"
    /\ phase' = [phase EXCEPT ![s] = "idle"]
    /\ UNCHANGED <<request, status, data, ret>>

\* What CdStream does of its own accord
Progress(s) == Start(s) \/ Complete(s) \/ Settle(s)

\* CdStreamGetStatus while the read is outstanding
ReportBusy(s) ==
    /\ \/ /\ phase[s] \in {"reading", "settling"}
          /\ ret' = Answer("GetStatus", s, "READING")
       \/ /\ phase[s] \in {"waiting", "reading"}
          /\ ret' = Answer("GetStatus", s, "WAITING_TO_READ")
    /\ UNCHANGED <<phase, request, status, data>>

\* CdStreamGetStatus once it is not: a failure is reported once
ReportResult(s) ==
    /\ phase[s] \in {"idle", "settling"}
    /\ ret' = Answer("GetStatus", s, status[s])
    /\ status' = [status EXCEPT ![s] = "SUCCESS"]
    /\ request' = [request EXCEPT ![s] = Garbage]
    /\ UNCHANGED <<phase, data>>

\* CdStreamSync returns: the read is over and its result is left to report
SyncReturns(s) ==
    /\ phase[s] = "idle"
    /\ ret' = Answer("Sync", s, status[s])
    /\ request' = [request EXCEPT ![s] = Garbage]
    /\ UNCHANGED <<phase, status, data>>

Next ==
    \/ Call
    \/ \E s \in Streams :
           \/ \E r \in Reads : Accept(s, r)
           \/ Refuse(s)
           \/ Progress(s)
           \/ ReportBusy(s)
           \/ ReportResult(s)
           \/ SyncReturns(s)

Spec == Init /\ [][Next]_vars

\* Every accepted read is eventually carried out and the stream released
FairSpec ==
    /\ Spec
    /\ \A s \in Streams :
          /\ WF_vars(Start(s))
          /\ WF_vars(Complete(s))
          /\ WF_vars(Settle(s))
=============================================================================
