-------------------- MODULE NativeScriptServiceTransaction --------------------
(***************************************************************************)
(* The transaction of an asynchronous service of the script interpreter:   *)
(* source/app/platform/linux/NativeScriptServiceTransaction.cpp.           *)
(*                                                                         *)
(* One object serves one command at a time.  Begin gives the caller a      *)
(* ticket, a value that names the object and the attempt; tickets go to a  *)
(* worker and come back late, twice or never, so every call but Begin and  *)
(* RequestCancel is tested against the current attempt.  All calls are     *)
(* made by the thread that owns the service: a step is one call, with any  *)
(* ticket that was ever given out, and reply is what it returns.           *)
(***************************************************************************)
EXTENDS Integers

CONSTANTS Ids, Commands, \* NativeScriptRequestId; opcode and arguments
          NoIdentity,    \* the default, which Valid refuses
          Owner, Others, \* this object and other transaction objects
          MaxCount,      \* numeric_limits<uint64_t>::max()
          MaxPolls       \* numeric_limits<uint32_t>::max()

Identities == [Id : Ids, Command : Commands]

ASSUME LimitAssumption == MaxCount \in Nat /\ MaxPolls \in Nat
ASSUME NoIdentityAssumption == NoIdentity \notin Identities
ASSUME OwnerAssumption == Owner \notin Others \* AllocateOwner never repeats

VARIABLES m_State,       \* NativeScriptServiceTransactionState
          m_NextAttempt,
          reply,         \* what the last call returned
          history        \* which tickets were prepared, and how they ended

vars == <<m_State, m_NextAttempt, reply, history>>

Service == INSTANCE NativeScriptServicePhases
               WITH phase <- m_State.Phase, identity <- m_State.Identity

Accepted == {"Ok", "Started"}
Refused  == {"Existing", "AlreadyCommitted", "InvalidInput", "Conflict",
             "Busy", "Stale", "InvalidPhase", "Overflow"}

Init ==
    /\ m_State = [Phase |-> "Idle", Identity |-> NoIdentity, Attempt |-> 0,
                  Revision |-> 0, Attempts |-> 0, Commits |-> 0,
                  CancelRequests |-> 0, Cancellations |-> 0, Failures |-> 0,
                  Polls |-> 0]
    /\ m_NextAttempt = 0
    /\ reply = "Ok"
    /\ history = {}

\* The tickets that may be about: of this object, or of another one
Tickets == [Owner : {Owner} \cup Others, Attempt : 0 .. m_NextAttempt]

Valid(i) == i # NoIdentity

\* Mutant: any ticket of this object
Current_AnyAttempt(t) == t.Owner = Owner /\ t.Attempt # 0

Current(t) ==
    /\ t.Owner = Owner
    /\ t.Attempt # 0
    /\ t.Attempt = m_State.Attempt

\* The call changes nothing
Refuse(status) == reply' = status /\ UNCHANGED <<m_State, m_NextAttempt, history>>

\* The call makes new the state, which is one more revision
Accept(status, new) ==
    /\ m_State' = [new EXCEPT !.Revision = m_State.Revision + 1]
    /\ reply' = status

Record(t, outcome) ==
    /\ history' = history \cup {[ticket |-> t, outcome |-> outcome]}
    /\ UNCHANGED m_NextAttempt

\* Mutant: a command that is tried again keeps its ticket
Start_SameAttempt(i) ==
    IF MaxCount \in {m_NextAttempt, m_State.Attempts, m_State.Revision}
    THEN Refuse("Overflow")
    ELSE /\ m_NextAttempt' = IF m_State.Attempt = 0 THEN m_NextAttempt + 1
                             ELSE m_NextAttempt
         /\ Accept("Started", [m_State EXCEPT
                !.Phase = "Preparing", !.Identity = i, !.Polls = 0,
                !.Attempt = m_NextAttempt', !.Attempts = @ + 1])
         /\ UNCHANGED history

Start(i) ==
    IF MaxCount \in {m_NextAttempt, m_State.Attempts, m_State.Revision}
    THEN Refuse("Overflow")
    ELSE /\ m_NextAttempt' = m_NextAttempt + 1
         /\ Accept("Started", [m_State EXCEPT
                !.Phase = "Preparing", !.Identity = i, !.Polls = 0,
                !.Attempt = m_NextAttempt + 1, !.Attempts = @ + 1])
         /\ UNCHANGED history

Begin(i) ==
    \/ ~Valid(i) /\ Refuse("InvalidInput")
    \/ Valid(i) /\ m_State.Phase = "Idle" /\ Start(i)
    \/ /\ Valid(i) /\ m_State.Phase # "Idle" /\ m_State.Identity # i
       /\ Refuse(IF m_State.Identity.Id = i.Id THEN "Conflict" ELSE "Busy")
    \/ /\ m_State.Phase # "Idle" /\ m_State.Identity = i
       /\ CASE m_State.Phase = "Cancelled" -> Start(i)
            [] m_State.Phase = "Committed" -> Refuse("AlreadyCommitted")
            [] m_State.Phase = "Failed"    -> Refuse("InvalidPhase")
            [] OTHER                       -> Refuse("Existing")

\* A call with a ticket is admitted in the phases from unless a count is full
Admits(t, from, full) ==
    /\ Current(t)
    /\ m_State.Phase \in from
    /\ ~full
    /\ m_State.Revision # MaxCount

Rejects(t, from, full) ==
    \/ ~Current(t) /\ Refuse("Stale")
    \/ Current(t) /\ m_State.Phase \notin from /\ Refuse("InvalidPhase")
    \/ /\ Current(t) /\ m_State.Phase \in from
       /\ full \/ m_State.Revision = MaxCount
       /\ Refuse("Overflow")

\* Mutant: the polls are not limited
MarkPending_Unlimited(t) ==
    \/ Rejects(t, Service!Preparing, FALSE)
    \/ /\ Admits(t, Service!Preparing, FALSE)
       /\ Accept("Ok", [m_State EXCEPT !.Phase = "Pending", !.Polls = @ + 1])
       /\ UNCHANGED <<m_NextAttempt, history>>

MarkPending(t) ==
    LET full == m_State.Polls = MaxPolls IN
    \/ Rejects(t, Service!Preparing, full)
    \/ /\ Admits(t, Service!Preparing, full)
       /\ Accept("Ok", [m_State EXCEPT !.Phase = "Pending", !.Polls = @ + 1])
       /\ UNCHANGED <<m_NextAttempt, history>>

MarkPrepared(t) ==
    \/ Rejects(t, Service!Preparing, FALSE)
    \/ /\ Admits(t, Service!Preparing, FALSE)
       /\ Accept("Ok", [m_State EXCEPT !.Phase = "Prepared"])
       /\ Record(t, "Prepared")

\* By identity, not by ticket: the caller may have lost it
RequestCancel(i) ==
    \/ /\ m_State.Identity # i
       /\ Refuse(IF /\ Valid(i) /\ Valid(m_State.Identity)
                    /\ m_State.Identity.Id = i.Id
                 THEN "Conflict" ELSE "Stale")
    \/ /\ m_State.Identity = i /\ m_State.Phase = "Cancelling"
       /\ Refuse("Existing")
    \/ /\ m_State.Identity = i
       /\ m_State.Phase \notin Service!Undecided \cup {"Cancelling"}
       /\ Refuse("InvalidPhase")
    \/ /\ m_State.Identity = i /\ m_State.Phase \in Service!Undecided
       /\ IF MaxCount \in {m_State.CancelRequests, m_State.Revision}
          THEN Refuse("Overflow")
          ELSE /\ Accept("Started", [m_State EXCEPT
                      !.Phase = "Cancelling", !.CancelRequests = @ + 1])
               /\ UNCHANGED <<m_NextAttempt, history>>

AcknowledgeCancel(t) ==
    LET full == m_State.Cancellations = MaxCount IN
    \/ Rejects(t, {"Cancelling"}, full)
    \/ /\ Admits(t, {"Cancelling"}, full)
       /\ Accept("Ok", [m_State EXCEPT !.Phase = "Cancelled", !.Cancellations = @ + 1])
       /\ Record(t, "Cancelled")

\* Mutant: a commit that is repeated is carried out again
Commit_Again(t) ==
    LET full == m_State.Commits = MaxCount IN
    \/ Rejects(t, {"Prepared", "Committed"}, full)
    \/ /\ Admits(t, {"Prepared", "Committed"}, full)
       /\ Accept("Ok", [m_State EXCEPT !.Phase = "Committed", !.Commits = @ + 1])
       /\ Record(t, "Committed")

Commit(t) ==
    LET full == m_State.Commits = MaxCount IN
    \/ /\ Current(t) /\ m_State.Phase = "Committed"
       /\ Refuse("AlreadyCommitted")
    \/ /\ m_State.Phase # "Committed" \/ ~Current(t)
       /\ Rejects(t, {"Prepared"}, full)
    \/ /\ Admits(t, {"Prepared"}, full)
       /\ Accept("Ok", [m_State EXCEPT !.Phase = "Committed", !.Commits = @ + 1])
       /\ Record(t, "Committed")

\* Mutant: counted, then found to be too many
Fail_CountedFirst(t) ==
    \/ /\ Current(t) /\ m_State.Phase \in Service!Undecided
       /\ m_State.Revision = MaxCount
       /\ m_State' = [m_State EXCEPT !.Failures = @ + 1]
       /\ reply' = "Overflow"
       /\ UNCHANGED <<m_NextAttempt, history>>
    \/ /\ Admits(t, Service!Undecided, FALSE)
       /\ Accept("Ok", [m_State EXCEPT !.Phase = "Failed", !.Failures = @ + 1])
       /\ Record(t, "Failed")

Fail(t) ==
    LET full == m_State.Failures = MaxCount IN
    \/ Rejects(t, Service!Undecided, full)
    \/ /\ Admits(t, Service!Undecided, full)
       /\ Accept("Ok", [m_State EXCEPT !.Phase = "Failed", !.Failures = @ + 1])
       /\ Record(t, "Failed")

\* Mutant: the command stays the transaction's
Release_KeepsIdentity(t) ==
    \/ Rejects(t, Service!Decided, FALSE)
    \/ /\ Admits(t, Service!Decided, FALSE)
       /\ Accept("Ok", [m_State EXCEPT !.Phase = "Idle", !.Attempt = 0, !.Polls = 0])
       /\ UNCHANGED <<m_NextAttempt, history>>

Release(t) ==
    \/ Rejects(t, Service!Decided, FALSE)
    \/ /\ Admits(t, Service!Decided, FALSE)
       /\ Accept("Ok", [m_State EXCEPT !.Phase = "Idle",
                   !.Identity = NoIdentity, !.Attempt = 0, !.Polls = 0])
       /\ UNCHANGED <<m_NextAttempt, history>>

Next ==
    \/ \E i \in Identities \cup {NoIdentity} : Begin(i) \/ RequestCancel(i)
    \/ \E t \in Tickets :
           \/ MarkPending(t) \/ MarkPrepared(t) \/ AcknowledgeCancel(t)
           \/ Commit(t) \/ Fail(t) \/ Release(t)

Spec == Init /\ [][Next]_vars

Counts == 0 .. MaxCount

Outcomes == {"Committed", "Cancelled", "Failed"}

\* The state has the fields and the ranges of its declaration, and the counts
\* of a 64-bit or 32-bit field never wrap.
TypeOK ==
    /\ m_State \in [Phase : Service!Phases,
                    Identity : Identities \cup {NoIdentity},
                    Attempt : Counts, Revision : Counts, Attempts : Counts,
                    Commits : Counts, CancelRequests : Counts,
                    Cancellations : Counts, Failures : Counts,
                    Polls : 0 .. MaxPolls]
    /\ m_NextAttempt \in Counts
    /\ reply \in Accepted \cup Refused
    /\ history \subseteq [ticket : [Owner : {Owner} \cup Others, Attempt : Counts],
                          outcome : Outcomes \cup {"Prepared"}]

\* An attempt ends at most once and in one way, however many stale, repeated
\* or foreign tickets come back: none is both committed and cancelled.
OneOutcomePerAttempt ==
    \A e, f \in history :
        /\ e.outcome \in Outcomes /\ f.outcome \in Outcomes
        /\ e.ticket = f.ticket
        => e = f

\* What is committed with a ticket was prepared with the same ticket: the late
\* answer to an attempt that was cancelled never passes for its retry's.
CommitsWhatItPrepared ==
    \A e \in history :
        e.outcome = "Committed" => [e EXCEPT !.outcome = "Prepared"] \in history

Open == Service!Undecided \cup {"Cancelling"}

OpenAttempts == IF m_State.Phase \in Open THEN 1 ELSE 0

OpenCancels == IF m_State.Phase = "Cancelling" THEN 1 ELSE 0

\* The counts account for one another: every attempt is open or ended in
\* exactly one count, every cancel request is acknowledged or still pending,
\* and the revision bounds them all, so that no other count overflows first.
CountsAgree ==
    /\ m_State.Attempts = m_NextAttempt
    /\ m_State.Attempts = m_State.Commits + m_State.Failures
                          + m_State.Cancellations + OpenAttempts
    /\ m_State.CancelRequests = m_State.Cancellations + OpenCancels
    /\ m_State.Revision >= m_State.Attempts + m_State.Commits + m_State.Failures
                           + m_State.CancelRequests + m_State.Cancellations

\* No count is wrong, and none overflows unnoticed.
BooksAgree == TypeOK /\ CountsAgree

\* A reply tells the truth: a call that reports a refusal (Stale, Overflow...)
\* has changed nothing, and one that reports success is one new revision.
ReplyTellsTheTruth ==
    [][IF reply' \in Refused
       THEN UNCHANGED <<m_State, m_NextAttempt, history>>
       ELSE m_State'.Revision = m_State.Revision + 1]_vars

\* The transaction implements the phases that its callers rely on.
ImplementsPhases == Service!Spec
=============================================================================
