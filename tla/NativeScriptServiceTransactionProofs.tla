---------------- MODULE NativeScriptServiceTransactionProofs ----------------
(***************************************************************************)
(* Proofs about NativeScriptServiceTransaction for every set of requests,  *)
(* every limit and every set of other transaction objects.  Invariant is   *)
(* inductive; it adds to the properties that the current ticket names the  *)
(* last attempt and that an open attempt has no ending yet.                *)
(***************************************************************************)
EXTENDS NativeScriptServiceTransaction, TLAPS

StateType == [Phase : Service!Phases, Identity : Identities \cup {NoIdentity},
              Attempt : Counts, Revision : Counts, Attempts : Counts,
              Commits : Counts, CancelRequests : Counts,
              Cancellations : Counts, Failures : Counts, Polls : 0 .. MaxPolls]

CurrentTicket == [Owner |-> Owner, Attempt |-> m_State.Attempt]

\* Exactly the idle transaction has neither command nor ticket
TicketsAgree ==
    /\ m_State.Phase = "Idle" =>
           m_State.Identity = NoIdentity /\ m_State.Attempt = 0
    /\ m_State.Phase # "Idle" =>
           /\ m_State.Identity # NoIdentity
           /\ m_State.Attempt = m_NextAttempt
           /\ m_State.Attempt # 0

\* The history is of attempts begun; the open one has not ended, and a
\* prepared one is recorded as such
HistoryAgrees ==
    /\ \A e \in history : e.ticket.Owner = Owner /\ e.ticket.Attempt <= m_NextAttempt
    /\ m_State.Phase \in Open =>
           \A e \in history : e.ticket = CurrentTicket => e.outcome = "Prepared"
    /\ m_State.Phase = "Prepared" =>
           [ticket |-> CurrentTicket, outcome |-> "Prepared"] \in history

Invariant ==
    /\ TypeOK
    /\ CountsAgree
    /\ TicketsAgree
    /\ HistoryAgrees
    /\ OneOutcomePerAttempt
    /\ CommitsWhatItPrepared

-----------------------------------------------------------------------------
(* The fields of the state and the room left in its counts *)

LEMMA Fields ==
    ASSUME TypeOK
    PROVE  /\ m_State \in StateType
           /\ m_State.Phase \in Service!Phases
           /\ m_State.Identity \in Identities \cup {NoIdentity}
           /\ m_State.Attempt \in Nat /\ m_State.Revision \in Nat
           /\ m_State.Attempts \in Nat /\ m_State.Commits \in Nat
           /\ m_State.CancelRequests \in Nat /\ m_State.Cancellations \in Nat
           /\ m_State.Failures \in Nat /\ m_State.Polls \in Nat
           /\ m_NextAttempt \in Nat /\ m_State.Revision <= MaxCount
           /\ m_State.Polls <= MaxPolls
BY LimitAssumption DEF TypeOK, Counts, StateType

LEMMA Opens ==
    OpenAttempts \in {0, 1} /\ OpenCancels \in {0, 1}
BY DEF OpenAttempts, OpenCancels

\* The revision is the only 64-bit count that can overflow: while it has room,
\* so have all the others, and their tests in the code are never what refuses.
THEOREM RevisionOverflowsFirst ==
    ASSUME TypeOK, CountsAgree, m_State.Revision # MaxCount
    PROVE  /\ m_State.Revision + 1 \in Counts
           /\ m_State.Attempts + 1 \in Counts /\ m_NextAttempt + 1 \in Counts
           /\ m_State.Commits + 1 \in Counts /\ m_State.Failures + 1 \in Counts
           /\ m_State.CancelRequests + 1 \in Counts
           /\ m_State.Cancellations + 1 \in Counts
<1>1. m_State.Revision < MaxCount
  BY Fields, LimitAssumption
<1>2. /\ m_State.Attempts <= m_State.Revision
      /\ m_State.Commits <= m_State.Revision
      /\ m_State.Failures <= m_State.Revision
      /\ m_State.CancelRequests <= m_State.Revision
      /\ m_State.Cancellations <= m_State.Revision
      /\ m_NextAttempt = m_State.Attempts
  BY Fields DEF CountsAgree
<1> QED BY <1>1, <1>2, Fields, LimitAssumption DEF Counts

\* What an accepted call adds to the counts
Adds(a, c, f, r, x) ==
    /\ m_State'.Revision = m_State.Revision + 1
    /\ m_State'.Attempts = m_State.Attempts + a
    /\ m_NextAttempt' = m_NextAttempt + a
    /\ m_State'.Commits = m_State.Commits + c
    /\ m_State'.Failures = m_State.Failures + f
    /\ m_State'.CancelRequests = m_State.CancelRequests + r
    /\ m_State'.Cancellations = m_State.Cancellations + x

\* At most one count goes up, and the phase with it
LEMMA CountsStep ==
    ASSUME TypeOK, CountsAgree,
           NEW a \in {0, 1}, NEW c \in {0, 1}, NEW f \in {0, 1},
           NEW r \in {0, 1}, NEW x \in {0, 1}, a + c + f + r + x <= 1,
           Adds(a, c, f, r, x),
           OpenAttempts' = OpenAttempts + a - c - f - x,
           OpenCancels' = OpenCancels + r - x
    PROVE  CountsAgree'
<1>1. m_State'.Attempts = m_NextAttempt'
  BY Fields DEF CountsAgree, Adds
<1>2. m_State'.Attempts = m_State'.Commits + m_State'.Failures
                          + m_State'.Cancellations + OpenAttempts'
  <2>1. OpenAttempts \in Int /\ a \in Int /\ c \in Int /\ f \in Int /\ x \in Int
    BY Opens
  <2>2. m_State.Attempts + a
            = (m_State.Commits + c) + (m_State.Failures + f)
              + (m_State.Cancellations + x) + (OpenAttempts + a - c - f - x)
    BY <2>1, Fields DEF CountsAgree
  <2> QED BY <2>2 DEF Adds
<1>3. m_State'.CancelRequests = m_State'.Cancellations + OpenCancels'
  BY Fields, Opens DEF CountsAgree, Adds
<1>4. m_State'.Revision >= m_State'.Attempts + m_State'.Commits + m_State'.Failures
                           + m_State'.CancelRequests + m_State'.Cancellations
  BY Fields DEF CountsAgree, Adds
<1> QED BY <1>1, <1>2, <1>3, <1>4 DEF CountsAgree

-----------------------------------------------------------------------------
(* One lemma per call *)

\* A refused call keeps everything but the reply
LEMMA RefusedStep ==
    ASSUME Invariant, NEW status \in Refused, Refuse(status)
    PROVE  Invariant'
<1>1. TypeOK' /\ CountsAgree'
  BY DEF Refuse, Invariant, TypeOK, CountsAgree, OpenAttempts, OpenCancels, Counts
<1>2. TicketsAgree' /\ HistoryAgrees'
  BY DEF Refuse, Invariant, TicketsAgree, HistoryAgrees, CurrentTicket, Open
<1>3. OneOutcomePerAttempt' /\ CommitsWhatItPrepared'
  BY DEF Refuse, Invariant, OneOutcomePerAttempt, CommitsWhatItPrepared
<1> QED BY <1>1, <1>2, <1>3 DEF Invariant

LEMMA StartStep ==
    ASSUME Invariant, NEW i \in Identities, Start(i),
           m_State.Phase \in {"Idle", "Cancelled"}
    PROVE  Invariant'
<1>1. CASE MaxCount \in {m_NextAttempt, m_State.Attempts, m_State.Revision}
  BY <1>1, RefusedStep DEF Start, Refused
<1>2. CASE MaxCount \notin {m_NextAttempt, m_State.Attempts, m_State.Revision}
  <2>0. TypeOK /\ CountsAgree /\ m_State \in StateType
    BY Fields DEF Invariant
  <2>1. /\ m_State' = [m_State EXCEPT
               !.Phase = "Preparing", !.Identity = i, !.Polls = 0,
               !.Attempt = m_NextAttempt + 1, !.Attempts = @ + 1,
               !.Revision = m_State.Revision + 1]
        /\ m_NextAttempt' = m_NextAttempt + 1
        /\ history' = history
        /\ reply' = "Started"
    BY <1>2, <2>0 DEF Start, Accept, StateType
  <2>2. /\ m_State'.Phase = "Preparing" /\ m_State'.Identity = i
        /\ m_State'.Attempt = m_NextAttempt + 1
    BY <2>0, <2>1 DEF StateType
  <2>3. Adds(1, 0, 0, 0, 0)
    BY <2>0, <2>1, Fields DEF StateType, Adds
  <2>4. CountsAgree'
    <3>1. /\ OpenAttempts = 0 /\ OpenCancels = 0
          /\ OpenAttempts' = 1 /\ OpenCancels' = 0
      BY <2>2 DEF OpenAttempts, OpenCancels, Open, Service!Undecided, Service!Preparing
    <3> QED BY <3>1, <2>0, <2>3, CountsStep
  <2>5. TypeOK'
    <3>1. /\ m_State.Revision + 1 \in Counts /\ m_State.Attempts + 1 \in Counts
          /\ m_NextAttempt + 1 \in Counts
      BY <1>2, <2>0, RevisionOverflowsFirst
    <3>2. "Preparing" \in Service!Phases /\ 0 \in 0 .. MaxPolls
      BY LimitAssumption DEF Service!Phases, Service!Undecided, Service!Preparing
    <3>3. m_State' \in StateType
      BY <2>0, <2>1, <3>1, <3>2 DEF StateType
    <3> QED BY <3>1, <3>3, <2>0, <2>1 DEF TypeOK, StateType, Accepted
  <2>6. TicketsAgree'
    BY <2>0, <2>1, <2>2, Fields, NoIdentityAssumption DEF TicketsAgree
  <2>7. HistoryAgrees'
    BY <2>0, <2>1, <2>2, Fields DEF HistoryAgrees, Invariant, CurrentTicket, TypeOK, Counts
  <2>8. OneOutcomePerAttempt' /\ CommitsWhatItPrepared'
    BY <2>1 DEF Invariant, OneOutcomePerAttempt, CommitsWhatItPrepared
  <2> QED BY <2>4, <2>5, <2>6, <2>7, <2>8 DEF Invariant
<1> QED BY <1>1, <1>2

\* A call that moves the command that the transaction has
Moves(to, new) ==
    /\ m_State.Phase # "Idle" /\ to # "Idle"
    /\ m_State' = new
    /\ new \in StateType
    /\ new.Phase = to
    /\ new.Identity = m_State.Identity
    /\ new.Attempt = m_State.Attempt
    /\ m_NextAttempt' = m_NextAttempt
    /\ reply' \in Accepted

LEMMA MovesStep ==
    ASSUME Invariant, NEW to \in Service!Phases, NEW new, Moves(to, new),
           CountsAgree', history' \subseteq
               [ticket : [Owner : {Owner} \cup Others, Attempt : Counts],
                outcome : Outcomes \cup {"Prepared"}]
    PROVE  TypeOK' /\ TicketsAgree' /\ CurrentTicket' = CurrentTicket
<1>1. TypeOK'
  BY DEF Moves, Invariant, TypeOK, StateType, Counts
<1>2. TicketsAgree'
  BY DEF Moves, Invariant, TicketsAgree
<1>3. CurrentTicket' = CurrentTicket
  BY DEF Moves, CurrentTicket
<1> QED BY <1>1, <1>2, <1>3

\* ... to a phase in which it stays open, and is not newly prepared
LEMMA StayOpen ==
    ASSUME Invariant, NEW to \in Open \ {"Prepared"}, NEW new, Moves(to, new),
           m_State.Phase \in Open, CountsAgree', UNCHANGED history
    PROVE  Invariant'
<1>1. TypeOK' /\ TicketsAgree' /\ CurrentTicket' = CurrentTicket
  <2>1. to \in Service!Phases
    BY DEF Open, Service!Phases
  <2> QED BY <2>1, MovesStep DEF Invariant, TypeOK
<1>2. HistoryAgrees'
  BY <1>1 DEF Moves, Invariant, HistoryAgrees
<1>3. OneOutcomePerAttempt' /\ CommitsWhatItPrepared'
  BY DEF Invariant, OneOutcomePerAttempt, CommitsWhatItPrepared
<1> QED BY <1>1, <1>2, <1>3 DEF Invariant

\* A current ticket is CurrentTicket
LEMMA TicketOfCurrent ==
    ASSUME Invariant, NEW t \in Tickets, Current(t)
    PROVE  /\ t = CurrentTicket
           /\ t \in [Owner : {Owner} \cup Others, Attempt : Counts]
           /\ t.Attempt <= m_NextAttempt
           /\ m_State.Phase # "Idle"
<1>1. t = CurrentTicket
  BY DEF Tickets, Current, CurrentTicket
<1>2. m_State.Phase # "Idle"
  BY DEF Current, Invariant, TicketsAgree
<1>3. m_State.Attempt \in Counts /\ m_State.Attempt = m_NextAttempt
  BY <1>2 DEF Invariant, TicketsAgree, TypeOK
<1> QED BY <1>1, <1>2, <1>3, LimitAssumption DEF CurrentTicket, Counts

\* ... and is recorded under its ticket, as prepared or as ended
LEMMA RecordStep ==
    ASSUME Invariant, NEW t \in Tickets, Current(t),
           NEW outcome \in Outcomes \cup {"Prepared"},
           NEW to \in Service!Phases, NEW new, Moves(to, new), CountsAgree',
           m_State.Phase \in Open, Record(t, outcome),
           outcome = "Prepared" <=> to \in Open,
           outcome = "Committed" => m_State.Phase = "Prepared",
           to \in Open => to = "Prepared"
    PROVE  Invariant'
<1>1. /\ t = CurrentTicket
      /\ t \in [Owner : {Owner} \cup Others, Attempt : Counts]
      /\ t.Attempt <= m_NextAttempt /\ t.Owner = Owner
  BY TicketOfCurrent DEF Current
<1>2. history' = history \cup {[ticket |-> t, outcome |-> outcome]}
  BY DEF Record
<1>3. TypeOK' /\ TicketsAgree' /\ CurrentTicket' = CurrentTicket
  BY <1>1, <1>2, MovesStep DEF Invariant, TypeOK
<1>4. \A e \in history : e.ticket = t => e.outcome = "Prepared"
  BY <1>1 DEF Invariant, HistoryAgrees
<1>5. HistoryAgrees'
  <2>1. m_State'.Phase = to /\ m_NextAttempt' = m_NextAttempt
    BY DEF Moves
  <2>2. \A e \in history' : e.ticket.Owner = Owner /\ e.ticket.Attempt <= m_NextAttempt
    BY <1>1, <1>2 DEF Invariant, HistoryAgrees
  <2>3. to \in Open => \A e \in history' : e.ticket = CurrentTicket => e.outcome = "Prepared"
    BY <1>1, <1>2, <1>4
  <2>4. to = "Prepared" => [ticket |-> CurrentTicket, outcome |-> "Prepared"] \in history'
    BY <1>1, <1>2 DEF Open, Service!Undecided
  <2> QED BY <1>3, <2>1, <2>2, <2>3, <2>4 DEF HistoryAgrees
<1>6. OneOutcomePerAttempt'
  BY <1>2, <1>4 DEF Invariant, OneOutcomePerAttempt, Outcomes
<1>7. CommitsWhatItPrepared'
  <2>1. SUFFICES ASSUME NEW e \in history', e.outcome = "Committed"
                 PROVE  [e EXCEPT !.outcome = "Prepared"] \in history'
    BY DEF CommitsWhatItPrepared
  <2>2. CASE e \in history
    BY <1>2, <2>1, <2>2 DEF Invariant, CommitsWhatItPrepared
  <2>3. CASE e = [ticket |-> t, outcome |-> outcome]
    BY <1>1, <1>2, <2>1, <2>3 DEF Invariant, HistoryAgrees
  <2> QED BY <1>2, <2>2, <2>3
<1> QED BY <1>3, <1>5, <1>6, <1>7 DEF Invariant

LEMMA RejectsStep ==
    ASSUME Invariant, NEW t \in Tickets, NEW from, NEW full, Rejects(t, from, full)
    PROVE  Invariant'
BY RefusedStep DEF Rejects, Refused

LEMMA BeginStep ==
    ASSUME Invariant, NEW i \in Identities \cup {NoIdentity}, Begin(i)
    PROVE  Invariant'
<1>1. CASE /\ m_State.Phase \in {"Idle", "Cancelled"} /\ Start(i)
           /\ Valid(i) \/ (m_State.Phase # "Idle" /\ m_State.Identity = i)
  <2>1. i \in Identities
    BY <1>1 DEF Valid, Invariant, TicketsAgree
  <2> QED BY <1>1, <2>1, StartStep
<1>2. CASE \E status \in Refused : Refuse(status)
  BY <1>2, RefusedStep
<1> QED BY <1>1, <1>2 DEF Begin, Refused

LEMMA MarkPendingStep ==
    ASSUME Invariant, NEW t \in Tickets, MarkPending(t)
    PROVE  Invariant'
<1> DEFINE new == [m_State EXCEPT !.Phase = "Pending", !.Polls = @ + 1, !.Revision = m_State.Revision + 1]
<1>1. CASE \E status \in Refused : Refuse(status)
  BY <1>1, RefusedStep
<1>2. CASE Admits(t, Service!Preparing, m_State.Polls = MaxPolls)
           /\ Accept("Ok", [m_State EXCEPT !.Phase = "Pending", !.Polls = @ + 1])
           /\ UNCHANGED <<m_NextAttempt, history>>
  <2>1. /\ TypeOK /\ CountsAgree /\ m_State \in StateType
        /\ Current(t) /\ m_State.Phase \in Service!Preparing /\ m_State.Revision # MaxCount
    BY <1>2, Fields DEF Invariant, Admits
  <2>2. m_State' = new /\ m_NextAttempt' = m_NextAttempt /\ reply' \in Accepted
    BY <1>2, <2>1 DEF Accept, StateType, Accepted, Record
  <2>3. Moves("Pending", new)
    <3>1. new \in StateType
      <4>1. m_State.Revision + 1 \in Counts /\ m_State.Polls + 1 \in 0 .. MaxPolls
        BY <1>2, <2>1, RevisionOverflowsFirst, Fields, LimitAssumption DEF Admits, Counts
      <4>2. "Pending" \in Service!Phases
        BY DEF Service!Phases, Service!Undecided, Service!Preparing, Service!Decided
      <4> QED BY <2>1, <4>1, <4>2 DEF StateType
    <3>2. /\ new.Phase = "Pending" /\ new.Identity = m_State.Identity
          /\ new.Attempt = m_State.Attempt
      BY <2>1 DEF StateType
    <3> QED BY <2>1, <2>2, <3>1, <3>2, TicketOfCurrent DEF Moves
  <2>4. CountsAgree'
    <3>1. Adds(0, 0, 0, 0, 0)
      BY <2>1, <2>2, Fields DEF StateType, Adds
    <3>2. /\ OpenAttempts = 1 /\ OpenAttempts' = 1
          /\ OpenCancels = 0 /\ OpenCancels' = 0
      BY <2>1, <2>3 DEF Moves, OpenAttempts, OpenCancels, Open, Service!Undecided, Service!Preparing
    <3> QED BY <2>1, <3>1, <3>2, CountsStep
  <2> HIDE DEF new
  <2>5. m_State.Phase \in Open /\ "Pending" \in Service!Phases
    BY <2>1 DEF Open, Service!Phases, Service!Undecided, Service!Preparing, Service!Decided
  <2> QED BY <1>2, <2>3, <2>4, <2>5, StayOpen
          DEF Open, Service!Undecided, Service!Preparing
<1> QED BY <1>1, <1>2 DEF MarkPending, Rejects, Refused

LEMMA MarkPreparedStep ==
    ASSUME Invariant, NEW t \in Tickets, MarkPrepared(t)
    PROVE  Invariant'
<1> DEFINE new == [m_State EXCEPT !.Phase = "Prepared", !.Revision = m_State.Revision + 1]
<1>1. CASE \E status \in Refused : Refuse(status)
  BY <1>1, RefusedStep
<1>2. CASE Admits(t, Service!Preparing, FALSE)
           /\ Accept("Ok", [m_State EXCEPT !.Phase = "Prepared"])
           /\ Record(t, "Prepared")
  <2>1. /\ TypeOK /\ CountsAgree /\ m_State \in StateType
        /\ Current(t) /\ m_State.Phase \in Service!Preparing /\ m_State.Revision # MaxCount
    BY <1>2, Fields DEF Invariant, Admits
  <2>2. m_State' = new /\ m_NextAttempt' = m_NextAttempt /\ reply' \in Accepted
    BY <1>2, <2>1 DEF Accept, StateType, Accepted, Record
  <2>3. Moves("Prepared", new)
    <3>1. new \in StateType
      <4>1. m_State.Revision + 1 \in Counts
        BY <1>2, <2>1, RevisionOverflowsFirst, Fields, LimitAssumption DEF Admits, Counts
      <4>2. "Prepared" \in Service!Phases
        BY DEF Service!Phases, Service!Undecided, Service!Preparing, Service!Decided
      <4> QED BY <2>1, <4>1, <4>2 DEF StateType
    <3>2. /\ new.Phase = "Prepared" /\ new.Identity = m_State.Identity
          /\ new.Attempt = m_State.Attempt
      BY <2>1 DEF StateType
    <3> QED BY <2>1, <2>2, <3>1, <3>2, TicketOfCurrent DEF Moves
  <2>4. CountsAgree'
    <3>1. Adds(0, 0, 0, 0, 0)
      BY <2>1, <2>2, Fields DEF StateType, Adds
    <3>2. /\ OpenAttempts = 1 /\ OpenAttempts' = 1
          /\ OpenCancels = 0 /\ OpenCancels' = 0
      BY <2>1, <2>3 DEF Moves, OpenAttempts, OpenCancels, Open, Service!Undecided, Service!Preparing
    <3> QED BY <2>1, <3>1, <3>2, CountsStep
  <2> HIDE DEF new
  <2>5. m_State.Phase \in Open /\ "Prepared" \in Service!Phases
    BY <2>1 DEF Open, Service!Phases, Service!Undecided, Service!Preparing, Service!Decided
  <2> QED BY <1>2, <2>1, <2>3, <2>4, <2>5, RecordStep
          DEF Open, Service!Undecided, Service!Preparing, Outcomes
<1> QED BY <1>1, <1>2 DEF MarkPrepared, Rejects, Refused

LEMMA AcknowledgeCancelStep ==
    ASSUME Invariant, NEW t \in Tickets, AcknowledgeCancel(t)
    PROVE  Invariant'
<1> DEFINE new == [m_State EXCEPT !.Phase = "Cancelled", !.Cancellations = @ + 1, !.Revision = m_State.Revision + 1]
<1>1. CASE \E status \in Refused : Refuse(status)
  BY <1>1, RefusedStep
<1>2. CASE Admits(t, {"Cancelling"}, m_State.Cancellations = MaxCount)
           /\ Accept("Ok", [m_State EXCEPT !.Phase = "Cancelled", !.Cancellations = @ + 1])
           /\ Record(t, "Cancelled")
  <2>1. /\ TypeOK /\ CountsAgree /\ m_State \in StateType
        /\ Current(t) /\ m_State.Phase \in {"Cancelling"} /\ m_State.Revision # MaxCount
    BY <1>2, Fields DEF Invariant, Admits
  <2>2. m_State' = new /\ m_NextAttempt' = m_NextAttempt /\ reply' \in Accepted
    BY <1>2, <2>1 DEF Accept, StateType, Accepted, Record
  <2>3. Moves("Cancelled", new)
    <3>1. new \in StateType
      <4>1. m_State.Revision + 1 \in Counts /\ m_State.Cancellations + 1 \in Counts
        BY <1>2, <2>1, RevisionOverflowsFirst, Fields, LimitAssumption DEF Admits, Counts
      <4>2. "Cancelled" \in Service!Phases
        BY DEF Service!Phases, Service!Undecided, Service!Preparing, Service!Decided
      <4> QED BY <2>1, <4>1, <4>2 DEF StateType
    <3>2. /\ new.Phase = "Cancelled" /\ new.Identity = m_State.Identity
          /\ new.Attempt = m_State.Attempt
      BY <2>1 DEF StateType
    <3> QED BY <2>1, <2>2, <3>1, <3>2, TicketOfCurrent DEF Moves
  <2>4. CountsAgree'
    <3>1. Adds(0, 0, 0, 0, 1)
      BY <2>1, <2>2, Fields DEF StateType, Adds
    <3>2. /\ OpenAttempts = 1 /\ OpenAttempts' = 0
          /\ OpenCancels = 1 /\ OpenCancels' = 0
      BY <2>1, <2>3 DEF Moves, OpenAttempts, OpenCancels, Open, Service!Undecided, Service!Preparing
    <3> QED BY <2>1, <3>1, <3>2, CountsStep
  <2> HIDE DEF new
  <2>5. m_State.Phase \in Open /\ "Cancelled" \in Service!Phases
    BY <2>1 DEF Open, Service!Phases, Service!Undecided, Service!Preparing, Service!Decided
  <2> QED BY <1>2, <2>1, <2>3, <2>4, <2>5, RecordStep
          DEF Open, Service!Undecided, Service!Preparing, Outcomes
<1> QED BY <1>1, <1>2 DEF AcknowledgeCancel, Rejects, Refused

LEMMA CommitStep ==
    ASSUME Invariant, NEW t \in Tickets, Commit(t)
    PROVE  Invariant'
<1> DEFINE new == [m_State EXCEPT !.Phase = "Committed", !.Commits = @ + 1, !.Revision = m_State.Revision + 1]
<1>1. CASE \E status \in Refused : Refuse(status)
  BY <1>1, RefusedStep
<1>2. CASE Admits(t, {"Prepared"}, m_State.Commits = MaxCount)
           /\ Accept("Ok", [m_State EXCEPT !.Phase = "Committed", !.Commits = @ + 1])
           /\ Record(t, "Committed")
  <2>1. /\ TypeOK /\ CountsAgree /\ m_State \in StateType
        /\ Current(t) /\ m_State.Phase \in {"Prepared"} /\ m_State.Revision # MaxCount
    BY <1>2, Fields DEF Invariant, Admits
  <2>2. m_State' = new /\ m_NextAttempt' = m_NextAttempt /\ reply' \in Accepted
    BY <1>2, <2>1 DEF Accept, StateType, Accepted, Record
  <2>3. Moves("Committed", new)
    <3>1. new \in StateType
      <4>1. m_State.Revision + 1 \in Counts /\ m_State.Commits + 1 \in Counts
        BY <1>2, <2>1, RevisionOverflowsFirst, Fields, LimitAssumption DEF Admits, Counts
      <4>2. "Committed" \in Service!Phases
        BY DEF Service!Phases, Service!Undecided, Service!Preparing, Service!Decided
      <4> QED BY <2>1, <4>1, <4>2 DEF StateType
    <3>2. /\ new.Phase = "Committed" /\ new.Identity = m_State.Identity
          /\ new.Attempt = m_State.Attempt
      BY <2>1 DEF StateType
    <3> QED BY <2>1, <2>2, <3>1, <3>2, TicketOfCurrent DEF Moves
  <2>4. CountsAgree'
    <3>1. Adds(0, 1, 0, 0, 0)
      BY <2>1, <2>2, Fields DEF StateType, Adds
    <3>2. /\ OpenAttempts = 1 /\ OpenAttempts' = 0
          /\ OpenCancels = 0 /\ OpenCancels' = 0
      BY <2>1, <2>3 DEF Moves, OpenAttempts, OpenCancels, Open, Service!Undecided, Service!Preparing
    <3> QED BY <2>1, <3>1, <3>2, CountsStep
  <2> HIDE DEF new
  <2>5. m_State.Phase \in Open /\ "Committed" \in Service!Phases
    BY <2>1 DEF Open, Service!Phases, Service!Undecided, Service!Preparing, Service!Decided
  <2> QED BY <1>2, <2>1, <2>3, <2>4, <2>5, RecordStep
          DEF Open, Service!Undecided, Service!Preparing, Outcomes
<1> QED BY <1>1, <1>2 DEF Commit, Rejects, Refused

LEMMA FailStep ==
    ASSUME Invariant, NEW t \in Tickets, Fail(t)
    PROVE  Invariant'
<1> DEFINE new == [m_State EXCEPT !.Phase = "Failed", !.Failures = @ + 1, !.Revision = m_State.Revision + 1]
<1>1. CASE \E status \in Refused : Refuse(status)
  BY <1>1, RefusedStep
<1>2. CASE Admits(t, Service!Undecided, m_State.Failures = MaxCount)
           /\ Accept("Ok", [m_State EXCEPT !.Phase = "Failed", !.Failures = @ + 1])
           /\ Record(t, "Failed")
  <2>1. /\ TypeOK /\ CountsAgree /\ m_State \in StateType
        /\ Current(t) /\ m_State.Phase \in Service!Undecided /\ m_State.Revision # MaxCount
    BY <1>2, Fields DEF Invariant, Admits
  <2>2. m_State' = new /\ m_NextAttempt' = m_NextAttempt /\ reply' \in Accepted
    BY <1>2, <2>1 DEF Accept, StateType, Accepted, Record
  <2>3. Moves("Failed", new)
    <3>1. new \in StateType
      <4>1. m_State.Revision + 1 \in Counts /\ m_State.Failures + 1 \in Counts
        BY <1>2, <2>1, RevisionOverflowsFirst, Fields, LimitAssumption DEF Admits, Counts
      <4>2. "Failed" \in Service!Phases
        BY DEF Service!Phases, Service!Undecided, Service!Preparing, Service!Decided
      <4> QED BY <2>1, <4>1, <4>2 DEF StateType
    <3>2. /\ new.Phase = "Failed" /\ new.Identity = m_State.Identity
          /\ new.Attempt = m_State.Attempt
      BY <2>1 DEF StateType
    <3> QED BY <2>1, <2>2, <3>1, <3>2, TicketOfCurrent DEF Moves
  <2>4. CountsAgree'
    <3>1. Adds(0, 0, 1, 0, 0)
      BY <2>1, <2>2, Fields DEF StateType, Adds
    <3>2. /\ OpenAttempts = 1 /\ OpenAttempts' = 0
          /\ OpenCancels = 0 /\ OpenCancels' = 0
      BY <2>1, <2>3 DEF Moves, OpenAttempts, OpenCancels, Open, Service!Undecided, Service!Preparing
    <3> QED BY <2>1, <3>1, <3>2, CountsStep
  <2> HIDE DEF new
  <2>5. m_State.Phase \in Open /\ "Failed" \in Service!Phases
    BY <2>1 DEF Open, Service!Phases, Service!Undecided, Service!Preparing, Service!Decided
  <2> QED BY <1>2, <2>1, <2>3, <2>4, <2>5, RecordStep
          DEF Open, Service!Undecided, Service!Preparing, Outcomes
<1> QED BY <1>1, <1>2 DEF Fail, Rejects, Refused

LEMMA RequestCancelStep ==
    ASSUME Invariant, NEW i \in Identities \cup {NoIdentity}, RequestCancel(i)
    PROVE  Invariant'
<1> DEFINE new == [m_State EXCEPT !.Phase = "Cancelling", !.CancelRequests = @ + 1,
                                  !.Revision = m_State.Revision + 1]
<1>1. CASE \E status \in Refused : Refuse(status)
  BY <1>1, RefusedStep
<1>2. CASE /\ m_State.Phase \in Service!Undecided
           /\ MaxCount \notin {m_State.CancelRequests, m_State.Revision}
           /\ Accept("Started", [m_State EXCEPT !.Phase = "Cancelling", !.CancelRequests = @ + 1])
           /\ UNCHANGED <<m_NextAttempt, history>>
  <2>1. /\ TypeOK /\ CountsAgree /\ m_State \in StateType
        /\ m_State.Phase \in Service!Undecided /\ m_State.Revision # MaxCount
    BY <1>2, Fields DEF Invariant
  <2>2. m_State' = new /\ m_NextAttempt' = m_NextAttempt /\ reply' \in Accepted
    BY <1>2, <2>1 DEF Accept, StateType, Accepted
  <2>3. Moves("Cancelling", new)
    <3>1. new \in StateType
      <4>1. m_State.Revision + 1 \in Counts /\ m_State.CancelRequests + 1 \in Counts
        BY <2>1, RevisionOverflowsFirst
      <4>2. "Cancelling" \in Service!Phases
        BY DEF Service!Phases
      <4> QED BY <2>1, <4>1, <4>2 DEF StateType
    <3>2. /\ new.Phase = "Cancelling" /\ new.Identity = m_State.Identity
          /\ new.Attempt = m_State.Attempt
      BY <2>1 DEF StateType
    <3>3. m_State.Phase # "Idle"
      BY <2>1 DEF Service!Undecided, Service!Preparing
    <3> QED BY <2>2, <3>1, <3>2, <3>3 DEF Moves
  <2>4. CountsAgree'
    <3>1. Adds(0, 0, 0, 1, 0)
      BY <2>1, <2>2, Fields DEF StateType, Adds
    <3>2. /\ OpenAttempts = 1 /\ OpenAttempts' = 1
          /\ OpenCancels = 0 /\ OpenCancels' = 1
      BY <2>1, <2>3 DEF Moves, OpenAttempts, OpenCancels, Open, Service!Undecided, Service!Preparing
    <3> QED BY <2>1, <3>1, <3>2, CountsStep
  <2> HIDE DEF new
  <2> QED BY <1>2, <2>1, <2>3, <2>4, StayOpen DEF Open
<1> QED BY <1>1, <1>2 DEF RequestCancel, Refused

LEMMA ReleaseStep ==
    ASSUME Invariant, NEW t \in Tickets, Release(t)
    PROVE  Invariant'
<1>1. CASE \E status \in Refused : Refuse(status)
  BY <1>1, RefusedStep
<1>2. CASE /\ Admits(t, Service!Decided, FALSE)
           /\ Accept("Ok", [m_State EXCEPT !.Phase = "Idle",
                   !.Identity = NoIdentity, !.Attempt = 0, !.Polls = 0])
           /\ UNCHANGED <<m_NextAttempt, history>>
  <2>1. /\ TypeOK /\ CountsAgree /\ m_State \in StateType
        /\ m_State.Phase \in Service!Decided /\ m_State.Revision # MaxCount
    BY <1>2, Fields DEF Invariant, Admits
  <2>2. /\ m_State' = [m_State EXCEPT !.Phase = "Idle", !.Identity = NoIdentity,
                       !.Attempt = 0, !.Polls = 0, !.Revision = m_State.Revision + 1]
        /\ reply' = "Ok"
    BY <1>2, <2>1 DEF Accept, StateType
  <2>3. /\ m_State'.Phase = "Idle" /\ m_State'.Identity = NoIdentity /\ m_State'.Attempt = 0
    BY <2>1, <2>2 DEF StateType
  <2>4. CountsAgree'
    <3>1. Adds(0, 0, 0, 0, 0)
      BY <1>2, <2>1, <2>2, Fields DEF StateType, Adds
    <3>2. /\ OpenAttempts = 0 /\ OpenAttempts' = 0
          /\ OpenCancels = 0 /\ OpenCancels' = 0
      BY <2>1, <2>3 DEF OpenAttempts, OpenCancels, Open, Service!Undecided,
                        Service!Preparing, Service!Decided
    <3> QED BY <2>1, <3>1, <3>2, CountsStep
  <2>5. TypeOK'
    <3>1. m_State.Revision + 1 \in Counts /\ 0 \in Counts /\ 0 \in 0 .. MaxPolls
      BY <2>1, RevisionOverflowsFirst, LimitAssumption DEF Counts
    <3>2. "Idle" \in Service!Phases
      BY DEF Service!Phases
    <3>3. m_State' \in StateType
      BY <2>1, <2>2, <3>1, <3>2 DEF StateType
    <3> QED BY <1>2, <2>1, <2>2, <3>3 DEF TypeOK, StateType, Accepted
  <2>6. TicketsAgree' /\ HistoryAgrees'
    <3>1. "Idle" \notin Open
      BY DEF Open, Service!Undecided, Service!Preparing
    <3> QED BY <1>2, <2>3, <3>1 DEF TicketsAgree, HistoryAgrees, Invariant
  <2>7. OneOutcomePerAttempt' /\ CommitsWhatItPrepared'
    BY <1>2 DEF Invariant, OneOutcomePerAttempt, CommitsWhatItPrepared
  <2> QED BY <2>4, <2>5, <2>6, <2>7 DEF Invariant
<1> QED BY <1>1, <1>2 DEF Release, Rejects, Refused

-----------------------------------------------------------------------------
(* The theorems *)

LEMMA InvariantInitially == Init => Invariant
<1>1. Init => TypeOK
  BY LimitAssumption DEF Init, TypeOK, Counts, Service!Phases, Accepted
<1>2. Init => CountsAgree
  BY DEF Init, CountsAgree, OpenAttempts, OpenCancels, Open, Service!Undecided, Service!Preparing
<1>3. Init => TicketsAgree
  BY DEF Init, TicketsAgree
<1>4. Init => HistoryAgrees
  BY DEF Init, HistoryAgrees
<1>5. Init => OneOutcomePerAttempt /\ CommitsWhatItPrepared
  BY DEF Init, OneOutcomePerAttempt, CommitsWhatItPrepared
<1> QED BY <1>1, <1>2, <1>3, <1>4, <1>5 DEF Invariant

LEMMA InvariantKept == Invariant /\ [Next]_vars => Invariant'
<1> SUFFICES ASSUME Invariant, [Next]_vars PROVE Invariant'
  OBVIOUS
<1>1. CASE \E i \in Identities \cup {NoIdentity} : Begin(i) \/ RequestCancel(i)
  BY <1>1, BeginStep, RequestCancelStep
<1>2. CASE \E t \in Tickets : MarkPending(t) \/ MarkPrepared(t) \/ AcknowledgeCancel(t)
  BY <1>2, MarkPendingStep, MarkPreparedStep, AcknowledgeCancelStep
<1>3. CASE \E t \in Tickets : Commit(t) \/ Fail(t) \/ Release(t)
  BY <1>3, CommitStep, FailStep, ReleaseStep
<1>4. CASE UNCHANGED vars
  <2>1. m_State' = m_State /\ m_NextAttempt' = m_NextAttempt
        /\ history' = history /\ reply' = reply
    BY <1>4 DEF vars
  <2>2. TypeOK' /\ CountsAgree'
    BY <2>1 DEF Invariant, TypeOK, CountsAgree, OpenAttempts, OpenCancels, Counts
  <2>3. TicketsAgree' /\ HistoryAgrees'
    BY <2>1 DEF Invariant, TicketsAgree, HistoryAgrees, CurrentTicket, Open
  <2>4. OneOutcomePerAttempt' /\ CommitsWhatItPrepared'
    BY <2>1 DEF Invariant, OneOutcomePerAttempt, CommitsWhatItPrepared
  <2> QED BY <2>2, <2>3, <2>4 DEF Invariant
<1> QED BY <1>1, <1>2, <1>3, <1>4 DEF Next

\* Invariant holds of every state the transaction can be in.
THEOREM InvariantHolds == Spec => []Invariant
BY InvariantInitially, InvariantKept, PTL DEF Spec

\* The fields keep their types: no 64-bit count and no 32-bit poll count of
\* NativeScriptServiceTransaction ever wraps.
THEOREM TypesHold == Spec => []TypeOK
BY InvariantHolds, PTL DEF Invariant

\* Every attempt is accounted for in one count, however the calls come.
THEOREM CountsHold == Spec => []CountsAgree
BY InvariantHolds, PTL DEF Invariant

\* Both.
THEOREM BooksHold == Spec => []BooksAgree
BY InvariantHolds, PTL DEF Invariant, BooksAgree

\* No attempt is ended twice or in two ways by late or repeated tickets.
THEOREM OutcomesHold == Spec => []OneOutcomePerAttempt
BY InvariantHolds, PTL DEF Invariant

\* A commit is of the attempt that was prepared, never of an earlier one's
\* late answer.
THEOREM CommitsHold == Spec => []CommitsWhatItPrepared
BY InvariantHolds, PTL DEF Invariant

-----------------------------------------------------------------------------
(* Every step tells the truth and is a step of the phases *)

Truthful ==
    IF reply' \in Refused
    THEN UNCHANGED <<m_State, m_NextAttempt, history>>
    ELSE m_State'.Revision = m_State.Revision + 1

PhaseStep == [Service!Next]_<<m_State.Phase, m_State.Identity>>

LEMMA RefuseIsFaithful ==
    ASSUME NEW status \in Refused, Refuse(status)
    PROVE  Truthful /\ PhaseStep
BY DEF Refuse, Truthful, PhaseStep

LEMMA RejectsIsFaithful ==
    ASSUME NEW t, NEW from, NEW full, Rejects(t, from, full)
    PROVE  Truthful /\ PhaseStep
BY RefuseIsFaithful DEF Rejects, Refused

LEMMA BeginIsFaithful ==
    ASSUME Invariant, NEW i \in Identities \cup {NoIdentity}, Begin(i)
    PROVE  Truthful /\ PhaseStep
<1>1. CASE \E status \in Refused : Refuse(status)
  BY <1>1, RefuseIsFaithful
<1>2. CASE /\ m_State.Phase = "Idle" \/ (m_State.Phase = "Cancelled" /\ m_State.Identity = i)
           /\ Valid(i) \/ m_State.Phase # "Idle"
           /\ Start(i)
  <2>1. m_State \in StateType /\ i \in Identities
    BY <1>2, Fields DEF Invariant, Valid, TicketsAgree
  <2>2. CASE MaxCount \in {m_NextAttempt, m_State.Attempts, m_State.Revision}
    BY <1>2, <2>2, RefuseIsFaithful DEF Start, Refused
  <2>3. CASE MaxCount \notin {m_NextAttempt, m_State.Attempts, m_State.Revision}
    <3>1. /\ m_State'.Revision = m_State.Revision + 1
          /\ m_State'.Phase = "Preparing" /\ m_State'.Identity = i
          /\ reply' = "Started"
      BY <1>2, <2>1, <2>3 DEF Start, Accept, StateType
    <3>2. Service!Start(i)
      BY <1>2, <3>1 DEF Service!Start
    <3> QED BY <2>1, <3>1, <3>2 DEF Truthful, PhaseStep, Refused, Service!Next
  <2> QED BY <2>2, <2>3
<1> QED BY <1>1, <1>2 DEF Begin, Refused

\* A call that was accepted takes the phase one step further
LEMMA StepIsFaithful ==
    ASSUME NEW to, reply' \in Accepted, m_State'.Revision = m_State.Revision + 1,
           m_State'.Phase = to, m_State'.Identity = m_State.Identity,
           \/ m_State.Phase \in Service!Preparing /\ to \in {"Pending", "Prepared"}
           \/ m_State.Phase \in Service!Undecided /\ to \in {"Cancelling", "Failed"}
           \/ m_State.Phase = "Cancelling" /\ to = "Cancelled"
           \/ m_State.Phase = "Prepared" /\ to = "Committed"
    PROVE  Truthful /\ PhaseStep
<1>1. reply' \notin Refused
  BY DEF Accepted, Refused
<1>2. Service!Next
  BY DEF Service!Next, Service!Step, Service!Wait, Service!Prepare, Service!Cancel,
         Service!Acknowledge, Service!Commit, Service!Fail
<1> QED BY <1>1, <1>2 DEF Truthful, PhaseStep

LEMMA MarkPendingIsFaithful ==
    ASSUME Invariant, NEW t \in Tickets, MarkPending(t)
    PROVE  Truthful /\ PhaseStep
<1>1. CASE \E status \in Refused : Refuse(status)
  BY <1>1, RefuseIsFaithful
<1>2. CASE Admits(t, Service!Preparing, m_State.Polls = MaxPolls) /\ Accept("Ok", [m_State EXCEPT !.Phase = "Pending", !.Polls = @ + 1])
  <2>1. /\ reply' \in Accepted /\ m_State'.Revision = m_State.Revision + 1
        /\ m_State.Phase \in Service!Preparing
        /\ m_State'.Phase = "Pending" /\ m_State'.Identity = m_State.Identity
    BY <1>2, Fields DEF Invariant, Admits, Accept, StateType, Accepted
  <2> QED BY <2>1, StepIsFaithful
<1> QED BY <1>1, <1>2 DEF MarkPending, Rejects, Refused

LEMMA MarkPreparedIsFaithful ==
    ASSUME Invariant, NEW t \in Tickets, MarkPrepared(t)
    PROVE  Truthful /\ PhaseStep
<1>1. CASE \E status \in Refused : Refuse(status)
  BY <1>1, RefuseIsFaithful
<1>2. CASE Admits(t, Service!Preparing, FALSE) /\ Accept("Ok", [m_State EXCEPT !.Phase = "Prepared"])
  <2>1. /\ reply' \in Accepted /\ m_State'.Revision = m_State.Revision + 1
        /\ m_State.Phase \in Service!Preparing
        /\ m_State'.Phase = "Prepared" /\ m_State'.Identity = m_State.Identity
    BY <1>2, Fields DEF Invariant, Admits, Accept, StateType, Accepted
  <2> QED BY <2>1, StepIsFaithful
<1> QED BY <1>1, <1>2 DEF MarkPrepared, Rejects, Refused

LEMMA RequestCancelIsFaithful ==
    ASSUME Invariant, NEW i \in Identities \cup {NoIdentity}, RequestCancel(i)
    PROVE  Truthful /\ PhaseStep
<1>1. CASE \E status \in Refused : Refuse(status)
  BY <1>1, RefuseIsFaithful
<1>2. CASE m_State.Phase \in Service!Undecided /\ Accept("Started", [m_State EXCEPT !.Phase = "Cancelling", !.CancelRequests = @ + 1])
  <2>1. /\ reply' \in Accepted /\ m_State'.Revision = m_State.Revision + 1
        /\ m_State.Phase \in Service!Undecided
        /\ m_State'.Phase = "Cancelling" /\ m_State'.Identity = m_State.Identity
    BY <1>2, Fields DEF Invariant, Accept, StateType, Accepted
  <2> QED BY <2>1, StepIsFaithful
<1> QED BY <1>1, <1>2 DEF RequestCancel, Rejects, Refused

LEMMA AcknowledgeCancelIsFaithful ==
    ASSUME Invariant, NEW t \in Tickets, AcknowledgeCancel(t)
    PROVE  Truthful /\ PhaseStep
<1>1. CASE \E status \in Refused : Refuse(status)
  BY <1>1, RefuseIsFaithful
<1>2. CASE Admits(t, {"Cancelling"}, m_State.Cancellations = MaxCount) /\ Accept("Ok", [m_State EXCEPT !.Phase = "Cancelled", !.Cancellations = @ + 1])
  <2>1. /\ reply' \in Accepted /\ m_State'.Revision = m_State.Revision + 1
        /\ m_State.Phase \in {"Cancelling"}
        /\ m_State'.Phase = "Cancelled" /\ m_State'.Identity = m_State.Identity
    BY <1>2, Fields DEF Invariant, Admits, Accept, StateType, Accepted
  <2> QED BY <2>1, StepIsFaithful
<1> QED BY <1>1, <1>2 DEF AcknowledgeCancel, Rejects, Refused

LEMMA CommitIsFaithful ==
    ASSUME Invariant, NEW t \in Tickets, Commit(t)
    PROVE  Truthful /\ PhaseStep
<1>1. CASE \E status \in Refused : Refuse(status)
  BY <1>1, RefuseIsFaithful
<1>2. CASE Admits(t, {"Prepared"}, m_State.Commits = MaxCount) /\ Accept("Ok", [m_State EXCEPT !.Phase = "Committed", !.Commits = @ + 1])
  <2>1. /\ reply' \in Accepted /\ m_State'.Revision = m_State.Revision + 1
        /\ m_State.Phase \in {"Prepared"}
        /\ m_State'.Phase = "Committed" /\ m_State'.Identity = m_State.Identity
    BY <1>2, Fields DEF Invariant, Admits, Accept, StateType, Accepted
  <2> QED BY <2>1, StepIsFaithful
<1> QED BY <1>1, <1>2 DEF Commit, Rejects, Refused

LEMMA FailIsFaithful ==
    ASSUME Invariant, NEW t \in Tickets, Fail(t)
    PROVE  Truthful /\ PhaseStep
<1>1. CASE \E status \in Refused : Refuse(status)
  BY <1>1, RefuseIsFaithful
<1>2. CASE Admits(t, Service!Undecided, m_State.Failures = MaxCount) /\ Accept("Ok", [m_State EXCEPT !.Phase = "Failed", !.Failures = @ + 1])
  <2>1. /\ reply' \in Accepted /\ m_State'.Revision = m_State.Revision + 1
        /\ m_State.Phase \in Service!Undecided
        /\ m_State'.Phase = "Failed" /\ m_State'.Identity = m_State.Identity
    BY <1>2, Fields DEF Invariant, Admits, Accept, StateType, Accepted
  <2> QED BY <2>1, StepIsFaithful
<1> QED BY <1>1, <1>2 DEF Fail, Rejects, Refused

LEMMA ReleaseIsFaithful ==
    ASSUME Invariant, NEW t \in Tickets, Release(t)
    PROVE  Truthful /\ PhaseStep
<1>1. CASE \E status \in Refused : Refuse(status)
  BY <1>1, RefuseIsFaithful
<1>2. CASE Admits(t, Service!Decided, FALSE)
           /\ Accept("Ok", [m_State EXCEPT !.Phase = "Idle",
                   !.Identity = NoIdentity, !.Attempt = 0, !.Polls = 0])
  <2>1. /\ reply' = "Ok" /\ m_State'.Revision = m_State.Revision + 1
        /\ m_State.Phase \in Service!Decided
        /\ m_State'.Phase = "Idle" /\ m_State'.Identity = NoIdentity
    BY <1>2, Fields DEF Invariant, Admits, Accept, StateType
  <2> QED BY <2>1 DEF Truthful, PhaseStep, Refused, Service!Next, Service!Release
<1> QED BY <1>1, <1>2 DEF Release, Rejects, Refused

LEMMA NextIsFaithful ==
    ASSUME Invariant, Next
    PROVE  Truthful /\ PhaseStep
<1>1. CASE \E i \in Identities \cup {NoIdentity} : Begin(i) \/ RequestCancel(i)
  BY <1>1, BeginIsFaithful, RequestCancelIsFaithful
<1>2. CASE \E t \in Tickets : MarkPending(t) \/ MarkPrepared(t) \/ AcknowledgeCancel(t)
  BY <1>2, MarkPendingIsFaithful, MarkPreparedIsFaithful, AcknowledgeCancelIsFaithful
<1>3. CASE \E t \in Tickets : Commit(t) \/ Fail(t) \/ Release(t)
  BY <1>3, CommitIsFaithful, FailIsFaithful, ReleaseIsFaithful
<1> QED BY <1>1, <1>2, <1>3 DEF Next

\* A refusal changes nothing, not even a count, and a success is exactly one
\* new revision.
THEOREM RepliesHold == Spec => ReplyTellsTheTruth
<1>1. Invariant /\ [Next]_vars => [Truthful]_vars
  BY NextIsFaithful
<1> QED BY <1>1, InvariantHolds, PTL DEF Spec, ReplyTellsTheTruth, Truthful

\* With its tickets, counts and limits the transaction does nothing that
\* NativeScriptServicePhases does not allow.
THEOREM PhasesImplemented == Spec => ImplementsPhases
<1>1. Init => Service!Init
  BY DEF Init, Service!Init
<1>2. Invariant /\ [Next]_vars => [Service!Next]_Service!vars
  <2>1. CASE Next /\ Invariant
    BY <2>1, NextIsFaithful DEF PhaseStep, Service!vars
  <2>2. CASE UNCHANGED vars
    BY <2>2 DEF vars, Service!vars
  <2> QED BY <2>1, <2>2
<1> QED BY <1>1, <1>2, InvariantHolds, PTL DEF Spec, ImplementsPhases, Service!Spec
=============================================================================
