----------------------- MODULE SmoothFadeThreadProofs -----------------------
(***************************************************************************)
(* The table of fades is sound (TableIsSound) for any number of entries,   *)
(* buffers and calls, although the two threads use no lock: each may rely  *)
(* on a little about the entry it has in hand (ThreadKnows, CallKnows),    *)
(* and that is enough for the references to add up.                        *)
(***************************************************************************)
EXTENDS SmoothFadeThread, FiniteSetTheorems, WellFoundedInduction, TLAPS

-----------------------------------------------------------------------------
(***************************************************************************)
(* The invariant.                                                          *)
(***************************************************************************)
CallPlaces == {"Idle", "Request", "Scan", "Take", "Fill", "Activate", "Cancelled",
               "Accepted", "Refused", "SetVolume", "Write"}
ThreadPlaces == {"Visit", "Step", "Settle", "Stop", "Release", "Null", "SetIdle"}

CallRecords ==
    [at : CallPlaces, buffer : Buffers \cup {None}, target : {"silent", "full"},
     stop : BOOLEAN, current : Volumes, next : 1..(NumEntries + 1),
     found : 0..NumEntries, then : {"Idle", "Stop", "Pause", "Resume", "Volume"}]

(* The caller has a buffer, and its channel holds on to it, as long as a   *)
(* call lasts; the thread is somewhere in the table.                       *)
CallsHold ==
    /\ call \in CallRecords
    /\ call.at # "Idle" => call.buffer \in Buffers /\ Held(call.buffer)

ThreadWalks == thread \in [at : ThreadPlaces, entry : Entries]

(* What each thread may rely on in the entry it has in hand, although the  *)
(* other may be at the same entry.  Only the thread makes an entry idle,   *)
(* only the caller makes it anything else; an idle entry has no buffer,    *)
(* but for the one the caller fills.                                       *)
ThreadKnows ==
    LET i == thread.entry
    IN /\ thread.at # "Visit" => entries[i].Status # "Idle"
       /\ thread.at \in {"Step", "Settle", "Stop"} => entries[i].Buffer # None
       /\ thread.at = "SetIdle" => entries[i].Buffer = None

CallKnows ==
    /\ call.at = "Request" => call.found = 0
    /\ call.at = "Scan" /\ call.found # 0 => entries[call.found].Status = "Idle"
    /\ call.at \in {"Take", "Fill", "Activate", "Cancelled"} => call.found # 0
    /\ call.at \in {"Take", "Fill", "Activate"} => entries[call.found].Status # "Cancelled"

IdleIsEmpty ==
    \A i \in Entries :
        /\ entries[i].Status = "Idle"
        /\ ~ (call.at \in {"Fill", "Activate"} /\ call.found = i)
        => entries[i].Buffer = None

(* A buffer in the table has had a channel.                                *)
TableIsOfChannels ==
    \A i \in Entries : entries[i].Buffer # None => channel[entries[i].Buffer].State # "Unused"

RefsAddUp == \A b \in Buffers : sound[b].Refs = References(b)

IInv ==
    /\ TypeOK
    /\ CallsHold
    /\ ThreadWalks
    /\ ThreadKnows
    /\ CallKnows
    /\ IdleIsEmpty
    /\ TableIsOfChannels
    /\ RefsAddUp

-----------------------------------------------------------------------------
(***************************************************************************)
(* Who is where.                                                           *)
(***************************************************************************)
(* Each thread moves on its own.                                           *)
LEMMA ThreadStepsLeave ==
    ASSUME NEW over \in BOOLEAN, FadeThread(over)
    PROVE  call' = call /\ channel' = channel
  BY DEF FadeThread, Visit, StepFade, Settle, StopBuffer, Release, SetNull, SetIdle

(* The main thread leaves the fade thread where it is.                     *)
LEMMA CallStepsLeave ==
    ASSUME Calls \/ \E b \in Buffers : Channels(b) \/ Fades(b)
    PROVE  thread' = thread
  BY DEF Calls, Channels, Fades, Open, Play, ResumeAtStart, SoundEnds, ServiceChannel,
         Stop, Pause, Resume, PlayAgain, FadeIn, SetVolume,
         Request, Scan, Take, Fill, Activate, AfterFade,
         SetBufferVolume, SetCancelled, WriteVolume

(* The walk begins anew after the last entry.                              *)
LEMMA WalkGoesRound ==
    ASSUME NEW i \in Entries
    PROVE  (i % NumEntries) + 1 \in Entries
<1>1. NumEntries \in Nat \ {0} /\ i \in Int
  BY FadeAssumption DEF Entries
<1>2. i % NumEntries \in 0..(NumEntries - 1)
  BY <1>1
<1> QED
  BY <1>1, <1>2 DEF Entries

(* The fade thread stays in the table.                                     *)
LEMMA ThreadWalksStep ==
    ASSUME ThreadWalks, Next
    PROVE  ThreadWalks'
<1>1. thread.entry \in Entries /\ (thread.entry % NumEntries) + 1 \in Entries
  BY WalkGoesRound DEF ThreadWalks
<1>2. ASSUME NextEntry
      PROVE  ThreadWalks'
  BY <1>1, <1>2 DEF NextEntry, ThreadWalks, ThreadPlaces
<1>3. ASSUME NEW place \in ThreadPlaces, To(place)
      PROVE  ThreadWalks'
  BY <1>3 DEF To, ThreadWalks
<1>4. ASSUME NEW over \in BOOLEAN, FadeThread(over)
      PROVE  NextEntry \/ \E place \in ThreadPlaces : To(place)
  BY <1>4 DEF FadeThread, Visit, StepFade, Settle, StopBuffer, Release, SetNull, SetIdle,
              ThreadPlaces
<1> QED
  BY <1>2, <1>3, <1>4, CallStepsLeave DEF Next, ThreadWalks

(* What a call may become.                                                 *)
LEMMA NoCallIsACall ==
    NoCall \in CallRecords /\ NoCall.at = "Idle"
<1>1. 1 \in 1..(NumEntries + 1) /\ 0 \in 0..NumEntries
  BY FadeAssumption
<1> QED
  BY <1>1 DEF NoCall, CallRecords, CallPlaces, Volumes

(* A fade that is asked for.                                               *)
LEMMA FadeIsACall ==
    ASSUME NEW b \in Buffers, NEW target \in {"silent", "full"}, NEW stop \in BOOLEAN,
           NEW then \in {"Stop", "Pause", "Resume", "Volume"}
    PROVE  /\ Fade(b, target, stop, then) \in CallRecords
           /\ Fade(b, target, stop, then).buffer = b
           /\ Fade(b, target, stop, then).at = "Request"
<1>1. PICK c : c = NoCall
  OBVIOUS
<1>2. c \in CallRecords
  BY <1>1, NoCallIsACall
<1>3. Fade(b, target, stop, then) = [c EXCEPT !.at = "Request", !.buffer = b,
                                          !.target = target, !.stop = stop, !.then = then]
  BY <1>1 DEF Fade
<1> QED
  BY <1>2, <1>3 DEF CallRecords, CallPlaces

(* The answer to it: the call goes on with the same buffer.                *)
LEMMA AnswerIsACall ==
    ASSUME CallsHold, NEW place \in CallPlaces, Answer(place)
    PROVE  call' \in CallRecords /\ call'.buffer = call.buffer /\ call'.at = place
<1>1. 1 \in 1..(NumEntries + 1) /\ 0 \in 0..NumEntries /\ "silent" \in Volumes
  BY FadeAssumption DEF Volumes
<1>2. call' = [call EXCEPT !.at = place, !.stop = FALSE, !.current = "silent",
                           !.next = 1, !.found = 0]
  BY DEF Answer
<1> QED
  BY <1>1, <1>2 DEF CallsHold, CallRecords

(* Another place of the same call.                                         *)
LEMMA GotoIsACall ==
    ASSUME CallsHold, NEW place \in CallPlaces, Goto(place)
    PROVE  /\ call' \in CallRecords /\ call'.buffer = call.buffer /\ call'.at = place
           /\ call'.found = call.found
  BY DEF CallsHold, Goto, CallRecords

(* The first entry with a fade of the buffer is one.                       *)
LEMMA FirstMatches ==
    ASSUME {i \in Entries : Matches(i)} # {}
    PROVE  (CHOOSE i \in {i \in Entries : Matches(i)} :
               \A j \in {k \in Entries : Matches(k)} : i <= j)
             \in {i \in Entries : Matches(i)}
<1> DEFINE fades == {i \in Entries : Matches(i)}
           Less == {ss \in Nat \X Nat : ss[1] < ss[2]}
<1>1. fades \subseteq Nat /\ fades # {}
  BY FadeAssumption DEF Entries
<1>2. IsWellFoundedOn(Less, Nat)
  BY NatLessThanWellFounded DEF OpToRel
<1>3. PICK s \in fades : \A t \in fades : ~ (<<t, s>> \in Less)
  <2> HIDE DEF Less, fades
  <2> QED BY <1>1, <1>2, WFMin
<1>4. ASSUME NEW t \in fades PROVE s <= t
  <2>1. s \in Nat /\ t \in Nat
    BY <1>1
  <2>2. ~ (t < s)
    <3>1. <<t, s>> \in Nat \X Nat /\ <<t, s>>[1] = t /\ <<t, s>>[2] = s
      BY <2>1
    <3> QED
      BY <1>3, <3>1
  <2> QED
    BY <2>1, <2>2
<1> HIDE DEF fades
<1>5. (CHOOSE i \in fades : \A j \in fades : i <= j) \in fades
  BY <1>3, <1>4
<1> QED
  BY <1>5 DEF fades

(* No step takes the buffer from under a call.                             *)
LEMMA CallsHoldStep ==
    ASSUME TypeOK, CallsHold, Next
    PROVE  CallsHold'
<1>1. ASSUME call' = NoCall
      PROVE  CallsHold'
  BY <1>1, NoCallIsACall DEF CallsHold
<1>2. ASSUME call' \in CallRecords, call'.buffer = call.buffer, call.at # "Idle",
             channel' = channel
      PROVE  CallsHold'
  BY <1>2 DEF CallsHold, Held
<1>3. ASSUME NEW b \in Buffers, NEW target \in {"silent", "full"}, NEW stop \in BOOLEAN,
             NEW then \in {"Stop", "Pause", "Resume", "Volume"},
             call' = Fade(b, target, stop, then), Held(b), channel' = channel
      PROVE  CallsHold'
  BY <1>3, FadeIsACall DEF CallsHold, Held
<1>4. ASSUME NEW b \in Buffers, Channels(b)
      PROVE  CallsHold'
  <2>1. call' = call
    BY <1>4 DEF Channels, Open, Play, ResumeAtStart, SoundEnds, ServiceChannel
  <2>2. CASE Open(b)
    BY <2>1, <2>2 DEF Open, CallsHold
  <2>3. CASE Play(b) \/ SoundEnds(b)
    BY <2>1, <2>3 DEF Play, SoundEnds, CallsHold, Held
  <2>5. CASE ResumeAtStart(b)
    BY <2>1, <2>5 DEF ResumeAtStart, Free, CallsHold
  <2>4. CASE ServiceChannel(b)
    BY <2>1, <2>4 DEF ServiceChannel, Free, CallsHold
  <2> QED
    BY <1>4, <2>2, <2>3, <2>4, <2>5 DEF Channels
<1>5. ASSUME NEW b \in Buffers, Stop(b)
      PROVE  CallsHold'
  <2>1. CASE channel[b].Playing
    BY <1>5, <1>3, <2>1 DEF Stop, Start, Free
  <2>2. CASE ~channel[b].Playing
    BY <1>5, <2>2 DEF Stop, Free, CallsHold
  <2> QED
    BY <2>1, <2>2
<1>6. ASSUME NEW b \in Buffers, Pause(b)
      PROVE  CallsHold'
  <2>1. CASE channel[b].Playing
    BY <1>6, <1>3, <2>1 DEF Pause, Start, Free
  <2>2. CASE ~channel[b].Playing
    BY <1>6, <2>2 DEF Pause, Free, CallsHold
  <2> QED
    BY <2>1, <2>2
<1>7. ASSUME NEW b \in Buffers, Resume(b) \/ PlayAgain(b)
      PROVE  CallsHold'
  <2>1. channel[b].Volume \in {"silent", "full"}
    BY DEF TypeOK
  <2> QED
    BY <1>3, <1>7, <2>1 DEF Resume, PlayAgain, FadeIn, Start, Free
<1>8. ASSUME NEW b \in Buffers, NEW volume \in {"silent", "full"}, SetVolume(b, volume)
      PROVE  CallsHold'
  <2>1. PICK f : f = Fade(b, volume, FALSE, "Volume")
    OBVIOUS
  <2>2. f \in CallRecords /\ f.buffer = b
    BY <2>1, FadeIsACall
  <2>3. [f EXCEPT !.at = "SetVolume"] \in CallRecords
        /\ [f EXCEPT !.at = "SetVolume"].buffer = b
    BY <2>2 DEF CallRecords, CallPlaces
  <2>4. call' \in CallRecords /\ call'.buffer = b
    BY <1>8, <2>1, <2>2, <2>3 DEF SetVolume, Start
  <2>5. Held(b) /\ channel' = channel
    BY <1>8 DEF SetVolume, Free
  <2> QED
    BY <2>4, <2>5 DEF CallsHold, Held
<1>9. ASSUME Request
      PROVE  CallsHold'
  <2>1. call.at = "Request" /\ channel' = channel
    BY <1>9 DEF Request
  <2>2. CASE Answer("Accepted") \/ Answer("Refused")
    BY <1>2, <2>1, <2>2, AnswerIsACall DEF CallPlaces
  <2>3. CASE call' = [call EXCEPT !.at = "Scan", !.current = sound[call.buffer].Volume]
    <3>1. sound[call.buffer].Volume \in Volumes
      BY <2>1 DEF TypeOK, CallsHold
    <3>2. call' \in CallRecords /\ call'.buffer = call.buffer
      BY <2>3, <3>1 DEF CallsHold, CallRecords, CallPlaces
    <3> QED
      BY <1>2, <2>1, <3>2
  <2> QED
    BY <1>9, <2>2, <2>3 DEF Request, Accept, Refuse
<1>10. ASSUME Scan
       PROVE  CallsHold'
  <2>1. call.at = "Scan" /\ channel' = channel
    BY <1>10 DEF Scan
  <2>2. CASE Answer("Refused") \/ Goto("Take")
    BY <1>2, <2>1, <2>2, AnswerIsACall, GotoIsACall DEF CallPlaces
  <2>3. ASSUME call.next <= NumEntries, NEW found \in {call.found, call.next},
               NEW next \in {call.next, call.next + 1}, NEW place \in {"Scan", "Take"},
               call' = [call EXCEPT !.found = found, !.next = next, !.at = place]
        PROVE  CallsHold'
    <3>1. call.next \in 1..NumEntries /\ call.found \in 0..NumEntries
      BY <2>3, FadeAssumption DEF CallsHold, CallRecords
    <3>2. found \in 0..NumEntries /\ next \in 1..(NumEntries + 1)
      BY <3>1, FadeAssumption
    <3>3. call' \in CallRecords /\ call'.buffer = call.buffer
      BY <2>3, <3>2 DEF CallsHold, CallRecords, CallPlaces
    <3> QED
      BY <1>2, <2>1, <3>3
  <2>4. CASE call.next <= NumEntries /\ call' = [call EXCEPT !.found = call.next, !.at = "Take"]
    <3>1. call' = [call EXCEPT !.found = call.next, !.next = call.next, !.at = "Take"]
      BY <2>4 DEF CallsHold, CallRecords
    <3> QED
      BY <2>3, <2>4, <3>1
  <2>5. CASE /\ call.next <= NumEntries
             /\ \E found \in {call.found, call.next} :
                    call' = [call EXCEPT !.next = call.next + 1, !.found = found]
    <3>1. PICK found \in {call.found, call.next} :
             call' = [call EXCEPT !.next = call.next + 1, !.found = found]
      BY <2>5
    <3>2. call' = [call EXCEPT !.found = found, !.next = call.next + 1, !.at = "Scan"]
      BY <2>1, <3>1 DEF CallsHold, CallRecords
    <3> QED
      BY <2>3, <2>5, <3>2
  <2>6. CASE call.next > NumEntries
    BY <1>10, <2>2, <2>6, FadeAssumption DEF Scan, Refuse, CallsHold, CallRecords
  <2>7. CASE call.next <= NumEntries
    <3>1. ~ (call.next > NumEntries)
      BY <2>7, FadeAssumption DEF CallsHold, CallRecords
    <3> QED
      BY <1>10, <2>4, <2>5, <2>7, <3>1 DEF Scan
  <2> QED
    BY <2>6, <2>7, FadeAssumption DEF CallsHold, CallRecords
<1>11. ASSUME Take \/ Fill \/ Activate
       PROVE  CallsHold'
  <2>1. call.at # "Idle" /\ channel' = channel
    BY <1>11 DEF Take, Fill, Activate
  <2>2. Answer("Accepted") \/ Goto("Fill") \/ Goto("Activate")
    BY <1>11 DEF Take, Fill, Activate, Accept
  <2> QED
    BY <1>2, <2>1, <2>2, AnswerIsACall, GotoIsACall DEF CallPlaces
<1>12. ASSUME AfterFade
       PROVE  CallsHold'
  <2>1. CASE call' = NoCall
    BY <1>1, <2>1
  <2>2. CASE Goto("SetVolume") /\ channel' = channel
    <3>1. call.at # "Idle"
      BY <1>12 DEF AfterFade
    <3> QED
      BY <1>2, <2>2, <3>1, GotoIsACall DEF CallPlaces
  <2> QED
    BY <1>12, <2>1, <2>2 DEF AfterFade, Done
<1>13. ASSUME SetBufferVolume
       PROVE  CallsHold'
  <2>1. call.at = "SetVolume"
    BY <1>13 DEF SetBufferVolume
  <2>2. PICK first : first = CHOOSE i \in {i \in Entries : Matches(i)} :
                                \A j \in {k \in Entries : Matches(k)} : i <= j
    OBVIOUS
  <2>3. CASE call' = NoCall
    BY <1>1, <2>3
  <2>4. CASE Goto("Write") /\ channel' = channel
    BY <1>2, <2>1, <2>4, GotoIsACall DEF CallPlaces
  <2>5. CASE /\ {i \in Entries : Matches(i)} # {} /\ channel' = channel
             /\ call' = [call EXCEPT !.found = first, !.at = "Cancelled"]
    <3>1. first \in 0..NumEntries
      BY <2>2, <2>5, FirstMatches, FadeAssumption DEF Entries
    <3>2. call' \in CallRecords /\ call'.buffer = call.buffer
      BY <2>5, <3>1 DEF CallsHold, CallRecords, CallPlaces
    <3> QED
      BY <1>2, <2>1, <2>5, <3>2
  <2> QED
    BY <1>13, <2>2, <2>3, <2>4, <2>5 DEF SetBufferVolume, Done
<1>14. ASSUME SetCancelled \/ WriteVolume
       PROVE  CallsHold'
  <2>1. CASE SetCancelled
    BY <1>2, <2>1, GotoIsACall DEF SetCancelled, CallPlaces
  <2>2. CASE WriteVolume
    BY <1>1, <2>2 DEF WriteVolume, Done
  <2> QED
    BY <1>14, <2>1, <2>2
<1>15. ASSUME NEW over \in BOOLEAN, FadeThread(over)
       PROVE  CallsHold'
  BY <1>15, ThreadStepsLeave DEF CallsHold, Held
<1> QED
  BY <1>4, <1>5, <1>6, <1>7, <1>8, <1>9, <1>10, <1>11, <1>12, <1>13, <1>14, <1>15
     DEF Next, Fades, Calls

-----------------------------------------------------------------------------
(***************************************************************************)
(* What the threads may rely on.                                           *)
(***************************************************************************)
(* Four steps of a call write to the table.                                *)
LEMMA StepsElsewhere ==
    ASSUME Next
    PROVE  \/ Take \/ Fill \/ Activate \/ SetCancelled
           \/ /\ UNCHANGED <<entries, thread>>
              /\ call.at \in {"Fill", "Activate"} => call' = call
           \/ \E over \in BOOLEAN : FadeThread(over)
<1>1. ASSUME NEW b \in Buffers, Channels(b) \/ Fades(b)
      PROVE  /\ UNCHANGED <<entries, thread>>
             /\ call.at \in {"Fill", "Activate"} => call' = call
  BY <1>1 DEF Channels, Fades, Open, Play, ResumeAtStart, SoundEnds, ServiceChannel,
              Stop, Pause, Resume, PlayAgain, FadeIn, SetVolume, Free
<1>2. ASSUME Request \/ Scan \/ AfterFade \/ SetBufferVolume \/ WriteVolume
      PROVE  UNCHANGED <<entries, thread>> /\ call.at \notin {"Fill", "Activate"}
  BY <1>2 DEF Request, Scan, AfterFade, SetBufferVolume, WriteVolume
<1> QED
  BY <1>1, <1>2 DEF Next, Calls

(* Take enters the buffer into an idle entry, or takes a fade over.        *)
LEMMA TakeCases ==
    ASSUME TypeOK, CallsHold, CallKnows, Take
    PROVE  /\ call.at = "Take" /\ call.found \in Entries /\ call.buffer \in Buffers
           /\ channel' = channel /\ thread' = thread
           /\ \/ /\ entries[call.found].Status = "Active"
                 /\ entries' = entries /\ sound' = sound
                 /\ Answer("Accepted") \/ Goto("Fill")
              \/ /\ entries[call.found].Status = "Idle"
                 /\ entries' = [entries EXCEPT ![call.found].Buffer = call.buffer]
                 /\ sound' = [sound EXCEPT ![call.buffer].Refs = @ + 1]
                 /\ Goto("Fill")
<1>1. /\ call.at = "Take" /\ call.buffer \in Buffers
      /\ channel' = channel /\ thread' = thread
  BY DEF Take, CallsHold
<1>2. call.found \in Entries
  BY <1>1, FadeAssumption DEF CallsHold, CallRecords, CallKnows, Entries
<1>3. entries[call.found].Status \in {"Active", "Idle"}
  BY <1>1, <1>2 DEF CallKnows, TypeOK
<1>4. CASE entries[call.found].Status = "Active"
  BY <1>1, <1>2, <1>4 DEF Take, Accept
<1>5. CASE entries[call.found].Status = "Idle"
  BY <1>1, <1>2, <1>5 DEF Take
<1> QED
  BY <1>3, <1>4, <1>5

(* The thread changes the status of an entry in one step only.             *)
LEMMA ThreadWrites ==
    ASSUME TypeOK, ThreadWalks, StepFade \/ SetNull, NEW i \in Entries
    PROVE  /\ entries'[i].Status = entries[i].Status
           /\ entries'[i].Buffer \in {entries[i].Buffer, None}
<1>1. CASE StepFade
  <2>1. entries' = [entries EXCEPT ![thread.entry].Current = "half"]
    BY <1>1 DEF StepFade
  <2> QED
    BY <2>1 DEF ThreadWalks, TypeOK
<1>2. CASE SetNull
  <2>1. entries' = [entries EXCEPT ![thread.entry].Buffer = None]
    BY <1>2 DEF SetNull
  <2> QED
    BY <2>1 DEF ThreadWalks, TypeOK
<1> QED
  BY <1>1, <1>2

(* No step of the call changes what the thread relies on.                  *)
LEMMA ThreadKnowsStep ==
    ASSUME TypeOK, CallsHold, ThreadWalks, ThreadKnows, CallKnows, IdleIsEmpty, Next
    PROVE  ThreadKnows'
<1>1. thread.entry \in Entries /\ call.found \in 0..NumEntries
  BY DEF ThreadWalks, CallsHold, CallRecords
<1>2. CASE Take
  <2>1. CASE entries' = entries
    BY <1>2, <2>1, TakeCases DEF ThreadKnows
  <2>2. CASE /\ entries[call.found].Status = "Idle"
             /\ entries' = [entries EXCEPT ![call.found].Buffer = call.buffer]
    <3>1. thread' = thread /\ call.found \in Entries
      BY <1>2, TakeCases
    <3>2. CASE thread.entry = call.found
      <4>1. thread.at = "Visit"
        BY <2>2, <3>2 DEF ThreadKnows
      <4> QED
        BY <3>1, <4>1 DEF ThreadKnows
    <3>3. CASE thread.entry # call.found
      <4>1. entries'[thread.entry] = entries[thread.entry]
        BY <1>1, <2>2, <3>1, <3>3 DEF TypeOK
      <4> QED
        BY <3>1, <4>1 DEF ThreadKnows
    <3> QED
      BY <3>2, <3>3
  <2> QED
    BY <1>2, <2>1, <2>2, TakeCases
<1>3. CASE Fill
  BY <1>1, <1>3 DEF Fill, ThreadKnows, TypeOK
<1>4. CASE Activate
  BY <1>1, <1>4 DEF Activate, ThreadKnows, TypeOK
<1>5. CASE SetCancelled
  BY <1>1, <1>5 DEF SetCancelled, ThreadKnows, TypeOK
<1>6. CASE UNCHANGED <<entries, thread>>
  BY <1>6 DEF ThreadKnows
<1>7. ASSUME NEW over \in BOOLEAN, FadeThread(over)
      PROVE  ThreadKnows'
  <2>1. CASE Visit(over)
    <3>1. entries' = entries /\ thread.at = "Visit"
      BY <2>1 DEF Visit, At
    <3>2. CASE NextEntry
      BY <3>2 DEF NextEntry, ThreadKnows
    <3>3. CASE To("Release") /\ e.Status # "Idle"
      BY <3>1, <3>3 DEF To, e, ThreadWalks, ThreadKnows
    <3>4. CASE (To("Settle") \/ To("Step")) /\ e.Status # "Idle" /\ e.Buffer # None
      BY <3>1, <3>4 DEF To, e, ThreadWalks, ThreadKnows
    <3>5. e.Status \in {"Idle", "Active", "Cancelled"}
      BY <1>1 DEF e, TypeOK
    <3> QED
      BY <2>1, <3>2, <3>3, <3>4, <3>5 DEF Visit
  <2>2. CASE StepFade \/ SetIdle
    BY <2>2 DEF StepFade, SetIdle, NextEntry, ThreadKnows
  <2>3. CASE Settle
    BY <1>1, <2>3 DEF Settle, At, To, ThreadWalks, ThreadKnows
  <2>4. CASE StopBuffer
    BY <1>1, <2>4 DEF StopBuffer, At, To, ThreadWalks, ThreadKnows
  <2>5. CASE Release
    BY <1>1, <2>5 DEF Release, At, To, ThreadWalks, ThreadKnows
  <2>6. CASE SetNull
    BY <1>1, <2>6 DEF SetNull, At, To, ThreadWalks, ThreadKnows, TypeOK
  <2> QED
    BY <1>7, <2>1, <2>2, <2>3, <2>4, <2>5, <2>6 DEF FadeThread
<1> QED
  BY <1>2, <1>3, <1>4, <1>5, <1>6, <1>7, StepsElsewhere

(* No step of the thread changes what the call relies on.                  *)
LEMMA CallKnowsStep ==
    ASSUME TypeOK, CallsHold, ThreadWalks, ThreadKnows, CallKnows, Next
    PROVE  CallKnows'
<1>1. ASSUME call'.at \notin {"Scan", "Take", "Fill", "Activate", "Cancelled"},
             call'.at = "Request" => call'.found = 0
      PROVE  CallKnows'
  BY <1>1 DEF CallKnows
<1>2. ASSUME UNCHANGED <<entries, call>>
      PROVE  CallKnows'
  BY <1>2 DEF CallKnows
<1>3. ASSUME NEW place \in CallPlaces \ {"Request", "Scan", "Take", "Fill", "Activate",
                                         "Cancelled"},
             Answer(place) \/ Goto(place) \/ call' = NoCall
      PROVE  CallKnows'
  BY <1>1, <1>3, AnswerIsACall, GotoIsACall, NoCallIsACall
<1>4. ASSUME NEW b \in Buffers, Channels(b) \/ Fades(b)
      PROVE  CallKnows'
  <2>1. CASE UNCHANGED <<entries, call>>
    BY <1>2, <2>1
  <2>2. ASSUME NEW target, NEW stop, NEW then, call' = Fade(b, target, stop, then)
        PROVE  CallKnows'
    BY <1>1, <2>2 DEF Fade, NoCall
  <2>3. ASSUME NEW target, NEW stop, NEW then,
               call' = [Fade(b, target, stop, then) EXCEPT !.at = "SetVolume"]
        PROVE  CallKnows'
    BY <1>1, <2>3 DEF Fade, NoCall
  <2> QED
    BY <1>4, <2>1, <2>2, <2>3
       DEF Channels, Fades, Open, Play, ResumeAtStart, SoundEnds, ServiceChannel, Stop, Pause, Resume, PlayAgain, FadeIn, SetVolume, Start
<1>5. CASE Request
  <2>1. CASE call' = [call EXCEPT !.at = "Scan", !.current = sound[call.buffer].Volume]
    <3>1. call'.found = 0
      BY <1>5, <2>1 DEF Request, CallsHold, CallRecords, CallKnows
    <3> QED
      BY <2>1, <3>1 DEF CallKnows, CallsHold, CallRecords
  <2> QED
    BY <1>3, <1>5, <2>1 DEF Request, Accept, Refuse, CallPlaces
<1>6. CASE Scan
  <2>1. /\ call.at = "Scan" /\ entries' = entries
        /\ call.next \in 1..(NumEntries + 1) /\ call.found \in 0..NumEntries
    BY <1>6 DEF Scan, CallsHold, CallRecords
  <2>2. CASE call.next > NumEntries /\ call.found = 0
    BY <1>3, <1>6, <2>1, <2>2, FadeAssumption DEF Scan, Refuse, CallPlaces
  <2>3. CASE call.next > NumEntries /\ call.found # 0
    <3>1. Goto("Take")
      BY <1>6, <2>1, <2>3, FadeAssumption DEF Scan
    <3>2. call'.at = "Take" /\ call'.found = call.found
      BY <3>1, GotoIsACall DEF CallPlaces
    <3>3. entries[call.found].Status = "Idle"
      BY <2>1, <2>3 DEF CallKnows
    <3> QED
      BY <2>1, <2>3, <3>2, <3>3 DEF CallKnows
  <2>4. CASE call.next \in Entries /\ Matches(call.next)
    <3>1. call' = [call EXCEPT !.found = call.next, !.at = "Take"]
      BY <1>6, <2>4, FadeAssumption DEF Scan, Entries
    <3>2. call'.at = "Take" /\ call'.found = call.next
      BY <3>1 DEF CallsHold, CallRecords
    <3> QED
      BY <2>1, <2>4, <3>2, FadeAssumption DEF CallKnows, Matches, Entries
  <2>5. CASE call.next \in Entries /\ ~Matches(call.next)
    <3>1. call' = [call EXCEPT !.next = call.next + 1,
                               !.found = IF @ = 0 /\ entries[call.next].Status = "Idle"
                                         THEN call.next ELSE @]
      BY <1>6, <2>5, FadeAssumption DEF Scan, Entries
    <3>2. call'.at = "Scan"
          /\ \/ call'.found = call.found
             \/ call'.found = call.next /\ entries[call.next].Status = "Idle"
      BY <2>1, <3>1 DEF CallsHold, CallRecords
    <3> QED
      BY <2>1, <3>2 DEF CallKnows
  <2> QED
    BY <2>1, <2>2, <2>3, <2>4, <2>5, FadeAssumption DEF Entries
<1>7. CASE Take
  <2>1. CASE Answer("Accepted")
    BY <1>3, <2>1 DEF CallPlaces
  <2>2. CASE Goto("Fill")
    <3>1. call'.at = "Fill" /\ call'.found = call.found
      BY <2>2, GotoIsACall DEF CallPlaces
    <3>2. entries'[call.found].Status = entries[call.found].Status
      <4>1. CASE entries' = entries
        BY <4>1
      <4>2. CASE entries' = [entries EXCEPT ![call.found].Buffer = call.buffer]
        <5>1. call.found \in Entries
          BY <1>7, TakeCases
        <5> QED
          BY <4>2, <5>1 DEF TypeOK
      <4> QED
        BY <1>7, <4>1, <4>2, TakeCases
    <3>3. call.found # 0 /\ entries[call.found].Status # "Cancelled"
      BY <1>7, TakeCases DEF CallKnows
    <3> QED
      BY <3>1, <3>2, <3>3 DEF CallKnows
  <2> QED
    BY <1>7, <2>1, <2>2, TakeCases
<1>8. CASE Fill
  <2>1. call.at = "Fill" /\ call.found # 0 /\ call.found \in Entries
    BY <1>8, FadeAssumption DEF Fill, CallKnows, CallsHold, CallRecords, Entries
  <2>2. call'.at = "Activate" /\ call'.found = call.found
    BY <1>8, GotoIsACall DEF Fill, CallPlaces
  <2>3. entries'[call.found].Status = entries[call.found].Status
    BY <1>8, <2>1 DEF Fill, TypeOK
  <2> QED
    BY <2>1, <2>2, <2>3 DEF CallKnows
<1>9. CASE Activate
  BY <1>3, <1>9 DEF Activate, Accept, CallPlaces
<1>10. CASE AfterFade
  BY <1>3, <1>10 DEF AfterFade, Done, CallPlaces
<1>11. CASE SetBufferVolume
  <2>1. PICK first : first = CHOOSE i \in {i \in Entries : Matches(i)} :
                                \A j \in {k \in Entries : Matches(k)} : i <= j
    OBVIOUS
  <2>2. CASE Goto("Write") \/ Done
    BY <1>3, <2>2 DEF Done, CallPlaces
  <2>3. CASE /\ {i \in Entries : Matches(i)} # {}
             /\ call' = [call EXCEPT !.found = first, !.at = "Cancelled"]
    <3>1. first # 0
      <4>1. first \in Entries
        BY <2>1, <2>3, FirstMatches
      <4> QED
        BY <4>1, FadeAssumption DEF Entries
    <3>2. call'.at = "Cancelled" /\ call'.found = first
      BY <2>3 DEF CallsHold, CallRecords
    <3> QED
      BY <3>1, <3>2 DEF CallKnows
  <2> QED
    BY <1>11, <2>1, <2>2, <2>3 DEF SetBufferVolume
<1>12. CASE SetCancelled
  BY <1>3, <1>12 DEF SetCancelled, CallPlaces
<1>13. CASE WriteVolume
  BY <1>3, <1>13 DEF WriteVolume, Done, CallPlaces
<1>14. ASSUME NEW over \in BOOLEAN, FadeThread(over)
       PROVE  CallKnows'
  <2>1. call' = call
    BY <1>14, ThreadStepsLeave
  <2>2. CASE entries' = entries
    BY <1>2, <2>1, <2>2
  <2>3. CASE StepFade \/ SetNull
    <3>1. \A i \in Entries : entries'[i].Status = entries[i].Status
      BY <2>3, ThreadWrites
    <3>2. call.found # 0 => call.found \in Entries
      BY FadeAssumption DEF CallsHold, CallRecords, Entries
    <3> QED
      BY <2>1, <3>1, <3>2 DEF CallKnows
  <2>4. CASE SetIdle
    <3>1. \A i \in Entries : \/ entries'[i].Status = entries[i].Status
                             \/ entries'[i].Status = "Idle"
      BY <2>4 DEF SetIdle, ThreadWalks, TypeOK
    <3>2. call.found # 0 => call.found \in Entries
      BY FadeAssumption DEF CallsHold, CallRecords, Entries
    <3> QED
      BY <2>1, <3>1, <3>2 DEF CallKnows
  <2> QED
    BY <1>14, <2>2, <2>3, <2>4 DEF FadeThread, Visit, Settle, StopBuffer, Release
<1> QED
  BY <1>4, <1>5, <1>6, <1>7, <1>8, <1>9, <1>10, <1>11, <1>12, <1>13, <1>14 DEF Next, Calls

(* An entry becomes idle without a buffer, and gets one from Take only.    *)
LEMMA IdleIsEmptyStep ==
    ASSUME TypeOK, CallsHold, ThreadWalks, ThreadKnows, CallKnows, IdleIsEmpty, Next
    PROVE  IdleIsEmpty'
<1>1. CASE Take
  <2>1. call.at = "Take"
    BY <1>1, TakeCases
  <2>2. CASE entries' = entries
    BY <2>1, <2>2 DEF IdleIsEmpty
  <2>3. CASE entries' = [entries EXCEPT ![call.found].Buffer = call.buffer] /\ Goto("Fill")
    <3>1. call'.at = "Fill" /\ call'.found = call.found
      BY <2>3, GotoIsACall DEF CallPlaces
    <3>2. \A i \in Entries : i # call.found => entries'[i] = entries[i]
      BY <2>3 DEF TypeOK
    <3> QED
      BY <2>1, <3>1, <3>2 DEF IdleIsEmpty
  <2> QED
    BY <1>1, <2>2, <2>3, TakeCases
<1>2. CASE Fill
  <2>1. call.at = "Fill" /\ call'.at = "Activate" /\ call'.found = call.found
    BY <1>2, GotoIsACall DEF Fill, CallPlaces
  <2>2. \A i \in Entries : i # call.found => entries'[i] = entries[i]
    BY <1>2 DEF Fill, TypeOK
  <2> QED
    BY <2>1, <2>2 DEF IdleIsEmpty
<1>3. CASE Activate
  <2>1. \A i \in Entries : IF i = call.found THEN entries'[i].Status = "Active"
                           ELSE entries'[i] = entries[i]
    BY <1>3 DEF Activate, TypeOK
  <2>2. call.at = "Activate"
    BY <1>3 DEF Activate
  <2> QED
    BY <2>1, <2>2 DEF IdleIsEmpty
<1>4. CASE SetCancelled
  <2>1. \A i \in Entries : IF i = call.found THEN entries'[i].Status = "Cancelled"
                           ELSE entries'[i] = entries[i]
    BY <1>4 DEF SetCancelled, TypeOK
  <2>2. call.at = "Cancelled"
    BY <1>4 DEF SetCancelled
  <2> QED
    BY <2>1, <2>2 DEF IdleIsEmpty
<1>5. ASSUME NEW over \in BOOLEAN, FadeThread(over)
      PROVE  IdleIsEmpty'
  <2>1. call' = call
    BY <1>5, ThreadStepsLeave
  <2>2. CASE entries' = entries
    BY <2>1, <2>2 DEF IdleIsEmpty
  <2>3. CASE StepFade \/ SetNull
    <3>1. \A i \in Entries : /\ entries'[i].Status = entries[i].Status
                             /\ entries'[i].Buffer \in {entries[i].Buffer, None}
      BY <2>3, ThreadWrites
    <3> QED
      BY <2>1, <3>1 DEF IdleIsEmpty
  <2>4. CASE SetIdle
    <3>1. \A i \in Entries : i # thread.entry => entries'[i] = entries[i]
      BY <2>4 DEF SetIdle, TypeOK
    <3>2. entries'[thread.entry].Buffer = None
      BY <2>4 DEF SetIdle, At, ThreadKnows, ThreadWalks, TypeOK
    <3> QED
      BY <2>1, <3>1, <3>2 DEF IdleIsEmpty
  <2> QED
    BY <1>5, <2>2, <2>3, <2>4 DEF FadeThread, Visit, Settle, StopBuffer, Release
<1>6. ASSUME UNCHANGED entries, call.at \in {"Fill", "Activate"} => call' = call
      PROVE  IdleIsEmpty'
  BY <1>6 DEF IdleIsEmpty
<1> QED
  BY <1>1, <1>2, <1>3, <1>4, <1>5, <1>6, StepsElsewhere

-----------------------------------------------------------------------------
(***************************************************************************)
(* Types.  That no count of references falls below zero is known only once *)
(* the references add up, so that here it is an integer.                   *)
(***************************************************************************)
EntryRecords == [Status : {"Idle", "Active", "Cancelled"}, Buffer : Buffers \cup {None},
                 Stop : BOOLEAN, Target : {"silent", "full"}, Current : Volumes]
SoundRecords == [Refs : Int, Playing : BOOLEAN, Volume : Volumes]
ChannelRecords == [State : {"Unused", "Held", "Gone"}, Volume : {"silent", "full"},
                   Paused : BOOLEAN, Playing : BOOLEAN]

(* The functions that the type invariant speaks of.                        *)
LEMMA TypesOf ==
    ASSUME TypeOK
    PROVE  /\ entries \in [Entries -> EntryRecords]
           /\ sound \in [Buffers -> SoundRecords]
           /\ channel \in [Buffers -> ChannelRecords]
<1>1. sound \in [Buffers -> [Refs : Nat, Playing : BOOLEAN, Volume : Volumes]]
  BY DEF TypeOK
<1>2. [Refs : Nat, Playing : BOOLEAN, Volume : Volumes] \subseteq SoundRecords
  BY DEF SoundRecords
<1>3. sound \in [Buffers -> SoundRecords]
  BY <1>1, <1>2
<1> QED
  BY <1>3 DEF TypeOK, EntryRecords, ChannelRecords

(* Each step writes entries of the table.                                  *)
LEMMA EntriesStep ==
    ASSUME TypeOK, CallsHold, ThreadWalks, CallKnows, Next
    PROVE  entries' \in [Entries -> EntryRecords]
<1>1. entries \in [Entries -> EntryRecords] /\ thread.entry \in Entries
  BY TypesOf DEF ThreadWalks
<1>2. call.found # 0 => call.found \in Entries
  BY FadeAssumption DEF CallsHold, CallRecords, Entries
<1>3. /\ call.target \in {"silent", "full"} /\ call.current \in Volumes
      /\ call.stop \in BOOLEAN
  BY DEF CallsHold, CallRecords
<1>4. CASE Take
  BY <1>1, <1>4, TakeCases DEF EntryRecords
<1>5. CASE Fill
  BY <1>1, <1>2, <1>3, <1>5 DEF Fill, CallKnows, EntryRecords
<1>6. CASE Activate \/ SetCancelled
  BY <1>1, <1>2, <1>6 DEF Activate, SetCancelled, CallKnows, EntryRecords
<1>7. ASSUME NEW over \in BOOLEAN, FadeThread(over)
      PROVE  entries' \in [Entries -> EntryRecords]
  <2>1. CASE StepFade
    BY <1>1, <2>1 DEF StepFade, EntryRecords, Volumes
  <2>2. CASE SetNull \/ SetIdle
    BY <1>1, <2>2 DEF SetNull, SetIdle, EntryRecords
  <2>3. CASE entries' = entries
    BY <1>1, <2>3
  <2> QED
    BY <1>7, <2>1, <2>2, <2>3 DEF FadeThread, Visit, Settle, StopBuffer, Release
<1> QED
  BY <1>1, <1>4, <1>5, <1>6, <1>7, StepsElsewhere

(* What a sound buffer may become.                                         *)
LEMMA SoundChanges ==
    ASSUME NEW s \in SoundRecords
    PROVE  /\ Released(s) \in SoundRecords
           /\ \A v \in Volumes : [s EXCEPT !.Volume = v] \in SoundRecords
           /\ \A q : [s EXCEPT !.Playing = @ /\ q] \in SoundRecords
           /\ \A v \in Volumes, p \in BOOLEAN :
                 [s EXCEPT !.Volume = v, !.Playing = p] \in SoundRecords
<1>1. \A n \in Int, p \in BOOLEAN : [s EXCEPT !.Refs = n, !.Playing = p] \in SoundRecords
  BY DEF SoundRecords
<1>2. Released(s) \in SoundRecords
  <2>1. PICK p \in BOOLEAN : p = (s.Playing /\ s.Refs > 1)
    OBVIOUS
  <2>2. Released(s) = [s EXCEPT !.Refs = s.Refs - 1, !.Playing = p]
    BY <2>1 DEF Released
  <2>3. s.Refs - 1 \in Int
    BY DEF SoundRecords
  <2> QED
    BY <1>1, <2>2, <2>3
<1>3. ASSUME NEW q
      PROVE  [s EXCEPT !.Playing = @ /\ q] \in SoundRecords
  <2>1. PICK p \in BOOLEAN : p = (s.Playing /\ q)
    OBVIOUS
  <2>2. [s EXCEPT !.Playing = @ /\ q] = [s EXCEPT !.Playing = p]
    BY <2>1
  <2> QED
    BY <2>2 DEF SoundRecords
<1> QED
  BY <1>2, <1>3 DEF SoundRecords

(* Each step writes channels.                                              *)
LEMMA ChannelStep ==
    ASSUME TypeOK, CallsHold, Next
    PROVE  channel' \in [Buffers -> ChannelRecords]
<1>1. /\ channel \in [Buffers -> ChannelRecords] /\ sound \in [Buffers -> SoundRecords]
      /\ call.target \in {"silent", "full"}
  BY TypesOf DEF CallsHold, CallRecords
<1>2. ASSUME NEW b \in Buffers, Channels(b) \/ Fades(b)
      PROVE  channel' \in [Buffers -> ChannelRecords]
  <2>1. CASE channel' = channel
    BY <1>1, <2>1
  <2>2. CASE Open(b)
    BY <1>1, <2>2 DEF Open, ChannelRecords
  <2>3. CASE GiveBack(b)
    BY <1>1, <2>3 DEF GiveBack, ChannelRecords
  <2>4. CASE channel' = [channel EXCEPT ![b].Playing = sound[b].Playing]
    BY <1>1, <2>4 DEF ChannelRecords, SoundRecords
  <2>5. ASSUME NEW p \in BOOLEAN, channel' = [channel EXCEPT ![b].Paused = p]
        PROVE  channel' \in [Buffers -> ChannelRecords]
    BY <1>1, <2>5 DEF ChannelRecords
  <2> QED
    BY <1>2, <2>1, <2>2, <2>3, <2>4, <2>5
       DEF Channels, Fades, Play, ResumeAtStart, SoundEnds, ServiceChannel, Stop, Pause,
           Resume, PlayAgain, FadeIn, SetVolume
<1>3. CASE AfterFade
  <2>1. PICK b \in Buffers : b = call.buffer
    BY <1>3 DEF AfterFade, CallsHold
  <2>2. CASE call.then = "Stop"
    BY <1>1, <1>3, <2>1, <2>2 DEF AfterFade, ChannelRecords
  <2>3. ASSUME NEW p \in BOOLEAN, channel' = [channel EXCEPT ![b].Paused = p]
        PROVE  channel' \in [Buffers -> ChannelRecords]
    BY <1>1, <2>3 DEF ChannelRecords
  <2>4. CASE call.then = "Volume"
    <3>1. CASE channel' = channel
      BY <1>1, <3>1
    <3>2. CASE channel' = [channel EXCEPT ![b].Volume = call.target]
      BY <1>1, <3>2 DEF ChannelRecords
    <3> QED
      BY <1>3, <2>1, <2>4, <3>1, <3>2 DEF AfterFade
  <2> QED
    BY <1>3, <2>1, <2>2, <2>3, <2>4 DEF AfterFade
<1>4. CASE SetBufferVolume \/ WriteVolume
  BY <1>1, <1>4 DEF SetBufferVolume, WriteVolume, CallsHold, ChannelRecords
<1>5. CASE Request \/ Scan \/ Take \/ Fill \/ Activate \/ SetCancelled
  BY <1>1, <1>5 DEF Request, Scan, Take, Fill, Activate, SetCancelled
<1> QED
  BY <1>1, <1>2, <1>3, <1>4, <1>5, ThreadStepsLeave DEF Next, Calls

(* Each step writes sound buffers.                                         *)
LEMMA SoundStep ==
    ASSUME TypeOK, CallsHold, ThreadWalks, ThreadKnows, CallKnows, Next
    PROVE  sound' \in [Buffers -> SoundRecords]
<1>1. /\ sound \in [Buffers -> SoundRecords] /\ channel \in [Buffers -> ChannelRecords]
      /\ entries \in [Entries -> EntryRecords]
      /\ thread.entry \in Entries
      /\ call.target \in {"silent", "full"}
      /\ {"silent", "half", "full"} = Volumes
  BY TypesOf DEF CallsHold, CallRecords, ThreadWalks, Volumes
<1>2. ASSUME NEW b \in Buffers, NEW s \in SoundRecords, sound' = [sound EXCEPT ![b] = s]
      PROVE  sound' \in [Buffers -> SoundRecords]
  BY <1>1, <1>2
<1>3. ASSUME NEW b \in Buffers, Channels(b) \/ Fades(b)
      PROVE  sound' \in [Buffers -> SoundRecords]
  <2>1. CASE sound' = sound
    BY <1>1, <2>1
  <2>2. CASE Open(b)
    BY <1>1, <2>2 DEF Open, SoundRecords
  <2>3. CASE GiveBack(b)
    BY <1>1, <2>3, SoundChanges DEF GiveBack
  <2>4. ASSUME NEW v \in Volumes,
               sound' = [sound EXCEPT ![b].Volume = v, ![b].Playing = TRUE]
        PROVE  sound' \in [Buffers -> SoundRecords]
    <3>1. [sound[b] EXCEPT !.Volume = v, !.Playing = TRUE] \in SoundRecords
      BY <1>1 DEF SoundRecords
    <3>2. sound' = [sound EXCEPT ![b] = [sound[b] EXCEPT !.Volume = v, !.Playing = TRUE]]
      BY <1>1, <2>4
    <3> QED
      BY <1>1, <3>1, <3>2
  <2>6. CASE Play(b)
    <3>1. channel[b].Volume \in Volumes
      BY <1>1 DEF ChannelRecords
    <3> QED
      BY <2>4, <2>6, <3>1 DEF Play
  <2>7. CASE Resume(b) \/ PlayAgain(b)
    BY <1>1, <2>4, <2>7 DEF Resume, PlayAgain, FadeIn
  <2>8. CASE ResumeAtStart(b)
    BY <1>1, <2>8 DEF ResumeAtStart, SoundRecords
  <2>5. CASE SoundEnds(b)
    BY <1>1, <2>5 DEF SoundEnds, SoundRecords
  <2> QED
    BY <1>3, <2>1, <2>2, <2>3, <2>5, <2>6, <2>7, <2>8
       DEF Channels, Fades, ServiceChannel, Stop, Pause, SetVolume
<1>4. CASE Request
  <2>1. CASE sound' = sound
    BY <1>1, <2>1
  <2>2. CASE sound' = [sound EXCEPT ![call.buffer].Playing = ~call.stop]
    <3>1. PICK p \in BOOLEAN : p = ~call.stop
      OBVIOUS
    <3>2. sound' = [sound EXCEPT ![call.buffer].Playing = p]
      BY <2>2, <3>1
    <3> QED
      BY <1>1, <3>2, ZenonT(30) DEF SoundRecords
  <2> QED
    BY <1>4, <2>1, <2>2 DEF Request
<1>5. CASE Take
  BY <1>1, <1>5, TakeCases DEF SoundRecords
<1>6. CASE AfterFade
  <2>1. call.buffer \in Buffers
    BY <1>6 DEF AfterFade, CallsHold
  <2>2. PICK stopped \in [Buffers -> SoundRecords] :
           stopped = [sound EXCEPT ![call.buffer].Playing = @ /\ ~(call.at = "Refused")]
    <3>1. [sound[call.buffer] EXCEPT !.Playing = @ /\ ~(call.at = "Refused")]
            \in SoundRecords
      BY <1>1, <2>1, SoundChanges
    <3>2. [sound EXCEPT ![call.buffer] =
              [sound[call.buffer] EXCEPT !.Playing = @ /\ ~(call.at = "Refused")]]
            \in [Buffers -> SoundRecords]
      BY <1>1, <3>1
    <3> QED
      BY <3>2
  <2>3. Released(stopped[call.buffer]) \in SoundRecords
    BY <2>1, <2>2, SoundChanges
  <2>4. CASE call.then = "Stop"
    BY <1>6, <2>1, <2>2, <2>3, <2>4 DEF AfterFade
  <2>5. CASE call.then = "Pause"
    BY <1>6, <2>2, <2>5 DEF AfterFade
  <2>6. CASE call.then = "Resume"
    BY <1>1, <1>6, <2>1, <2>6 DEF AfterFade, SoundRecords
  <2>7. CASE call.then = "Volume"
    BY <1>1, <1>6, <2>7 DEF AfterFade
  <2> QED
    BY <1>6, <2>4, <2>5, <2>6, <2>7 DEF AfterFade
<1>7. CASE WriteVolume
  BY <1>1, <1>7 DEF WriteVolume, CallsHold, SoundRecords
<1>8. CASE Scan \/ Fill \/ Activate \/ SetBufferVolume \/ SetCancelled
  BY <1>1, <1>8 DEF Scan, Fill, Activate, SetBufferVolume, SetCancelled
<1>9. ASSUME NEW over \in BOOLEAN, FadeThread(over)
      PROVE  sound' \in [Buffers -> SoundRecords]
  <2>1. thread.at \in {"Step", "Settle", "Stop"} => e.Buffer \in Buffers
    BY <1>1 DEF ThreadKnows, e, EntryRecords
  <2>2. e \in EntryRecords
    BY <1>1 DEF e
  <2>3. CASE StepFade
    BY <1>1, <2>1, <2>3 DEF StepFade, At, SoundRecords
  <2>4. CASE Settle
    BY <1>1, <2>1, <2>2, <2>4, SMTT(20)
    DEF Settle, At, SoundRecords, EntryRecords
  <2>5. CASE StopBuffer
    BY <1>1, <2>1, <2>5, ZenonT(30) DEF StopBuffer, At, SoundRecords
  <2>6. CASE Release
    <3>1. CASE e.Buffer = None
      BY <1>1, <2>6, <3>1 DEF Release
    <3>2. CASE e.Buffer \in Buffers
      BY <1>1, <2>6, <3>2, SoundChanges, FadeAssumption DEF Release
    <3> QED
      BY <2>2, <3>1, <3>2 DEF EntryRecords
  <2>7. CASE Visit(over) \/ SetNull \/ SetIdle
    BY <1>1, <2>7 DEF Visit, SetNull, SetIdle
  <2> QED
    BY <1>9, <2>3, <2>4, <2>5, <2>6, <2>7 DEF FadeThread
<1> QED
  BY <1>3, <1>4, <1>5, <1>6, <1>7, <1>8, <1>9 DEF Next, Calls

-----------------------------------------------------------------------------
(***************************************************************************)
(* References.                                                             *)
(***************************************************************************)
NullAt(i) == At("Null") /\ thread.entry = i

(* The references are counted by numbers.                                  *)
LEMMA TableIsFinite ==
    ASSUME NEW b \in Buffers
    PROVE  /\ IsFiniteSet(InTable(b))
           /\ References(b) \in Nat
<1>1. IsFiniteSet(Entries) /\ InTable(b) \subseteq Entries
  BY FadeAssumption, FS_Interval DEF Entries, InTable
<1>2. IsFiniteSet(InTable(b)) /\ Cardinality(InTable(b)) \in Nat
  BY <1>1, FS_Subset, FS_CardinalityType
<1> QED
  BY <1>2 DEF References

(* The same, after a step.                                                 *)
LEMMA TableStaysFinite ==
    ASSUME NEW b \in Buffers
    PROVE  References(b)' \in Nat
<1>1. IsFiniteSet(Entries) /\ InTable(b)' \subseteq Entries
  BY FadeAssumption, FS_Interval DEF Entries, InTable
<1>2. Cardinality(InTable(b)') \in Nat
  BY <1>1, FS_Subset, FS_CardinalityType
<1> QED
  BY <1>2 DEF References

(* Steps that leave a buffer alone.                                        *)
LEMMA BufferLeftAlone ==
    ASSUME RefsAddUp, NEW b \in Buffers,
           \A i \in Entries : /\ entries'[i].Buffer = b <=> entries[i].Buffer = b
                              /\ entries[i].Buffer = b => (NullAt(i)' <=> NullAt(i)),
           sound'[b].Refs = sound[b].Refs, Held(b)' <=> Held(b)
    PROVE  sound'[b].Refs = References(b)'
<1>1. InTable(b)' = InTable(b)
  BY DEF InTable, NullAt
<1>2. References(b)' = References(b)
  BY <1>1 DEF References
<1> QED
  BY <1>2 DEF RefsAddUp

(* The channel of a buffer comes or goes.                                  *)
LEMMA ChannelComes ==
    ASSUME TypeOK, TableIsOfChannels, RefsAddUp, NEW c \in Buffers, Open(c)
    PROVE  RefsAddUp'
<1>1. /\ entries' = entries /\ thread' = thread /\ channel[c].State = "Unused"
      /\ channel' = [channel EXCEPT ![c].State = "Held"]
      /\ sound' = [sound EXCEPT ![c].Refs = 1]
  BY DEF Open
<1>2. /\ channel \in [Buffers -> ChannelRecords] /\ sound \in [Buffers -> SoundRecords]
  BY TypesOf
<1>3. sound'[c].Refs = References(c)'
  <2>1. c # None
    BY FadeAssumption
  <2>2. InTable(c)' = {}
    BY <1>1, <2>1 DEF InTable, TableIsOfChannels
  <2>3. sound'[c].Refs = 1 /\ Held(c)'
    BY <1>1, <1>2 DEF Held, SoundRecords, ChannelRecords
  <2>4. References(c)' = 1
    BY <2>2, <2>3, FS_EmptySet DEF References
  <2> QED
    BY <2>3, <2>4
<1>4. ASSUME NEW b \in Buffers, b # c
      PROVE  sound'[b].Refs = References(b)'
  <2>1. sound'[b].Refs = sound[b].Refs /\ (Held(b)' <=> Held(b))
    BY <1>1, <1>2, <1>4 DEF Held
  <2>2. \A i \in Entries : NullAt(i)' <=> NullAt(i)
    BY <1>1 DEF NullAt, At
  <2> QED
    BY <1>1, <2>1, <2>2, BufferLeftAlone
<1> QED
  BY <1>3, <1>4 DEF RefsAddUp

(* The channel gives its reference back.                                   *)
LEMMA ChannelGoes ==
    ASSUME TypeOK, RefsAddUp, NEW c \in Buffers, Held(c),
           entries' = entries, thread' = thread,
           channel' = [channel EXCEPT ![c].State = "Gone"],
           sound'[c].Refs = sound[c].Refs - 1,
           \A b \in Buffers \ {c} : sound'[b].Refs = sound[b].Refs
    PROVE  RefsAddUp'
<1>1. channel \in [Buffers -> ChannelRecords]
  BY TypesOf
<1>2. sound'[c].Refs = References(c)'
  <2>1. InTable(c)' = InTable(c)
    BY DEF InTable, At
  <2>2. ~Held(c)'
    BY <1>1 DEF Held, ChannelRecords
  <2>3. Cardinality(InTable(c)) \in Nat
    BY TableIsFinite, FS_CardinalityType
  <2>4. sound[c].Refs = Cardinality(InTable(c)) + 1
    BY DEF RefsAddUp, References
  <2>5. References(c)' = Cardinality(InTable(c)) + 0
    BY <2>1, <2>2 DEF References
  <2> QED
    BY <2>3, <2>4, <2>5
<1>3. ASSUME NEW b \in Buffers, b # c
      PROVE  sound'[b].Refs = References(b)'
  <2>1. sound'[b].Refs = sound[b].Refs /\ (Held(b)' <=> Held(b))
    BY <1>1, <1>3 DEF Held
  <2>2. \A i \in Entries : NullAt(i)' <=> NullAt(i)
    BY DEF NullAt, At
  <2> QED
    BY <2>1, <2>2, BufferLeftAlone
<1> QED
  BY <1>2, <1>3 DEF RefsAddUp

(* The table takes a reference.                                            *)
LEMMA TableTakes ==
    ASSUME TypeOK, CallsHold, ThreadKnows, CallKnows, IdleIsEmpty, RefsAddUp, Take,
           entries[call.found].Status = "Idle",
           entries' = [entries EXCEPT ![call.found].Buffer = call.buffer],
           sound' = [sound EXCEPT ![call.buffer].Refs = @ + 1]
    PROVE  RefsAddUp'
<1>1. /\ call.at = "Take" /\ call.found \in Entries /\ call.buffer \in Buffers
      /\ channel' = channel /\ thread' = thread
  BY TakeCases
<1>2. /\ entries \in [Entries -> EntryRecords] /\ sound \in [Buffers -> SoundRecords]
  BY TypesOf
<1>3. PICK n \in Entries : n = call.found
  BY <1>1
<1>4. PICK c \in Buffers : c = call.buffer
  BY <1>1
<1>5. entries[n].Buffer = None /\ c # None
  BY <1>1, <1>3, FadeAssumption DEF IdleIsEmpty
<1>6. ~NullAt(n)
  BY <1>3 DEF NullAt, At, ThreadKnows
<1>7. \A i \in Entries : /\ NullAt(i)' <=> NullAt(i)
                         /\ i # n => entries'[i].Buffer = entries[i].Buffer
                         /\ i = n => entries'[i].Buffer = c
  BY <1>1, <1>2, <1>3, <1>4 DEF NullAt, At, EntryRecords
<1>8. \A b \in Buffers : Held(b)' <=> Held(b)
  BY <1>1 DEF Held
<1>9. /\ sound'[c].Refs = sound[c].Refs + 1
      /\ \A b \in Buffers : b # c => sound'[b].Refs = sound[b].Refs
  BY <1>2, <1>4 DEF SoundRecords
<1>10. sound'[c].Refs = References(c)'
  <2>1. InTable(c)' = InTable(c) \cup {n} /\ n \notin InTable(c)
    BY <1>5, <1>6, <1>7 DEF InTable, NullAt
  <2>2. /\ Cardinality(InTable(c)') = Cardinality(InTable(c)) + 1
        /\ Cardinality(InTable(c)) \in Nat
    BY <2>1, TableIsFinite, FS_AddElement, FS_CardinalityType
  <2>3. sound[c].Refs = References(c)
    BY DEF RefsAddUp
  <2> QED
    BY <1>8, <1>9, <2>2, <2>3 DEF References
<1>11. ASSUME NEW b \in Buffers, b # c
       PROVE  sound'[b].Refs = References(b)'
  <2>1. b # None
    BY FadeAssumption
  <2> QED
    BY <1>5, <1>7, <1>8, <1>9, <1>11, <2>1, BufferLeftAlone
<1> QED
  BY <1>10, <1>11 DEF RefsAddUp

(* The table gives a reference back.                                       *)
LEMMA TableGives ==
    ASSUME TypeOK, ThreadWalks, RefsAddUp, Release
    PROVE  RefsAddUp'
<1>1. /\ thread.at = "Release" /\ thread' = [thread EXCEPT !.at = "Null"]
      /\ entries' = entries /\ channel' = channel
  BY DEF Release, At, To
<1>2. /\ entries \in [Entries -> EntryRecords] /\ sound \in [Buffers -> SoundRecords]
      /\ thread.entry \in Entries
  BY TypesOf DEF ThreadWalks
<1>3. thread'.at = "Null" /\ thread'.entry = thread.entry
  BY <1>1 DEF ThreadWalks
<1>4. \A b \in Buffers : Held(b)' <=> Held(b)
  BY <1>1 DEF Held
<1>5. ASSUME NEW b \in Buffers, e.Buffer # b
      PROVE  sound'[b].Refs = References(b)'
  <2>1. \A i \in Entries : entries[i].Buffer = b => ~NullAt(i)' /\ ~NullAt(i)
    BY <1>1, <1>3, <1>5 DEF e, NullAt, At
  <2>2. sound'[b].Refs = sound[b].Refs
    BY <1>2, <1>5 DEF Release, Released
  <2> QED
    BY <1>1, <1>4, <2>1, <2>2, BufferLeftAlone
<1>6. ASSUME NEW b \in Buffers, e.Buffer = b
      PROVE  sound'[b].Refs = References(b)'
  <2>1. PICK n \in Entries : n = thread.entry
    BY <1>2
  <2>2. InTable(b)' = InTable(b) \ {n} /\ n \in InTable(b)
    BY <1>1, <1>3, <1>6, <2>1 DEF InTable, At, e
  <2>3. /\ Cardinality(InTable(b)') = Cardinality(InTable(b)) - 1
        /\ Cardinality(InTable(b)) \in Nat
    BY <2>2, TableIsFinite, FS_RemoveElement, FS_CardinalityType
  <2>4. sound'[b].Refs = sound[b].Refs - 1
    <3>1. sound' = [sound EXCEPT ![b] = Released(sound[b])]
      BY <1>6, FadeAssumption DEF Release
    <3>2. Released(sound[b]).Refs = sound[b].Refs - 1
      BY <1>2 DEF Released, SoundRecords
    <3> QED
      BY <1>2, <3>1, <3>2
  <2>5. sound[b].Refs = References(b)
    BY DEF RefsAddUp
  <2> QED
    BY <1>4, <2>3, <2>4, <2>5 DEF References
<1> QED
  BY <1>5, <1>6 DEF RefsAddUp

(* Steps that touch no reference.                                          *)
LEMMA NothingCounted ==
    ASSUME RefsAddUp,
           \A i \in Entries : /\ entries'[i].Buffer = entries[i].Buffer
                              /\ NullAt(i)' <=> NullAt(i),
           \A b \in Buffers : /\ sound'[b].Refs = sound[b].Refs
                              /\ Held(b)' <=> Held(b)
    PROVE  RefsAddUp'
<1>1. ASSUME NEW b \in Buffers
      PROVE  sound'[b].Refs = References(b)'
  BY <1>1, BufferLeftAlone
<1> QED
  BY <1>1 DEF RefsAddUp

(* The thread forgets the buffer that it has given back.                   *)
LEMMA TableForgets ==
    ASSUME TypeOK, ThreadWalks, RefsAddUp, SetNull
    PROVE  RefsAddUp'
<1>1. /\ thread.at = "Null" /\ thread' = [thread EXCEPT !.at = "SetIdle"]
      /\ entries' = [entries EXCEPT ![thread.entry].Buffer = None]
      /\ sound' = sound /\ channel' = channel
  BY DEF SetNull, At, To
<1>2. /\ entries \in [Entries -> EntryRecords] /\ thread.entry \in Entries
  BY TypesOf DEF ThreadWalks
<1>3. PICK n \in Entries : n = thread.entry
  BY <1>2
<1>4. /\ thread'.at = "SetIdle"
      /\ entries'[n].Buffer = None
      /\ \A i \in Entries : i # n => entries'[i].Buffer = entries[i].Buffer
  BY <1>1, <1>2, <1>3 DEF ThreadWalks, EntryRecords
<1>5. ASSUME NEW b \in Buffers
      PROVE  sound'[b].Refs = References(b)'
  <2>1. b # None
    BY FadeAssumption
  <2>2. InTable(b)' = InTable(b)
    BY <1>1, <1>3, <1>4, <2>1 DEF InTable, At
  <2>3. References(b)' = References(b)
    BY <1>1, <2>2 DEF References, Held
  <2> QED
    BY <1>1, <2>3 DEF RefsAddUp
<1> QED
  BY <1>5 DEF RefsAddUp

(* Every step that counts a reference adds or removes one.                 *)
LEMMA RefsAddUpStep ==
    ASSUME IInv, Next
    PROVE  RefsAddUp'
<1>1. /\ TypeOK /\ CallsHold /\ ThreadWalks /\ ThreadKnows /\ CallKnows /\ IdleIsEmpty
      /\ TableIsOfChannels /\ RefsAddUp
  BY DEF IInv
<1>2. /\ entries \in [Entries -> EntryRecords] /\ sound \in [Buffers -> SoundRecords]
      /\ channel \in [Buffers -> ChannelRecords] /\ thread.entry \in Entries
  BY <1>1, TypesOf DEF ThreadWalks
<1>3. ASSUME NEW c \in Buffers, GiveBack(c), Held(c), UNCHANGED <<entries, thread>>
      PROVE  RefsAddUp'
  <2>1. sound'[c].Refs = sound[c].Refs - 1
    BY <1>2, <1>3 DEF GiveBack, Released, SoundRecords
  <2>2. \A b \in Buffers \ {c} : sound'[b].Refs = sound[b].Refs
    BY <1>2, <1>3 DEF GiveBack
  <2>3. channel' = [channel EXCEPT ![c].State = "Gone"]
    BY <1>3 DEF GiveBack
  <2> QED
    BY <1>1, <1>3, <2>1, <2>2, <2>3, ChannelGoes
<1>4. ASSUME UNCHANGED <<entries, thread>>,
             \A b \in Buffers : /\ sound'[b].Refs = sound[b].Refs
                                /\ channel'[b].State = channel[b].State
      PROVE  RefsAddUp'
  <2>1. \A i \in Entries : NullAt(i)' <=> NullAt(i)
    BY <1>4 DEF NullAt, At
  <2> QED
    BY <1>1, <1>4, <2>1, NothingCounted DEF Held
<1>5. ASSUME NEW c \in Buffers, Channels(c)
      PROVE  RefsAddUp'
  <2>1. CASE Open(c)
    BY <1>1, <2>1, ChannelComes
  <2>2. CASE Play(c)
    BY <1>2, <1>4, <2>2 DEF Play, SoundRecords
  <2>3. CASE SoundEnds(c)
    BY <1>2, <1>4, <2>3 DEF SoundEnds, SoundRecords
  <2>5. CASE ResumeAtStart(c)
    BY <1>2, <1>4, <2>5 DEF ResumeAtStart, SoundRecords, ChannelRecords
  <2>4. CASE ServiceChannel(c)
    <3>1. UNCHANGED <<entries, thread>> /\ Held(c)
      BY <2>4 DEF ServiceChannel, Free
    <3>2. CASE GiveBack(c)
      BY <1>3, <3>1, <3>2
    <3>3. CASE /\ channel' = [channel EXCEPT ![c].Playing = sound[c].Playing]
               /\ sound' = sound
      BY <1>2, <1>4, <3>1, <3>3 DEF ChannelRecords
    <3> QED
      BY <2>4, <3>2, <3>3 DEF ServiceChannel
  <2> QED
    BY <1>5, <2>1, <2>2, <2>3, <2>4, <2>5 DEF Channels
<1>6. ASSUME NEW c \in Buffers, Fades(c)
      PROVE  RefsAddUp'
  <2>1. CASE Stop(c)
    <3>1. UNCHANGED <<entries, thread>> /\ Held(c)
      BY <2>1 DEF Stop, Free
    <3>2. CASE GiveBack(c)
      BY <1>3, <3>1, <3>2
    <3> QED
      BY <1>4, <2>1, <3>1, <3>2 DEF Stop
  <2>2. CASE Pause(c)
    <3>1. CASE channel' = channel
      BY <1>4, <2>2, <3>1 DEF Pause
    <3>2. CASE channel' = [channel EXCEPT ![c].Paused = TRUE]
      BY <1>2, <1>4, <2>2, <3>2 DEF Pause, ChannelRecords
    <3> QED
      BY <2>2, <3>1, <3>2 DEF Pause
  <2>3. CASE Resume(c) \/ PlayAgain(c)
    <3>1. FadeIn(c)
      BY <2>3 DEF Resume, PlayAgain
    <3> QED
      BY <1>2, <1>4, <3>1 DEF FadeIn, SoundRecords
  <2>4. ASSUME NEW volume, SetVolume(c, volume)
        PROVE  RefsAddUp'
    BY <1>4, <2>4 DEF SetVolume
  <2> QED
    BY <1>6, <2>1, <2>2, <2>3, <2>4 DEF Fades
<1>7. CASE Request
  BY <1>2, <1>4, <1>7 DEF Request, SoundRecords
<1>8. CASE Scan
  BY <1>4, <1>8 DEF Scan
<1>9. CASE Take
  <2>1. CASE entries' = entries /\ sound' = sound
    BY <1>1, <1>4, <1>9, <2>1, TakeCases
  <2> QED
    BY <1>1, <1>9, <2>1, TakeCases, TableTakes
<1>10. CASE Fill \/ Activate \/ SetCancelled
  <2>1. thread' = thread /\ channel' = channel /\ sound' = sound
    BY <1>10 DEF Fill, Activate, SetCancelled
  <2>2. \A i \in Entries : entries'[i].Buffer = entries[i].Buffer
    BY <1>2, <1>10 DEF Fill, Activate, SetCancelled, EntryRecords
  <2>3. \A i \in Entries : NullAt(i)' <=> NullAt(i)
    BY <2>1 DEF NullAt, At
  <2> QED
    BY <1>1, <2>1, <2>2, <2>3, NothingCounted DEF Held
<1>11. CASE AfterFade
  <2>1. PICK c \in Buffers : c = call.buffer
    BY <1>1, <1>11 DEF AfterFade, CallsHold
  <2>2. UNCHANGED <<entries, thread>> /\ Held(c)
    BY <1>1, <1>11, <2>1 DEF AfterFade, CallsHold
  <2>3. PICK stopped \in [Buffers -> SoundRecords] :
           /\ stopped = [sound EXCEPT ![c].Playing = @ /\ ~(call.at = "Refused")]
           /\ \A b \in Buffers : stopped[b].Refs = sound[b].Refs
    <3>1. [sound[c] EXCEPT !.Playing = @ /\ ~(call.at = "Refused")] \in SoundRecords
      BY <1>2, <2>1, SoundChanges
    <3>2. [sound EXCEPT ![c] = [sound[c] EXCEPT !.Playing = @ /\ ~(call.at = "Refused")]]
            \in [Buffers -> SoundRecords]
      BY <1>2, <3>1
    <3>3. [sound[c] EXCEPT !.Playing = @ /\ ~(call.at = "Refused")].Refs = sound[c].Refs
      BY <1>2 DEF SoundRecords
    <3> QED
      BY <1>2, <3>2, <3>3
  <2>4. CASE call.then = "Stop"
    <3>1. sound' = [stopped EXCEPT ![c] = Released(stopped[c])]
      BY <1>11, <2>1, <2>3, <2>4 DEF AfterFade
    <3>2. Released(stopped[c]).Refs = stopped[c].Refs - 1
      BY <2>3 DEF Released, SoundRecords
    <3>3. channel' = [channel EXCEPT ![c].State = "Gone"]
      BY <1>11, <2>1, <2>4 DEF AfterFade
    <3>4. /\ sound'[c].Refs = sound[c].Refs - 1
          /\ \A b \in Buffers \ {c} : sound'[b].Refs = sound[b].Refs
      BY <2>3, <3>1, <3>2
    <3> QED
      BY <1>1, <2>2, <3>3, <3>4, ChannelGoes
  <2>5. CASE call.then = "Pause"
    <3>1. sound' = stopped /\ channel' = [channel EXCEPT ![c].Paused = TRUE]
      BY <1>11, <2>1, <2>3, <2>5 DEF AfterFade
    <3> QED
      BY <1>2, <1>4, <2>2, <2>3, <3>1 DEF ChannelRecords
  <2>6. CASE call.then = "Resume"
    <3>1. PICK v : sound' = [sound EXCEPT ![c].Volume = v]
      BY <1>11, <2>1, <2>6 DEF AfterFade
    <3>2. channel' = [channel EXCEPT ![c].Paused = FALSE]
      BY <1>11, <2>1, <2>6 DEF AfterFade
    <3>3. \A b \in Buffers : sound'[b].Refs = sound[b].Refs
      BY <1>2, <3>1 DEF SoundRecords
    <3>4. \A b \in Buffers : channel'[b].State = channel[b].State
      BY <1>2, <3>2 DEF ChannelRecords
    <3> QED
      BY <1>4, <2>2, <3>3, <3>4
  <2>7. CASE call.then = "Volume"
    <3>1. sound' = sound
      BY <1>11, <2>7 DEF AfterFade
    <3>2. CASE channel' = channel
      BY <1>4, <2>2, <3>1, <3>2
    <3>3. CASE channel' = [channel EXCEPT ![c].Volume = call.target]
      BY <1>2, <1>4, <2>2, <3>1, <3>3 DEF ChannelRecords
    <3> QED
      BY <1>11, <2>1, <2>7, <3>2, <3>3 DEF AfterFade
  <2> QED
    BY <1>11, <2>4, <2>5, <2>6, <2>7 DEF AfterFade
<1>12. CASE SetBufferVolume
  <2>1. UNCHANGED <<entries, thread, sound>>
    BY <1>12 DEF SetBufferVolume
  <2>2. CASE channel' = channel
    BY <1>4, <2>1, <2>2
  <2>3. CASE channel' = [channel EXCEPT ![call.buffer].Volume = call.target]
    BY <1>2, <1>4, <2>1, <2>3 DEF ChannelRecords
  <2> QED
    BY <1>12, <2>2, <2>3 DEF SetBufferVolume
<1>13. CASE WriteVolume
  <2>1. UNCHANGED <<entries, thread>>
    BY <1>13 DEF WriteVolume
  <2>2. \A b \in Buffers : sound'[b].Refs = sound[b].Refs
    BY <1>2, <1>13 DEF WriteVolume, SoundRecords
  <2>3. \A b \in Buffers : channel'[b].State = channel[b].State
    BY <1>2, <1>13 DEF WriteVolume, ChannelRecords
  <2> QED
    BY <1>4, <2>1, <2>2, <2>3
<1>14. ASSUME NEW over \in BOOLEAN, FadeThread(over)
       PROVE  RefsAddUp'
  <2>1. \A b \in Buffers : Held(b)' <=> Held(b)
    BY <1>14, ThreadStepsLeave DEF Held
  <2>2. ASSUME thread.at # "Null", thread'.at # "Null",
               \A i \in Entries : entries'[i].Buffer = entries[i].Buffer,
               \A b \in Buffers : sound'[b].Refs = sound[b].Refs
        PROVE  RefsAddUp'
    BY <1>1, <2>1, <2>2, NothingCounted DEF NullAt, At
  <2>3. CASE Visit(over)
    BY <1>1, <2>2, <2>3 DEF Visit, At, To, NextEntry, ThreadWalks
  <2>4. CASE StepFade
    <3>1. thread.at = "Step" /\ thread'.at = "Visit"
      BY <2>4 DEF StepFade, At, NextEntry
    <3>2. \A i \in Entries : entries'[i].Buffer = entries[i].Buffer
      BY <1>2, <2>4 DEF StepFade, EntryRecords
    <3>3. \A b \in Buffers : sound'[b].Refs = sound[b].Refs
      BY <1>2, <2>4 DEF StepFade, SoundRecords
    <3> QED
      BY <2>2, <3>1, <3>2, <3>3
  <2>5. CASE Settle
    <3>1. thread.at = "Settle" /\ thread'.at \in {"Stop", "Release"} /\ entries' = entries
      BY <1>1, <2>5 DEF Settle, At, To, ThreadWalks
    <3>2. \A b \in Buffers : sound'[b].Refs = sound[b].Refs
      BY <1>2, <2>5 DEF Settle, SoundRecords
    <3> QED
      BY <2>2, <3>1, <3>2
  <2>6. CASE StopBuffer
    <3>1. thread.at = "Stop" /\ thread'.at = "Release" /\ entries' = entries
      BY <1>1, <2>6 DEF StopBuffer, At, To, ThreadWalks
    <3>2. \A b \in Buffers : sound'[b].Refs = sound[b].Refs
      BY <1>2, <2>6 DEF StopBuffer, SoundRecords
    <3> QED
      BY <2>2, <3>1, <3>2
  <2>7. CASE Release
    BY <1>1, <2>7, TableGives
  <2>8. CASE SetNull
    BY <1>1, <2>8, TableForgets
  <2>9. CASE SetIdle
    <3>1. thread.at = "SetIdle" /\ thread'.at = "Visit" /\ sound' = sound
      BY <2>9 DEF SetIdle, At, NextEntry
    <3>2. \A i \in Entries : entries'[i].Buffer = entries[i].Buffer
      BY <1>2, <2>9 DEF SetIdle, EntryRecords
    <3> QED
      BY <2>2, <3>1, <3>2
  <2> QED
    BY <1>14, <2>3, <2>4, <2>5, <2>6, <2>7, <2>8, <2>9 DEF FadeThread
<1> QED
  BY <1>5, <1>6, <1>7, <1>8, <1>9, <1>10, <1>11, <1>12, <1>13, <1>14 DEF Next, Calls

(* No channel is forgotten that has been there.                            *)
LEMMA ChannelsStayUsed ==
    ASSUME IInv, Next, NEW b \in Buffers, channel[b].State # "Unused"
    PROVE  channel'[b].State # "Unused"
<1>1. channel \in [Buffers -> ChannelRecords] /\ TypeOK /\ CallsHold
  BY TypesOf DEF IInv
<1>2. ASSUME NEW c \in Buffers,
             \/ channel' = channel
             \/ channel' = [channel EXCEPT ![c].State = "Held"]
             \/ channel' = [channel EXCEPT ![c].State = "Gone"]
             \/ \E x : channel' = [channel EXCEPT ![c].Playing = x]
             \/ \E x : channel' = [channel EXCEPT ![c].Paused = x]
             \/ \E x : channel' = [channel EXCEPT ![c].Volume = x]
      PROVE  channel'[b].State # "Unused"
  BY <1>1, <1>2 DEF ChannelRecords
<1>3. ASSUME NEW c \in Buffers, Channels(c)
      PROVE  channel'[b].State # "Unused"
  BY <1>2, <1>3 DEF Channels, Open, Play, ResumeAtStart, SoundEnds, ServiceChannel, GiveBack
<1>4. ASSUME NEW c \in Buffers, Fades(c)
      PROVE  channel'[b].State # "Unused"
  BY <1>2, <1>4 DEF Fades, Stop, Pause, Resume, PlayAgain, FadeIn, SetVolume, GiveBack
<1>5. CASE Request \/ Scan \/ Take \/ Fill \/ Activate \/ SetCancelled
  BY <1>5 DEF Request, Scan, Take, Fill, Activate, SetCancelled
<1>6. CASE AfterFade
  <2>1. PICK c \in Buffers : c = call.buffer
    BY <1>1, <1>6 DEF AfterFade, CallsHold
  <2> QED
    BY <1>2, <1>6, <2>1 DEF AfterFade
<1>7. CASE SetBufferVolume \/ WriteVolume
  <2>1. PICK c \in Buffers : c = call.buffer
    BY <1>1, <1>7 DEF SetBufferVolume, WriteVolume, CallsHold
  <2> QED
    BY <1>2, <1>7, <2>1 DEF SetBufferVolume, WriteVolume
<1> QED
  BY <1>3, <1>4, <1>5, <1>6, <1>7, ThreadStepsLeave DEF Next, Calls

(* What Take enters in the table belongs to the channel of the call.       *)
LEMMA TableIsOfChannelsStep ==
    ASSUME IInv, Next
    PROVE  TableIsOfChannels'
<1>1. /\ entries \in [Entries -> EntryRecords] /\ entries' \in [Entries -> EntryRecords]
      /\ thread.entry \in Entries /\ TableIsOfChannels
  BY TypesOf, EntriesStep DEF IInv, ThreadWalks
<1>2. ASSUME NEW i \in Entries, entries'[i].Buffer # None
      PROVE  \/ entries'[i].Buffer = entries[i].Buffer
             \/ entries'[i].Buffer = call.buffer /\ Held(call.buffer)
  <2>1. CASE Take
    <3>1. Held(call.buffer)
      BY <2>1 DEF IInv, Take, CallsHold
    <3> QED
      BY <1>1, <2>1, <3>1, TakeCases DEF IInv, EntryRecords
  <2>2. CASE Fill \/ Activate \/ SetCancelled
    BY <1>1, <2>2 DEF Fill, Activate, SetCancelled, EntryRecords
  <2>3. CASE entries' = entries
    BY <2>3
  <2>4. CASE StepFade \/ SetNull
    BY <1>2, <2>4, ThreadWrites DEF IInv
  <2>5. CASE SetIdle
    BY <1>1, <2>5 DEF SetIdle, EntryRecords
  <2> QED
    BY <2>1, <2>2, <2>3, <2>4, <2>5, StepsElsewhere
       DEF FadeThread, Visit, Settle, StopBuffer, Release
<1>3. ASSUME NEW i \in Entries, entries'[i].Buffer # None
      PROVE  channel'[entries'[i].Buffer].State # "Unused"
  <2>1. entries'[i].Buffer \in Buffers
    BY <1>1, <1>3 DEF EntryRecords
  <2>2. channel[entries'[i].Buffer].State # "Unused"
    BY <1>1, <1>2, <1>3 DEF TableIsOfChannels, Held
  <2> QED
    BY <2>1, <2>2, ChannelsStayUsed
<1> QED
  BY <1>3 DEF TableIsOfChannels

(* The types, with counts that are not negative.                           *)
LEMMA TypeOKStep ==
    ASSUME IInv, Next
    PROVE  TypeOK'
<1>1. /\ entries' \in [Entries -> EntryRecords] /\ sound' \in [Buffers -> SoundRecords]
      /\ channel' \in [Buffers -> ChannelRecords]
  BY EntriesStep, SoundStep, ChannelStep DEF IInv
<1>2. \A b \in Buffers : sound'[b].Refs \in Nat
  BY RefsAddUpStep, TableStaysFinite DEF RefsAddUp
<1>3. ASSUME NEW b \in Buffers
      PROVE  sound'[b] \in [Refs : Nat, Playing : BOOLEAN, Volume : Volumes]
  <2>1. sound'[b] \in SoundRecords /\ sound'[b].Refs \in Nat
    BY <1>1, <1>2
  <2> QED
    BY <2>1 DEF SoundRecords
<1>4. sound' \in [Buffers -> [Refs : Nat, Playing : BOOLEAN, Volume : Volumes]]
  BY <1>1, <1>3
<1>5. thread'.entry \in Entries
  BY ThreadWalksStep DEF IInv, ThreadWalks
<1>6. calls \in 0..MaxCalls /\ MaxCalls \in Nat
  BY FadeAssumption DEF IInv, TypeOK
<1>7. calls' = calls \/ (calls < MaxCalls /\ calls' = calls + 1)
  BY DEF Next, Channels, Calls, FadeThread, Fades,
         Stop, Pause, Resume, PlayAgain, FadeIn, SetVolume, Start
<1>8. calls' \in 0..MaxCalls
  BY <1>6, <1>7
<1> QED
  BY <1>1, <1>4, <1>5, <1>8 DEF TypeOK, EntryRecords, ChannelRecords

-----------------------------------------------------------------------------
(***************************************************************************)
(* The theorem.                                                            *)
(***************************************************************************)
(* It holds at the start.                                                  *)
LEMMA IInvInit == Init => IInv
<1> SUFFICES ASSUME Init PROVE IInv
  OBVIOUS
<1>1. 1 \in Entries /\ 0 \in 0..MaxCalls
  BY FadeAssumption DEF Entries
<1>2. NoEntry \in EntryRecords /\ NoEntry.Buffer = None
  BY DEF NoEntry, EntryRecords, Volumes
<1>3. entries \in [Entries -> EntryRecords] /\ \A i \in Entries : entries[i].Buffer = None
  BY <1>2 DEF Init
<1>4. /\ sound \in [Buffers -> [Refs : Nat, Playing : BOOLEAN, Volume : Volumes]]
      /\ \A b \in Buffers : sound[b].Refs = 0
  BY DEF Init, Volumes
<1>5. /\ channel \in [Buffers -> ChannelRecords]
      /\ \A b \in Buffers : channel[b].State = "Unused"
  BY DEF Init, ChannelRecords
<1>6. TypeOK
  BY <1>1, <1>3, <1>4, <1>5 DEF Init, TypeOK, EntryRecords, ChannelRecords
<1>7. CallsHold /\ CallKnows
  BY NoCallIsACall DEF Init, CallsHold, CallKnows
<1>8. ThreadWalks /\ ThreadKnows
  BY <1>1 DEF Init, ThreadWalks, ThreadKnows, ThreadPlaces
<1>9. IdleIsEmpty /\ TableIsOfChannels
  BY <1>3 DEF IdleIsEmpty, TableIsOfChannels
<1>10. ASSUME NEW b \in Buffers
       PROVE  sound[b].Refs = References(b)
  <2>1. InTable(b) = {}
    BY <1>3, FadeAssumption DEF InTable
  <2>2. ~Held(b)
    BY <1>5 DEF Held
  <2> QED
    BY <1>4, <2>1, <2>2, FS_EmptySet DEF References
<1> QED
  BY <1>6, <1>7, <1>8, <1>9, <1>10 DEF IInv, RefsAddUp

(* The invariant is inductive.                                             *)
LEMMA IInvStep == IInv /\ [Next]_vars => IInv'
<1> SUFFICES ASSUME IInv, [Next]_vars PROVE IInv'
  OBVIOUS
<1>1. CASE Next
  BY <1>1, TypeOKStep, CallsHoldStep, ThreadWalksStep, ThreadKnowsStep, CallKnowsStep,
     IdleIsEmptyStep, TableIsOfChannelsStep, RefsAddUpStep DEF IInv
<1>2. CASE UNCHANGED vars
  <2>1. TypeOK' /\ CallsHold' /\ ThreadWalks'
    BY <1>2 DEF IInv, vars, TypeOK, CallsHold, Held, ThreadWalks
  <2>2. ThreadKnows' /\ CallKnows' /\ IdleIsEmpty' /\ TableIsOfChannels'
    BY <1>2 DEF IInv, vars, ThreadKnows, CallKnows, IdleIsEmpty, TableIsOfChannels
  <2>3. RefsAddUp'
    BY <1>2 DEF IInv, vars, RefsAddUp, References, InTable, Held, At
  <2> QED
    BY <2>1, <2>2, <2>3 DEF IInv
<1> QED
  BY <1>1, <1>2

(* The references of the table add up, whatever the main thread and the    *)
(* fade thread do to one entry at the same time (AESmoothFadeThread.cpp:77,*)
(* :113, :182).                                                            *)
THEOREM TableSound == Spec => []TableIsSound
<1>1. IInv => TableIsSound
  <2> SUFFICES ASSUME IInv PROVE TableIsSound
    OBVIOUS
  <2>1. ASSUME NEW b \in Buffers
        PROVE  sound[b].Refs >= References(b) /\ sound[b].Refs <= References(b)
    BY TableIsFinite DEF IInv, RefsAddUp
  <2> QED
    BY <2>1 DEF IInv, TableIsSound, TableHoldsLiveBuffers, NothingLeaks
<1> QED
  BY IInvInit, IInvStep, <1>1, PTL DEF Spec
=============================================================================
