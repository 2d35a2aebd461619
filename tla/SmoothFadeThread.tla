-------------------------- MODULE SmoothFadeThread --------------------------
(***************************************************************************)
(* Fades of sounds: a table that the main thread fills and the fade thread *)
(* works off, without a lock (AESmoothFadeThread.cpp), and the channels    *)
(* that use it (AEAudioChannel.cpp, AEStaticChannel.cpp).  The streaming   *)
(* channel, called from the main thread and from one of its own, is left   *)
(* out.                                                                    *)
(*                                                                         *)
(* One action is one access to the status of an entry, with the accesses   *)
(* to its buffer and parameters and to sound buffers that go before it; of *)
(* SetBufferVolume the search is one.  A sound buffer lives as long as     *)
(* somebody has a reference to it.  Volumes are silent, full or half way;  *)
(* time is a choice, a fade has had its time or not.                       *)
(* g_numSoundChannelsUsed is left out: nothing reads it.                   *)
(***************************************************************************)
EXTENDS Integers, FiniteSets

CONSTANTS
    Buffers,            \* sound buffers, each with a channel, used once
    NumEntries,         \* m_nNumAvailableBuffers
    MaxCalls,           \* bound on the calls that use the table
    None                \* a null pointer

ASSUME FadeAssumption ==
    /\ NumEntries \in Nat \ {0}
    /\ MaxCalls \in Nat
    /\ None \notin Buffers

Entries == 1..NumEntries
Volumes == {"silent", "half", "full"}

VARIABLES
    entries,            \* m_aEntries
    sound,              \* the sound buffers: references, playing, volume
    channel,            \* the channels: their reference, m_Volume, m_bPaused,
                        \* m_nBufferStatus as of the last UpdateStatus
    call,               \* where the caller is, and in which call
    thread,             \* where the fade thread is, and at which entry
    calls               \* how many calls there were

vars == <<entries, sound, channel, call, thread, calls>>

NoEntry == [Status |-> "Idle", Buffer |-> None, Stop |-> FALSE,
            Target |-> "silent", Current |-> "silent"]
NoCall == [at |-> "Idle", buffer |-> None, target |-> "silent", stop |-> FALSE,
           current |-> "silent", next |-> 1, found |-> 0, then |-> "Idle"]

Init ==
    /\ entries = [i \in Entries |-> NoEntry]
    /\ sound = [b \in Buffers |-> [Refs |-> 0, Playing |-> FALSE, Volume |-> "full"]]
    /\ channel = [b \in Buffers |-> [State |-> "Unused", Volume |-> "full",
                                     Paused |-> FALSE, Playing |-> FALSE]]
    /\ call = NoCall
    /\ thread = [at |-> "Visit", entry |-> 1]
    /\ calls = 0

Held(b) == channel[b].State = "Held"
Free(b) == Held(b) /\ call.at = "Idle"

(* The last Release destroys a buffer, and a buffer that is gone is silent. *)
Released(s) == [s EXCEPT !.Refs = @ - 1, !.Playing = @ /\ s.Refs > 1]

Start(request) ==
    /\ calls < MaxCalls /\ calls' = calls + 1
    /\ call' = request
Goto(place) == call' = [call EXCEPT !.at = place]
Done == call' = NoCall
Answer(place) ==
    call' = [call EXCEPT !.at = place, !.stop = FALSE, !.current = "silent",
                         !.next = 1, !.found = 0]

Fade(b, target, stop, then) ==
    [NoCall EXCEPT !.at = "Request", !.buffer = b, !.target = target,
                   !.stop = stop, !.then = then]

-----------------------------------------------------------------------------
(***************************************************************************)
(* The channels.                                                           *)
(***************************************************************************)
(* SetAudioBuffer and Play: the channel gets a buffer (external).          *)
Open(b) ==
    /\ channel[b].State = "Unused" /\ call.at = "Idle"
    /\ channel' = [channel EXCEPT ![b].State = "Held"]
    /\ sound' = [sound EXCEPT ![b].Refs = 1]
    /\ UNCHANGED <<entries, call, thread>>

(* SynchPlayback; its RequestFade comes before Play and refuses, unless    *)
(* the buffer plays already (PlayAgain).                                   *)
Play(b) ==
    /\ Free(b) /\ ~channel[b].Paused /\ ~sound[b].Playing
    /\ sound' = [sound EXCEPT ![b].Volume = channel[b].Volume, ![b].Playing = TRUE]
    /\ UNCHANGED <<entries, channel, call, thread>>

(* The end of a sound, found by the device; a looped one has none.           *)
SoundEnds(b) ==
    /\ sound[b].Playing
    /\ sound' = [sound EXCEPT ![b].Playing = FALSE]
    /\ UNCHANGED <<entries, channel, call, thread>>

(* The reference of the channel is given back.                             *)
GiveBack(b) ==
    /\ sound' = [sound EXCEPT ![b] = Released(@)]
    /\ channel' = [channel EXCEPT ![b].State = "Gone"]

(* CAEStaticChannel::Service: UpdateStatus, and a sound that has ended is  *)
(* let go.                                                                 *)
ServiceChannel(b) ==
    /\ Free(b)
    /\ IF ~channel[b].Paused /\ ~sound[b].Playing
       THEN GiveBack(b)
       ELSE /\ channel' = [channel EXCEPT ![b].Playing = sound[b].Playing]
            /\ UNCHANGED sound
    /\ UNCHANGED <<entries, call, thread>>

(* CAEStaticChannel::Stop fades the sound out, or stops it at once.        *)
Stop(b) ==
    /\ Free(b)
    /\ IF channel[b].Playing
       THEN /\ Start(Fade(b, "silent", TRUE, "Stop"))
            /\ UNCHANGED <<sound, channel>>
       ELSE GiveBack(b) /\ UNCHANGED <<call, calls>>
    /\ UNCHANGED <<entries, thread>>

(* SetFrequencyScalingFactor(0), and another factor after it.              *)
Pause(b) ==
    /\ Free(b)
    /\ ~channel[b].Paused
    /\ IF channel[b].Playing
       THEN /\ Start(Fade(b, "silent", TRUE, "Pause"))
            /\ UNCHANGED channel
       ELSE channel' = [channel EXCEPT ![b].Paused = TRUE] /\ UNCHANGED <<call, calls>>
    /\ UNCHANGED <<entries, sound, thread>>

FadeIn(b) ==
    /\ sound' = [sound EXCEPT ![b].Volume = "silent", ![b].Playing = TRUE]
    /\ Start(Fade(b, channel[b].Volume, FALSE, "Resume"))
    /\ UNCHANGED <<entries, channel, thread>>

Resume(b) == Free(b) /\ channel[b].Paused /\ FadeIn(b)

(* A sound that is at its beginning goes on without a fade.                *)
ResumeAtStart(b) ==
    /\ Free(b) /\ channel[b].Paused
    /\ sound' = [sound EXCEPT ![b].Playing = TRUE]
    /\ channel' = [channel EXCEPT ![b].Paused = FALSE]
    /\ UNCHANGED <<entries, call, thread>>

(* SynchPlayback of a sound that Play left paused and Resume has started.  *)
PlayAgain(b) ==
    /\ Free(b) /\ ~channel[b].Paused /\ sound[b].Playing
    /\ FadeIn(b)

(* SetVolume: a step of more than 60 dB is faded.                          *)
SetVolume(b, volume) ==
    /\ Free(b)
    /\ Start(IF channel[b].Playing /\ volume # channel[b].Volume
                     THEN Fade(b, volume, FALSE, "Volume")
                     ELSE [Fade(b, volume, FALSE, "Volume") EXCEPT !.at = "SetVolume"])
    /\ UNCHANGED <<entries, sound, channel, thread>>

-----------------------------------------------------------------------------
(***************************************************************************)
(* RequestFade, from entry to entry of the table.  It returns TRUE when    *)
(* the fade is in the table, or is needless.                               *)
(***************************************************************************)
Accept == Answer("Accepted")
Refuse == Answer("Refused")

Request ==
    LET r == call  b == r.buffer
    IN /\ r.at = "Request"
       /\ IF ~sound[b].Playing
          THEN Refuse /\ UNCHANGED sound
          ELSE IF sound[b].Volume = r.target
          THEN /\ Accept
               /\ sound' = [sound EXCEPT ![b].Playing = ~r.stop]
          ELSE /\ call' = [call EXCEPT !.at = "Scan", !.current = sound[b].Volume]
               /\ UNCHANGED sound
       /\ UNCHANGED <<entries, channel, thread>>

(* One round of the loop.  A fade of this buffer is taken over, else the   *)
(* first idle entry is used.  fadeTime + start - current <= 1 is unsigned: *)
(* with the -1 and -2 of the static channels it is never true.             *)
Matches(i) == entries[i].Status = "Active" /\ entries[i].Buffer = call.buffer

Scan ==
    LET r == call  i == r.next
    IN /\ r.at = "Scan"
       /\ \/ /\ i > NumEntries
             /\ IF r.found = 0 THEN Refuse ELSE Goto("Take")
          \/ /\ i <= NumEntries /\ Matches(i)
             /\ call' = [call EXCEPT !.found = i, !.at = "Take"]
          \/ /\ i <= NumEntries
             /\ ~Matches(i)
             /\ call' = [call EXCEPT !.next = i + 1,
                                     !.found = IF @ = 0 /\ entries[i].Status = "Idle"
                                               THEN i ELSE @]
       /\ UNCHANGED <<entries, sound, channel, thread>>

\* Mutant: the table has no reference of its own.
Take_Borrows ==
    LET r == call  i == r.found
    IN /\ r.at = "Take"
       /\ IF entries[i].Status = "Active"
          THEN /\ IF entries[i].Stop THEN Accept ELSE Goto("Fill")
               /\ UNCHANGED entries
          ELSE /\ entries' = [entries EXCEPT ![i].Buffer = r.buffer]
               /\ Goto("Fill")
       /\ UNCHANGED <<sound, channel, thread>>

\* Mutant: a fade that is taken over gets another reference.
Take_AlwaysAdds ==
    LET r == call  i == r.found  b == r.buffer
    IN /\ r.at = "Take"
       /\ IF entries[i].Status = "Active" /\ entries[i].Stop
          THEN Accept /\ UNCHANGED <<entries, sound>>
          ELSE /\ sound' = [sound EXCEPT ![b].Refs = @ + 1]
               /\ entries' = [entries EXCEPT ![i].Buffer = b]
               /\ Goto("Fill")
       /\ UNCHANGED <<channel, thread>>

(* The entry is looked at once more.                                       *)
Take ==
    LET r == call  i == r.found  b == r.buffer
    IN /\ r.at = "Take"
       /\ IF entries[i].Status = "Active"
          THEN /\ IF entries[i].Stop THEN Accept ELSE Goto("Fill")
               /\ UNCHANGED <<entries, sound>>
          ELSE /\ sound' = [sound EXCEPT ![b].Refs = @ + 1]
               /\ entries' = [entries EXCEPT ![i].Buffer = b]
                /\ Goto("Fill")
       /\ UNCHANGED <<channel, thread>>

Fill ==
    LET r == call
    IN /\ r.at = "Fill"
       /\ entries' = [entries EXCEPT ![r.found].Target = r.target,
                                     ![r.found].Current = r.current,
                                     ![r.found].Stop = r.stop]
       /\ Goto("Activate")
       /\ UNCHANGED <<sound, channel, thread>>

Activate ==
    /\ call.at = "Activate"
    /\ entries' = [entries EXCEPT ![call.found].Status = "Active"]
    /\ Accept
    /\ UNCHANGED <<sound, channel, thread>>

(* What the caller does with the answer.                                    *)
AfterFade ==
    LET r == call  b == r.buffer  refused == r.at = "Refused"
        stopped == [sound EXCEPT ![b].Playing = @ /\ ~refused]
    IN /\ r.at \in {"Accepted", "Refused"}
       /\ \/ /\ r.then = "Stop"
             /\ sound' = [stopped EXCEPT ![b] = Released(@)]
             /\ channel' = [channel EXCEPT ![b].State = "Gone"]
             /\ Done
          \/ /\ r.then = "Pause"
             /\ sound' = stopped
             /\ channel' = [channel EXCEPT ![b].Paused = TRUE]
             /\ Done
          \/ /\ r.then = "Resume"
             /\ sound' = [sound EXCEPT ![b].Volume = IF refused THEN r.target ELSE @]
             /\ channel' = [channel EXCEPT ![b].Paused = FALSE]
             /\ Done
          \/ /\ r.then = "Volume"
             /\ UNCHANGED sound
             /\ IF refused
                THEN Goto("SetVolume") /\ UNCHANGED channel
                ELSE Done /\ channel' = [channel EXCEPT ![b].Volume = r.target]
       /\ UNCHANGED <<entries, thread>>

(* SetBufferVolume: a fade to another volume is cancelled, one that ends   *)
(* the sound is not.                                                       *)
SetBufferVolume ==
    LET r == call
        fades == {i \in Entries : Matches(i)}
        first == CHOOSE i \in fades : \A j \in fades : i <= j
    IN /\ r.at = "SetVolume"
       /\ IF fades = {}
          THEN Goto("Write") /\ UNCHANGED channel
          ELSE IF entries[first].Stop \/ entries[first].Target = r.target
          THEN Done /\ channel' = [channel EXCEPT ![r.buffer].Volume = r.target]
          ELSE /\ call' = [call EXCEPT !.found = first, !.at = "Cancelled"]
               /\ UNCHANGED channel
       /\ UNCHANGED <<entries, sound, thread>>

SetCancelled ==
    /\ call.at = "Cancelled"
    /\ entries' = [entries EXCEPT ![call.found].Status = "Cancelled"]
    /\ Goto("Write")
    /\ UNCHANGED <<sound, channel, thread>>

WriteVolume ==
    LET r == call
    IN /\ r.at = "Write"
       /\ sound' = [sound EXCEPT ![r.buffer].Volume = r.target]
       /\ channel' = [channel EXCEPT ![r.buffer].Volume = r.target]
       /\ Done
       /\ UNCHANGED <<entries, thread>>

-----------------------------------------------------------------------------
(***************************************************************************)
(* The fade thread: SmoothFadeProc and Service.                            *)
(***************************************************************************)
At(place) == thread.at = place
e == entries[thread.entry]
To(place) == thread' = [thread EXCEPT !.at = place]

\* Mutant: the walk does not begin anew after the last entry.
NextEntry_Endless == thread' = [at |-> "Visit", entry |-> thread.entry + 1]

NextEntry == thread' = [at |-> "Visit", entry |-> (thread.entry % NumEntries) + 1]

Visit(over) ==
    /\ At("Visit")
    /\ IF e.Status = "Idle" \/ (e.Status = "Active" /\ e.Buffer = None)
       THEN NextEntry
       ELSE IF e.Status = "Cancelled" THEN To("Release")
       ELSE IF over THEN To("Settle") ELSE To("Step")
    /\ UNCHANGED <<entries, sound, channel, call>>

(* A fade under way: the volume of the moment.                             *)
StepFade ==
    /\ At("Step")
    /\ entries' = [entries EXCEPT ![thread.entry].Current = "half"]
    /\ sound' = [sound EXCEPT ![e.Buffer].Volume = "half"]
    /\ NextEntry
    /\ UNCHANGED <<channel, call>>

(* A fade that is over: the final volume, unless somebody has set another. *)
Settle ==
    /\ At("Settle")
    /\ IF e.Stop \/ sound[e.Buffer].Volume = e.Current
       THEN /\ sound' = [sound EXCEPT ![e.Buffer].Volume = e.Target]
            /\ To("Stop")
       ELSE To("Release") /\ UNCHANGED sound
    /\ UNCHANGED <<entries, channel, call>>

StopBuffer ==
    /\ At("Stop")
    /\ sound' = [sound EXCEPT ![e.Buffer].Playing = @ /\ ~e.Stop]
    /\ To("Release")
    /\ UNCHANGED <<entries, channel, call>>

\* Mutant: the entry is free before its buffer is forgotten.
Release_IdleFirst ==
    /\ At("Release")
    /\ sound' = IF e.Buffer = None THEN sound
                ELSE [sound EXCEPT ![e.Buffer] = Released(@)]
    /\ entries' = [entries EXCEPT ![thread.entry].Status = "Idle"]
    /\ To("Null")
    /\ UNCHANGED <<channel, call>>

Release ==
    /\ At("Release")
    /\ sound' = IF e.Buffer = None THEN sound
                ELSE [sound EXCEPT ![e.Buffer] = Released(@)]
    /\ To("Null")
    /\ UNCHANGED <<entries, channel, call>>

SetNull ==
    /\ At("Null")
    /\ entries' = [entries EXCEPT ![thread.entry].Buffer = None]
    /\ To("SetIdle")
    /\ UNCHANGED <<sound, channel, call>>

SetIdle ==
    /\ At("SetIdle")
    /\ entries' = [entries EXCEPT ![thread.entry].Status = "Idle"]
    /\ NextEntry
    /\ UNCHANGED <<sound, channel, call>>

-----------------------------------------------------------------------------
Channels(b) ==
    /\ UNCHANGED calls
    /\ \/ Open(b) \/ Play(b) \/ ResumeAtStart(b)
       \/ SoundEnds(b) \/ ServiceChannel(b)

Fades(b) ==
    \/ Stop(b) \/ Pause(b) \/ Resume(b) \/ PlayAgain(b)
    \/ \E volume \in {"silent", "full"} : SetVolume(b, volume)

Calls ==
    /\ UNCHANGED calls
    /\ \/ Request \/ Scan \/ Take \/ Fill \/ Activate \/ AfterFade
       \/ SetBufferVolume \/ SetCancelled \/ WriteVolume

FadeThread(over) ==
    /\ UNCHANGED calls
    /\ \/ Visit(over) \/ StepFade \/ Settle \/ StopBuffer
       \/ Release \/ SetNull \/ SetIdle

Next ==
    \/ \E b \in Buffers : Channels(b) \/ Fades(b)
    \/ Calls
    \/ \E over \in BOOLEAN : FadeThread(over)

Spec == Init /\ [][Next]_vars

(* Both threads run, and the time of a fade passes: an entry that is       *)
(* visited again and again is over at some visit.                          *)
FadeIsOver(i) == thread.entry = i /\ At("Visit") /\ FadeThread(TRUE)
Fairness ==
    /\ WF_vars(Calls)
    /\ WF_vars(\E over \in BOOLEAN : FadeThread(over))
    /\ \A i \in Entries : SF_vars(FadeIsOver(i))
FairSpec == Spec /\ Fairness

-----------------------------------------------------------------------------
(***************************************************************************)
(* Properties.                                                             *)
(***************************************************************************)
TypeOK ==
    /\ entries \in [Entries -> [Status : {"Idle", "Active", "Cancelled"},
                                Buffer : Buffers \cup {None}, Stop : BOOLEAN,
                                Target : {"silent", "full"}, Current : Volumes]]
    /\ sound \in [Buffers -> [Refs : Nat, Playing : BOOLEAN,
                              Volume : Volumes]]
    /\ channel \in [Buffers -> [State : {"Unused", "Held", "Gone"},
                                Volume : {"silent", "full"},
                                Paused : BOOLEAN, Playing : BOOLEAN]]
    /\ thread.entry \in Entries
    /\ calls \in 0..MaxCalls

(* The references to b that are in the table; the thread has already given *)
(* back the one it is about to forget.                                     *)
InTable(b) ==
    {i \in Entries : entries[i].Buffer = b /\ ~(At("Null") /\ thread.entry = i)}
References(b) == Cardinality(InTable(b)) + IF Held(b) THEN 1 ELSE 0

(* What the table or a channel points to is alive, whatever the threads do *)
(* at the same time: nobody touches a freed buffer, or frees one twice     *)
(* (AESmoothFadeThread.cpp:77, :113, :182).                                *)
TableHoldsLiveBuffers == \A b \in Buffers : sound[b].Refs >= References(b)

(* And what nobody points to any more is freed                             *)
(* (AESmoothFadeThread.cpp:153, :182).                                     *)
NothingLeaks == \A b \in Buffers : sound[b].Refs <= References(b)

(* The two together: the references of the table add up, whatever the main *)
(* thread and the fade thread do to one entry at the same time.            *)
TableIsSound == TypeOK /\ TableHoldsLiveBuffers /\ NothingLeaks

(* A sound whose channel has stopped it ends, faded or not, even if it is  *)
(* looped and its fade is lost (AEStaticChannel.cpp:133).                  *)
StoppedSoundsEnd == \A b \in Buffers : channel[b].State = "Gone" ~> ~sound[b].Playing
=============================================================================
