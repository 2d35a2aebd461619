-------------------------- MODULE AEMP3BankLoader --------------------------
(***************************************************************************)
(* The loader of sound banks:                                              *)
(* source/game_sa/Audio/Loaders/AEMP3BankLoader.cpp and AEBankLoader.h.    *)
(*                                                                         *)
(* Sound entities ask for a whole bank (LoadSoundBank) or for one sound of *)
(* a bank (LoadSound) to be put into a bank slot.  The requests wait in a  *)
(* ring; Service, called every frame, takes each one a step further with   *)
(* one stream of CdStream for all of them.  CdStream is used through its   *)
(* abstract specification, CdStreamService.  A step of Service is split    *)
(* between its CdStreamGetStatus and what it does with the answer: the     *)
(* streaming thread may move in between.                                   *)
(*                                                                         *)
(* Sizes are abstracted: a sound is one unit long, the k-th sound of a     *)
(* bank starts at k.  SoundID -1 stands for the whole bank, as in the      *)
(* code.                                                                   *)
(***************************************************************************)
EXTENDS Integers, FiniteSets

CONSTANTS Banks, Slots,           \* the valid banks and bank slots
          NumSounds,              \* number of sounds in a bank
          AE_BANK_MAX_NUM_SOUNDS, \* size of a slot's table of sounds (400)
          NumRequests,            \* size of the ring (50)
          Callers,                \* the requests callers make
          m_StreamingChannel,     \* the stream (4)
          SND_BANK_UNK, SND_BANK_SLOT_NONE,
          Null,                   \* no buffer
          Garbage,                \* memory that nothing was read into
          MaxOverwritten          \* bound on active requests overwritten

Sounds == 0 .. NumSounds - 1
Indices == 0 .. NumRequests - 1

\* What a read may be for: a sound, or one of
WholeBank == -1  \* the header and all sounds
Header    == -2  \* the header alone
Wild      == -3  \* a place computed from a header that was not read

Reads == [bank : Banks, part : Sounds \cup {WholeBank, Header, Wild}]

AskedFor == [bank : Banks, slot : Slots, sound : Sounds \cup {-1}]

ASSUME SizeAssumption ==
    /\ NumRequests \in Nat \ {0}
    /\ NumSounds \in Nat \ {0}
    /\ AE_BANK_MAX_NUM_SOUNDS \in Nat \ {0, 1}
    /\ NumSounds <= AE_BANK_MAX_NUM_SOUNDS
    /\ MaxOverwritten \in Nat
ASSUME NamesAssumption ==
    /\ SND_BANK_UNK \notin Banks
    /\ SND_BANK_SLOT_NONE \notin Slots
    /\ Garbage \notin Reads \cup Banks
    /\ Null \notin Reads \cup {Garbage}
    /\ Callers \subseteq AskedFor

VARIABLES
    m_Requests, m_RequestCnt, m_NextRequestIdx, m_NextOneSoundReqIdx,
    m_BankSlots,     \* the tables of the bank slots
    m_Buffer,        \* what each slot's part of the buffer holds
    m_BankSlotSound,
    at,              \* the request Service is at, or Idle
    ready,           \* CdStreamGetStatus has said READING_SUCCESS for it
    \* the stream: see CdStreamService
    phase, request, status, data, ret,
    \* the request whose buffer the last accepted read goes to, or Leaked;
    \* requests whose read was refused or has failed; slots for which two
    \* requests were active at once; active requests overwritten so far
    target, unread, disputed, overwritten

loaderVars == <<m_Requests, m_RequestCnt, m_NextRequestIdx, m_NextOneSoundReqIdx>>
slotVars == <<m_BankSlots, m_Buffer, m_BankSlotSound>>
streamVars == <<phase, request, status, data, ret>>
ghostVars == <<target, unread, disputed, overwritten>>
vars == <<loaderVars, slotVars, at, ready, streamVars, ghostVars>>

Stream == INSTANCE CdStreamService WITH Streams <- {m_StreamingChannel}

Idle   == -1
Leaked == -1

Pending == {"PENDING_READ", "PENDING_LOAD_ONE_SOUND"}

\* CAESoundRequest{}
NoRequest == [Status |-> "INACTIVE", Bank |-> SND_BANK_UNK,
              Slot |-> SND_BANK_SLOT_NONE, SoundID |-> -1,
              Part |-> Header, StreamBuf |-> Null]

Active == {i \in Indices : m_Requests[i].Status # "INACTIVE"}

\* The table of sounds in the header of a bank (Garbage: of no bank)
Table(b) == [k \in 0 .. AE_BANK_MAX_NUM_SOUNDS - 1 |-> [bank |-> b, at |-> k]]

\* The bank whose header is in a buffer
HeaderOf(buf) ==
    IF buf \in Reads /\ buf.part \in {WholeBank, Header} THEN buf.bank ELSE Garbage

\* The number of sounds in the header that is in a buffer
NumSoundsOf(buf) == IF HeaderOf(buf) = Garbage THEN 0 ELSE NumSounds

Init ==
    /\ m_Requests = [i \in Indices |-> NoRequest]
    /\ m_RequestCnt = 0
    /\ m_NextRequestIdx = 0
    /\ m_NextOneSoundReqIdx = 0
    /\ m_BankSlots = [s \in Slots |-> [Bank |-> SND_BANK_UNK, NumSounds |-> 0,
                                       Sounds |-> Table(Garbage)]]
    /\ m_Buffer = [s \in Slots |-> Garbage]
    \* never initialised: a value nobody asks for is like -1
    /\ m_BankSlotSound \in [Slots -> {c.sound : c \in Callers} \cup {-1}]
    /\ at = Idle
    /\ ready = FALSE
    /\ Stream!Init
    /\ target = Leaked
    /\ unread = {}
    /\ disputed = {}
    /\ overwritten = 0

NextIndex_NoWrap(i) == i + 1

NextIndex(i) == (i + 1) % NumRequests

-----------------------------------------------------------------------------
(***************************************************************************)
(* Callers.                                                                *)
(***************************************************************************)

\* No test of the status: the entry of a finished request counts as well
SameRequestExists(c) ==
    \E i \in Indices :
        /\ m_Requests[i].Bank = c.bank
        /\ m_Requests[i].Slot = c.slot
        /\ m_Requests[i].SoundID = c.sound

\* The entry at m_NextRequestIdx is overwritten, whatever it is doing: its
\* buffer is leaked
AddRequest(c) ==
    /\ UNCHANGED <<m_NextOneSoundReqIdx, slotVars, at, ready, streamVars>>
    /\ \/ /\ SameRequestExists(c)
          /\ UNCHANGED <<m_Requests, m_RequestCnt, m_NextRequestIdx, ghostVars>>
       \/ LET i == m_NextRequestIdx
              others == {m_Requests[j].Slot : j \in Active \ {i}}
          IN
          /\ ~SameRequestExists(c)
          /\ i \in Active => overwritten < MaxOverwritten
          /\ m_Requests' = [m_Requests EXCEPT ![i] =
                 [Status |-> "REQUESTED", Bank |-> c.bank, Slot |-> c.slot,
                  SoundID |-> c.sound,
                  Part |-> IF c.sound = -1 THEN WholeBank ELSE Header,
                  StreamBuf |-> Null]]
          /\ m_RequestCnt' = m_RequestCnt + 1
          /\ m_NextRequestIdx' = NextIndex(i)
          /\ target' = IF target = i THEN Leaked ELSE target
          /\ unread' = unread \ {i}
          /\ disputed' = IF c.slot \in others THEN disputed \cup {c.slot} ELSE disputed
          /\ overwritten' = IF i \in Active THEN overwritten + 1 ELSE overwritten

IsSoundBankLoaded(b, s) == m_BankSlots[s].Bank = b

IsSoundLoaded(b, snd, s) == m_BankSlots[s].Bank = b /\ m_BankSlotSound[s] = snd

LoadSoundBank(c) ==
    /\ at = Idle
    /\ c.sound = -1
    /\ ~IsSoundBankLoaded(c.bank, c.slot)
    /\ AddRequest(c)

LoadSound(c) ==
    /\ at = Idle
    /\ c.sound # -1
    /\ ~IsSoundLoaded(c.bank, c.sound, c.slot)
    /\ AddRequest(c)

-----------------------------------------------------------------------------
(***************************************************************************)
(* Service: one pass over the ring.                                        *)
(***************************************************************************)

Following_StopsShort(i) == IF i >= NumRequests - 2 THEN Idle ELSE i + 1

\* Where Service goes after a request
Following(i) == IF i = NumRequests - 1 THEN Idle ELSE i + 1

Service ==
    /\ at = Idle
    /\ at' = 0
    /\ UNCHANGED <<loaderVars, slotVars, ready, streamVars, ghostVars>>

Service_Inactive ==
    /\ at \in Indices \ Active
    /\ at' = Following(at)
    /\ UNCHANGED <<loaderVars, slotVars, ready, streamVars, ghostVars>>

MayGoOn_UnlessFailed(answer) == answer.val # "READING_FAILURE"

MayGoOn(answer) == answer.val = "SUCCESS"

\* CdStreamGetStatus; without READING_SUCCESS, on to the next request.  A
\* failure is forgotten once it has been reported, whoever it is reported to.
Service_GetStatus ==
    /\ at \in Active
    /\ ~ready
    /\ Stream!ReportBusy(m_StreamingChannel) \/ Stream!ReportResult(m_StreamingChannel)
    /\ ready' = MayGoOn(ret')
    /\ at' = IF ready' THEN at ELSE Following(at)
    /\ UNCHANGED <<loaderVars, slotVars, ghostVars>>

\* AllocateMemoryAndRead: what CdStreamRead returns is not looked at
AllocateMemoryAndRead(i, req) ==
    /\ m_Requests' = [m_Requests EXCEPT ![i] = [req EXCEPT !.StreamBuf = Garbage]]
    /\ \/ /\ Stream!Accept(m_StreamingChannel, [bank |-> req.Bank, part |-> req.Part])
          /\ target' = i
          /\ unread' = unread \ {i}
       \/ /\ Stream!Refuse(m_StreamingChannel)
          /\ unread' = unread \cup {i}
          /\ UNCHANGED target
    /\ UNCHANGED <<disputed, overwritten>>

\* The request Service is at, when it is in a given state and may go on
GoesOn(st) == at \in Indices /\ ready /\ m_Requests[at].Status = st

\* The end of a case of the switch
NextRequest == at' = Following(at) /\ ready' = FALSE

Service_Requested ==
    /\ GoesOn("REQUESTED")
    /\ AllocateMemoryAndRead(at, [m_Requests[at] EXCEPT !.Status = "PENDING_READ"])
    /\ NextRequest
    /\ UNCHANGED <<m_RequestCnt, m_NextRequestIdx, m_NextOneSoundReqIdx, slotVars>>

RequestDone_NotCounted == UNCHANGED m_RequestCnt

RequestDone == m_RequestCnt' = m_RequestCnt - 1

\* A whole bank is published
Service_BankRead ==
    LET req == m_Requests[at]
        buf == req.StreamBuf
    IN
    /\ GoesOn("PENDING_READ")
    /\ req.SoundID = -1
    /\ m_BankSlots' = [m_BankSlots EXCEPT ![req.Slot] =
           [Bank |-> req.Bank, NumSounds |-> NumSoundsOf(buf),
            Sounds |-> Table(HeaderOf(buf))]]
    /\ m_Buffer' = [m_Buffer EXCEPT ![req.Slot] = buf]
    /\ m_BankSlotSound' = [m_BankSlotSound EXCEPT ![req.Slot] = -1]
    /\ m_Requests' = [m_Requests EXCEPT ![at].Status = "INACTIVE", ![at].StreamBuf = Null]
    /\ RequestDone
    /\ NextRequest
    /\ unread' = unread \ {at}
    /\ UNCHANGED <<m_NextRequestIdx, m_NextOneSoundReqIdx, streamVars,
                   target, disputed, overwritten>>

ReadTheSound_NoRead(i, req) ==
    /\ m_Requests' = [m_Requests EXCEPT ![i] = [req EXCEPT !.StreamBuf = Garbage]]
    /\ unread' = unread \ {i}
    /\ UNCHANGED <<streamVars, target, disputed, overwritten>>

\* The second read of a request for one sound
ReadTheSound(i, req) == AllocateMemoryAndRead(i, req)

\* The header of a bank is published, and the one sound of it is asked for
Service_HeaderRead ==
    LET req == m_Requests[at]
        buf == req.StreamBuf
    IN
    /\ GoesOn("PENDING_READ")
    /\ req.SoundID # -1
    /\ m_BankSlots' = [m_BankSlots EXCEPT ![req.Slot] =
           [Bank |-> SND_BANK_UNK, NumSounds |-> -1, Sounds |-> Table(HeaderOf(buf))]]
    /\ m_BankSlotSound' = [m_BankSlotSound EXCEPT ![req.Slot] = -1]
    /\ ReadTheSound(at, [req EXCEPT !.Status = "PENDING_LOAD_ONE_SOUND",
                !.Part = IF HeaderOf(buf) = req.Bank THEN req.SoundID ELSE Wild])
    /\ NextRequest
    /\ UNCHANGED <<m_Buffer, m_RequestCnt, m_NextRequestIdx, m_NextOneSoundReqIdx>>

WithOneSound_OffsetKept(tab, snd) ==
    [tab EXCEPT ![(snd + 1) % AE_BANK_MAX_NUM_SOUNDS].at = 1]

\* The table of a slot that holds one sound, at its start
WithOneSound(tab, snd) ==
    [tab EXCEPT ![snd].at = 0, ![(snd + 1) % AE_BANK_MAX_NUM_SOUNDS].at = 1]

Service_SoundRead ==
    LET req == m_Requests[at] IN
    /\ GoesOn("PENDING_LOAD_ONE_SOUND")
    /\ m_BankSlots' = [m_BankSlots EXCEPT ![req.Slot].Bank = req.Bank,
                           ![req.Slot].Sounds = WithOneSound(@, req.SoundID)]
    /\ m_Buffer' = [m_Buffer EXCEPT ![req.Slot] = req.StreamBuf]
    /\ m_BankSlotSound' = [m_BankSlotSound EXCEPT ![req.Slot] = req.SoundID]
    /\ m_Requests' = [m_Requests EXCEPT ![at].Status = "INACTIVE", ![at].StreamBuf = Null]
    /\ m_NextOneSoundReqIdx' = IF m_NextOneSoundReqIdx = at
                               THEN NextIndex(at) ELSE m_NextOneSoundReqIdx
    /\ RequestDone
    /\ NextRequest
    /\ unread' = unread \ {at}
    /\ UNCHANGED <<m_NextRequestIdx, streamVars, target, disputed, overwritten>>

ServiceStep ==
    \/ Service
    \/ Service_Inactive
    \/ Service_GetStatus
    \/ Service_Requested
    \/ Service_BankRead
    \/ Service_HeaderRead
    \/ Service_SoundRead

-----------------------------------------------------------------------------
\* The streaming thread: what it reads goes to the buffer of the request
\* that asked for it, unless that was leaked
Streaming ==
    LET c == m_StreamingChannel IN
    /\ Stream!Progress(c)
    /\ m_Requests' = IF data'[c] # data[c] /\ target # Leaked
                     THEN [m_Requests EXCEPT ![target].StreamBuf = data'[c]]
                     ELSE m_Requests
    /\ unread' = IF status'[c] # status[c] /\ target # Leaked
                 THEN unread \cup {target} ELSE unread
    /\ UNCHANGED <<m_RequestCnt, m_NextRequestIdx, m_NextOneSoundReqIdx, slotVars,
                   at, ready, target, disputed, overwritten>>

Ask == \E c \in Callers : LoadSoundBank(c) \/ LoadSound(c)

Next == Ask \/ ServiceStep \/ Streaming

Spec == Init /\ [][Next]_vars

\* Service is called every frame, and the streaming thread does its work
FairSpec ==
    /\ Spec
    /\ WF_vars(ServiceStep)
    /\ WF_vars(Streaming)

-----------------------------------------------------------------------------
(***************************************************************************)
(* Properties.                                                             *)
(***************************************************************************)

Buffers == Reads \cup {Garbage}

\* Every variable has its type: indices stay in the ring, a request that is
\* not pending has no buffer.
TypeOK ==
    /\ m_Requests \in [Indices ->
           [Status : {"INACTIVE", "REQUESTED"} \cup Pending,
            Bank : Banks \cup {SND_BANK_UNK}, Slot : Slots \cup {SND_BANK_SLOT_NONE},
            SoundID : Sounds \cup {-1},
            Part : Sounds \cup {WholeBank, Header, Wild},
            StreamBuf : Buffers \cup {Null}]]
    /\ \A i \in Indices :
           m_Requests[i].StreamBuf # Null <=> m_Requests[i].Status \in Pending
    /\ m_RequestCnt \in Nat
    /\ m_NextRequestIdx \in Indices
    /\ m_NextOneSoundReqIdx \in Indices
    /\ \A s \in Slots :
           /\ m_BankSlots[s].Bank \in Banks \cup {SND_BANK_UNK}
           /\ m_BankSlots[s].NumSounds \in {-1, 0, NumSounds}
    /\ m_Buffer \in [Slots -> Buffers]
    /\ m_BankSlotSound \in [Slots -> Sounds \cup {-1}]
    /\ at \in Indices \cup {Idle}
    /\ ready \in BOOLEAN
    /\ target \in Indices \cup {Leaked}
    /\ unread \subseteq Indices
    /\ disputed \subseteq Slots
    /\ overwritten \in 0 .. MaxOverwritten

\* m_RequestCnt counts the active requests, and one more for every active
\* request the ring has overwritten (AddRequest does not look at what it
\* overwrites): it never goes below zero.
RequestCntCoversRequests == m_RequestCnt = Cardinality(Active) + overwritten

\* The ring, the slots and the count of requests agree.
BooksAgree == TypeOK /\ RequestCntCoversRequests

\* While a read is outstanding its buffer is the one of a pending request
\* that waits for just that read, or was leaked with an overwritten request:
\* the streaming thread never writes to a buffer that Service has freed.
DeviceWritesALiveBuffer ==
    phase[m_StreamingChannel] \in {"waiting", "reading"} /\ target # Leaked =>
        /\ m_Requests[target].Status \in Pending
        /\ m_Requests[target].StreamBuf = Garbage
        /\ request[m_StreamingChannel] =
               [bank |-> m_Requests[target].Bank, part |-> m_Requests[target].Part]

\* No read is forgotten: a pending request has its data, or the read for it is
\* outstanding, or that read was refused or has failed.
PendingRequestHasItsRead ==
    \A i \in Indices : m_Requests[i].Status \in Pending =>
        \/ m_Requests[i].StreamBuf = [bank |-> m_Requests[i].Bank,
                                      part |-> m_Requests[i].Part]
        \/ target = i /\ phase[m_StreamingChannel] \in {"waiting", "reading"}
        \/ i \in unread

\* The sound in a slot's part of the buffer at a given place
SoundAt(s, place) ==
    LET buf == m_Buffer[s] IN
    IF buf \in Reads /\ buf.part = WholeBank THEN [bank |-> buf.bank, part |-> place]
    ELSE IF place = 0 THEN buf ELSE Garbage

\* What GetSoundBuffer gives its caller
GetSoundBuffer(snd, s) ==
    LET slot == m_BankSlots[s]
        held == IF slot.NumSounds = -1 THEN m_BankSlotSound[s] = snd
                                       ELSE snd < slot.NumSounds
    IN IF slot.Bank = SND_BANK_UNK \/ ~held THEN Null
       ELSE SoundAt(s, slot.Sounds[snd].at)

\* A slot's data and its header were read, both of them
WasRead(s) ==
    /\ m_Buffer[s] # Garbage
    /\ m_Buffer[s].part # Wild
    /\ \A snd \in Sounds : m_BankSlots[s].Sounds[snd].bank # Garbage

\* When no two requests for a slot were ever active at once, and the reads
\* succeeded, a sound that IsSoundLoaded and IsSoundBankLoaded promise is what
\* GetSoundBuffer gives, with the header of its own bank: banks and sounds of
\* other requests that used the same stream never get mixed in.
SlotPlaysItsBank ==
    \A s \in Slots \ disputed, b \in Banks, snd \in Sounds :
        /\ WasRead(s)
        /\ \/ IsSoundLoaded(b, snd, s)
           \/ IsSoundBankLoaded(b, s) /\ m_BankSlots[s].NumSounds # -1
        => /\ GetSoundBuffer(snd, s) = [bank |-> b, part |-> snd]
           /\ m_BankSlots[s].Sounds[snd].bank = b

\* Every request is served in the end, or overwritten: requests of both kinds
\* share the stream without starving one another.
RequestsAreServed ==
    \A i \in Indices : i \in Active ~> i \notin Active
=============================================================================
