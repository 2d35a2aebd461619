----------------------- MODULE AEMP3BankLoaderProofs -----------------------
(***************************************************************************)
(* The bank loader is safe for any number of banks, slots, sounds and      *)
(* callers, and any size of the ring: its books agree, the streaming       *)
(* thread writes to live buffers only, no read is forgotten, and a slot    *)
(* plays the bank it says it has.                                          *)
(***************************************************************************)
EXTENDS AEMP3BankLoader, FiniteSetTheorems, TLAPS

-----------------------------------------------------------------------------
(***************************************************************************)
(* The invariant.                                                          *)
(***************************************************************************)
Parts == Sounds \cup {WholeBank, Header, Wild}
States == {"INACTIVE", "REQUESTED"} \cup Pending
Tables == [0 .. AE_BANK_MAX_NUM_SOUNDS - 1 -> [bank : Banks \cup {Garbage}, at : Int]]

RequestRecords ==
    [Status : States, Bank : Banks \cup {SND_BANK_UNK}, Slot : Slots \cup {SND_BANK_SLOT_NONE},
     SoundID : Sounds \cup {-1}, Part : Parts, StreamBuf : Buffers \cup {Null}]
SlotRecords ==
    [Bank : Banks \cup {SND_BANK_UNK}, NumSounds : {-1, 0, NumSounds}, Sounds : Tables]

Wanted(r) == [bank |-> r.Bank, part |-> r.Part]

(* A request asks for what belongs to it, and its buffer holds that or     *)
(* nothing.                                                                *)
RequestFits(r) ==
    /\ r.Status # "INACTIVE" => r.Bank \in Banks /\ r.Slot \in Slots
    /\ r.Status \in {"REQUESTED", "PENDING_READ"} =>
           r.Part = IF r.SoundID = -1 THEN WholeBank ELSE Header
    /\ r.Status = "PENDING_LOAD_ONE_SOUND" =>
           r.SoundID \in Sounds /\ r.Part \in {r.SoundID, Wild}
    /\ r.StreamBuf # Null <=> r.Status \in Pending
    /\ r.StreamBuf \in {Null, Garbage, Wanted(r)}

RequestsFit ==
    /\ m_Requests \in [Indices -> RequestRecords]
    /\ \A i \in Indices : RequestFits(m_Requests[i])

CountsFit ==
    /\ m_NextRequestIdx \in Indices /\ m_NextOneSoundReqIdx \in Indices
    /\ overwritten \in 0 .. MaxOverwritten
    /\ RequestCntCoversRequests

SlotsTyped ==
    /\ m_BankSlots \in [Slots -> SlotRecords]
    /\ m_Buffer \in [Slots -> Buffers]
    /\ m_BankSlotSound \in [Slots -> Sounds \cup {-1}]

Outstanding == phase[m_StreamingChannel] \in {"waiting", "reading"}

(* As long as a read is outstanding nobody has touched its request.        *)
StreamAgrees ==
    /\ phase \in [{m_StreamingChannel} -> Stream!Phases]
    /\ request \in [{m_StreamingChannel} -> Buffers]
    /\ status \in [{m_StreamingChannel} -> {"SUCCESS", "READING_FAILURE"}]
    /\ data \in [{m_StreamingChannel} -> Buffers]
    /\ Outstanding => /\ request[m_StreamingChannel] \in Reads
                      /\ data[m_StreamingChannel] = Garbage
                      /\ status[m_StreamingChannel] = "SUCCESS"

(* Service goes on with a request only when no read is outstanding; the    *)
(* thread cannot begin one of its own.                                     *)
ServiceAgrees ==
    /\ at \in Indices \cup {Idle} /\ ready \in BOOLEAN
    /\ ready => at \in Active /\ ~Outstanding

GhostsTyped ==
    /\ target \in Indices \cup {Leaked}
    /\ unread \subseteq Indices
    /\ disputed \subseteq Slots

(* A slot that is not disputed has one request at a time.                  *)
OneAtATime ==
    \A i, j \in Active :
        /\ m_Requests[i].Slot = m_Requests[j].Slot
        /\ m_Requests[i].Slot \notin disputed
        => i = j

(* While one sound is read, the slot has the header it was looked up in.   *)
HeaderIsIn(slot, r) ==
    /\ slot.Bank = SND_BANK_UNK
    /\ slot.NumSounds = -1
    /\ r.Part = r.SoundID => slot.Sounds = Table(r.Bank)

HeadersAreIn ==
    \A i \in Indices :
        /\ m_Requests[i].Status = "PENDING_LOAD_ONE_SOUND"
        /\ m_Requests[i].Slot \notin disputed
        => HeaderIsIn(m_BankSlots[m_Requests[i].Slot], m_Requests[i])

(* What a slot that says it has a bank has: all of it, or one sound.       *)
HoldsBank(slot, buf) ==
    /\ buf \in {Garbage, [bank |-> slot.Bank, part |-> WholeBank]}
    /\ slot.NumSounds = NumSoundsOf(buf)
    /\ slot.Sounds = Table(HeaderOf(buf))

HoldsSound(slot, buf, snd) ==
    /\ slot.NumSounds = -1
    /\ snd \in Sounds
    /\ \/ buf = Garbage
       \/ buf = [bank |-> slot.Bank, part |-> Wild]
       \/ /\ buf = [bank |-> slot.Bank, part |-> snd]
          /\ slot.Sounds = WithOneSound(Table(slot.Bank), snd)

SlotFits(slot, buf, snd) ==
    slot.Bank = SND_BANK_UNK \/ HoldsBank(slot, buf) \/ HoldsSound(slot, buf, snd)

SlotsFit ==
    \A s \in Slots \ disputed : SlotFits(m_BankSlots[s], m_Buffer[s], m_BankSlotSound[s])

IInv ==
    /\ RequestsFit
    /\ CountsFit
    /\ SlotsTyped
    /\ StreamAgrees
    /\ ServiceAgrees
    /\ GhostsTyped
    /\ DeviceWritesALiveBuffer
    /\ PendingRequestHasItsRead
    /\ OneAtATime
    /\ HeadersAreIn
    /\ SlotsFit

-----------------------------------------------------------------------------
(***************************************************************************)
(* What the invariant promises.                                            *)
(***************************************************************************)
(* The names of parts are different numbers.                               *)
LEMMA PartsDiffer ==
    /\ WholeBank = -1 /\ Header = -2 /\ Wild = -3 /\ Idle = -1 /\ Leaked = -1
    /\ Sounds \subseteq Nat
    /\ NumSounds \in Nat \ {0}
    /\ \A snd \in Sounds : snd \in 0 .. AE_BANK_MAX_NUM_SOUNDS - 1
  BY SizeAssumption DEF WholeBank, Header, Wild, Idle, Leaked, Sounds

(* Buffers and what is no buffer.                                          *)
LEMMA BuffersDiffer ==
    /\ Null \notin Buffers /\ Garbage \in Buffers /\ Garbage \notin Reads
    /\ Reads \subseteq Buffers
    /\ \A buf \in Buffers : buf # Garbage => buf \in Reads
  BY NamesAssumption DEF Buffers

(* The table of a bank's header.                                           *)
LEMMA TableFacts ==
    ASSUME NEW b \in Banks \cup {Garbage}
    PROVE  /\ Table(b) \in Tables
           /\ \A snd \in Sounds : Table(b)[snd] = [bank |-> b, at |-> snd]
<1>1. \A k \in 0 .. AE_BANK_MAX_NUM_SOUNDS - 1 : k \in Int
  BY SizeAssumption
<1>2. \A k \in 0 .. AE_BANK_MAX_NUM_SOUNDS - 1 :
         [bank |-> b, at |-> k] \in [bank : Banks \cup {Garbage}, at : Int]
  BY <1>1
<1> QED
  BY <1>2, PartsDiffer DEF Table, Tables

(* The table of a slot with one sound.                                     *)
LEMMA OneSoundFacts ==
    ASSUME NEW tab \in Tables, NEW snd \in Sounds
    PROVE  /\ WithOneSound(tab, snd) \in Tables
           /\ WithOneSound(tab, snd)[snd].at = 0
           /\ \A k \in Sounds : WithOneSound(tab, snd)[k].bank = tab[k].bank
<1> DEFINE D == 0 .. AE_BANK_MAX_NUM_SOUNDS - 1
           next == (snd + 1) % AE_BANK_MAX_NUM_SOUNDS
<1>1. AE_BANK_MAX_NUM_SOUNDS \in Nat \ {0, 1} /\ snd \in D /\ snd \in Nat
  BY SizeAssumption, PartsDiffer
<1>2. next \in D /\ next # snd
  <2>1. CASE snd + 1 < AE_BANK_MAX_NUM_SOUNDS
    <3>1. next = snd + 1
      BY <1>1, <2>1
    <3> QED
      BY <1>1, <2>1, <3>1
  <2>2. CASE ~(snd + 1 < AE_BANK_MAX_NUM_SOUNDS)
    <3>1. snd + 1 = AE_BANK_MAX_NUM_SOUNDS
      BY <1>1, <2>2
    <3>2. next = 0
      BY <1>1, <3>1
    <3> QED
      BY <1>1, <3>1, <3>2
  <2> QED
    BY <2>1, <2>2
<1>3. PICK n \in D : n = next
  BY <1>2
<1>4. WithOneSound(tab, snd) = [tab EXCEPT ![snd].at = 0, ![n].at = 1]
  BY <1>3 DEF WithOneSound
<1>5. tab \in [D -> [bank : Banks \cup {Garbage}, at : Int]]
  BY DEF Tables
<1>6. n # snd
  BY <1>2, <1>3
<1> HIDE DEF next
<1>7. WithOneSound(tab, snd) \in [D -> [bank : Banks \cup {Garbage}, at : Int]]
  <2> DEFINE Row == [bank : Banks \cup {Garbage}, at : Int]
  <2>1. \A t \in Row, v \in Int : [t EXCEPT !.at = v] \in Row
    OBVIOUS
  <2>2. PICK first : first = [tab EXCEPT ![snd].at = 0]
    OBVIOUS
  <2>3. first \in [D -> Row]
    BY <1>1, <1>5, <2>1, <2>2
  <2>4. [first EXCEPT ![n].at = 1] \in [D -> Row]
    BY <2>1, <2>3
  <2>5. WithOneSound(tab, snd) = [first EXCEPT ![n].at = 1]
    BY <1>4, <2>2
  <2> QED
    BY <2>4, <2>5
<1>8. WithOneSound(tab, snd)[snd].at = 0
  BY <1>1, <1>4, <1>5, <1>6
<1>9. \A k \in D : WithOneSound(tab, snd)[k].bank = tab[k].bank
  BY <1>1, <1>4, <1>5
<1> QED
  BY <1>7, <1>8, <1>9, PartsDiffer DEF Tables

(* The header in a buffer.                                                 *)
LEMMA HeaderFacts ==
    ASSUME NEW buf \in Buffers
    PROVE  /\ HeaderOf(buf) \in Banks \cup {Garbage}
           /\ NumSoundsOf(buf) \in {0, NumSounds}
           /\ HeaderOf(buf) # Garbage => buf \in Reads /\ HeaderOf(buf) = buf.bank
           /\ Garbage \notin Banks
<1>1. Garbage \notin Banks
  BY NamesAssumption
<1>2. CASE buf \in Reads /\ buf.part \in {WholeBank, Header}
  <2>1. HeaderOf(buf) = buf.bank /\ buf.bank \in Banks
    BY <1>2 DEF HeaderOf, Reads
  <2> QED
    BY <1>1, <1>2, <2>1 DEF NumSoundsOf
<1>3. CASE ~(buf \in Reads /\ buf.part \in {WholeBank, Header})
  <2>1. HeaderOf(buf) = Garbage
    BY <1>3 DEF HeaderOf
  <2> QED
    BY <1>1, <2>1 DEF NumSoundsOf
<1> QED
  BY <1>2, <1>3

(* A slot that fits plays its bank.                                        *)
LEMMA FittingSlotPlays ==
    ASSUME SlotsTyped, SlotsFit, NEW s \in Slots \ disputed, NEW b \in Banks,
           NEW snd \in Sounds, WasRead(s),
           \/ IsSoundLoaded(b, snd, s)
           \/ IsSoundBankLoaded(b, s) /\ m_BankSlots[s].NumSounds # -1
    PROVE  /\ GetSoundBuffer(snd, s) = [bank |-> b, part |-> snd]
           /\ m_BankSlots[s].Sounds[snd].bank = b
<1>0. PICK slot \in SlotRecords, buf \in Buffers, one \in Sounds \cup {-1} :
         slot = m_BankSlots[s] /\ buf = m_Buffer[s] /\ one = m_BankSlotSound[s]
  BY DEF SlotsTyped
<1>1. SlotFits(slot, buf, one)
  BY <1>0 DEF SlotsFit
<1>2. slot.Bank = b /\ slot.Bank # SND_BANK_UNK
  BY <1>0, NamesAssumption DEF IsSoundLoaded, IsSoundBankLoaded
<1>3. /\ buf # Garbage /\ buf.part # Wild
      /\ slot.Sounds[snd].bank # Garbage
  BY <1>0 DEF WasRead
<1>4. slot.NumSounds = -1 => one = snd
  BY <1>0 DEF IsSoundLoaded
<1>5. GetSoundBuffer(snd, s) =
         IF slot.Bank = SND_BANK_UNK \/ ~(IF slot.NumSounds = -1 THEN one = snd
                                                               ELSE snd < slot.NumSounds)
         THEN Null ELSE SoundAt(s, slot.Sounds[snd].at)
  BY <1>0 DEF GetSoundBuffer
<1>6. SoundAt(s, slot.Sounds[snd].at) =
         IF buf \in Reads /\ buf.part = WholeBank
         THEN [bank |-> buf.bank, part |-> slot.Sounds[snd].at]
         ELSE IF slot.Sounds[snd].at = 0 THEN buf ELSE Garbage
  BY <1>0 DEF SoundAt
<1>7. CASE HoldsBank(slot, buf)
  <2>1. buf = [bank |-> b, part |-> WholeBank] /\ buf \in Reads
    <3>1. buf \in {Garbage, [bank |-> slot.Bank, part |-> WholeBank]}
      BY <1>7 DEF HoldsBank
    <3> QED
      BY <1>1, <1>2, <1>3, <3>1, BuffersDiffer
  <2>2. HeaderOf(buf) = b /\ NumSoundsOf(buf) = NumSounds
    <3>1. HeaderOf(buf) = b
      BY <2>1 DEF HeaderOf
    <3>2. b # Garbage
      BY <1>1, HeaderFacts
    <3> QED
      BY <3>1, <3>2 DEF NumSoundsOf
  <2>3. slot.NumSounds = NumSounds /\ slot.Sounds = Table(b)
    BY <1>7, <2>2 DEF HoldsBank
  <2>4. slot.Sounds[snd] = [bank |-> b, at |-> snd]
    BY <2>3, TableFacts
  <2>5. snd < NumSounds /\ NumSounds # -1
    BY SizeAssumption DEF Sounds
  <2> QED
    <3>1. NumSounds # -1 /\ snd < NumSounds /\ slot.Bank = b
      BY <1>2, <2>5
    <3>2. GetSoundBuffer(snd, s) = SoundAt(s, slot.Sounds[snd].at)
      BY <1>2, <1>5, <2>3, <3>1
    <3>3. SoundAt(s, slot.Sounds[snd].at) = [bank |-> b, part |-> snd]
      BY <1>6, <2>1, <2>4
    <3> QED
      BY <1>0, <2>4, <3>2, <3>3
<1>8. CASE HoldsSound(slot, buf, one)
  <2>1. slot.NumSounds = -1 /\ one = snd
    BY <1>4, <1>8 DEF HoldsSound
  <2>2. /\ buf = [bank |-> b, part |-> snd]
        /\ slot.Sounds = WithOneSound(Table(b), snd)
    BY <1>2, <1>3, <1>8, <2>1 DEF HoldsSound
  <2>3. buf.part # WholeBank
    BY <2>2, PartsDiffer
  <2>4. slot.Sounds[snd].at = 0 /\ slot.Sounds[snd].bank = b
    <3>1. PICK tab \in Tables : tab = Table(b) /\ tab[snd] = [bank |-> b, at |-> snd]
      BY TableFacts
    <3>2. WithOneSound(tab, snd)[snd].at = 0 /\ WithOneSound(tab, snd)[snd].bank = tab[snd].bank
      BY OneSoundFacts
    <3> QED
      BY <2>2, <3>1, <3>2
  <2> QED
    BY <1>0, <1>2, <1>5, <1>6, <2>1, <2>2, <2>3, <2>4
<1> QED
  BY <1>1, <1>2, <1>7, <1>8 DEF SlotFits

(* The ring has an end.                                                    *)
LEMMA RingIsFinite ==
    /\ IsFiniteSet(Active)
    /\ Cardinality(Active) \in Nat
<1>1. IsFiniteSet(Indices) /\ Active \subseteq Indices
  BY SizeAssumption, FS_Interval DEF Indices, Active
<1> QED
  BY <1>1, FS_Subset, FS_CardinalityType

(* The invariant implies the four properties.                              *)
LEMMA IInvPromises ==
    ASSUME IInv
    PROVE  BooksAgree /\ SlotPlaysItsBank
<1>1. TypeOK
  <2>1. m_RequestCnt \in Nat
    BY RingIsFinite DEF IInv, CountsFit, RequestCntCoversRequests
  <2>2. /\ m_Requests \in [Indices -> RequestRecords]
        /\ \A i \in Indices :
              m_Requests[i].StreamBuf # Null <=> m_Requests[i].Status \in Pending
    BY DEF IInv, RequestsFit, RequestFits
  <2>3. \A s \in Slots : /\ m_BankSlots[s].Bank \in Banks \cup {SND_BANK_UNK}
                         /\ m_BankSlots[s].NumSounds \in {-1, 0, NumSounds}
    BY DEF IInv, SlotsTyped, SlotRecords
  <2> QED
    BY <2>1, <2>2, <2>3
       DEF IInv, TypeOK, RequestRecords, States, Parts, CountsFit, SlotsTyped, ServiceAgrees,
           GhostsTyped
<1>2. SlotPlaysItsBank
  <2>1. SlotsTyped /\ SlotsFit
    BY DEF IInv
  <2> QED
    BY <2>1, FittingSlotPlays DEF SlotPlaysItsBank
<1> QED
  BY <1>1, <1>2 DEF IInv, BooksAgree, CountsFit

-----------------------------------------------------------------------------
(***************************************************************************)
(* The requests.                                                           *)
(***************************************************************************)
(* One entry of the ring is written.                                       *)
LEMMA WriteOne ==
    ASSUME RequestsFit, NEW i \in Indices, NEW r \in RequestRecords, RequestFits(r),
           m_Requests' = [m_Requests EXCEPT ![i] = r]
    PROVE  /\ RequestsFit'
           /\ m_Requests'[i] = r
           /\ \A j \in Indices \ {i} : m_Requests'[j] = m_Requests[j]
<1>1. /\ m_Requests' \in [Indices -> RequestRecords]
      /\ m_Requests'[i] = r
      /\ \A j \in Indices \ {i} : m_Requests'[j] = m_Requests[j]
  BY DEF RequestsFit
<1>2. ASSUME NEW j \in Indices
      PROVE  RequestFits(m_Requests'[j])
  <2>1. CASE j = i
    BY <1>1, <2>1
  <2>2. CASE j # i
    BY <1>1, <2>2 DEF RequestsFit
  <2> QED
    BY <2>1, <2>2
<1> QED
  BY <1>1, <1>2 DEF RequestsFit

(* What becomes of the count of active requests.                           *)
LEMMA OneMoreActive ==
    ASSUME NEW i \in Indices, m_Requests'[i].Status # "INACTIVE",
           \A j \in Indices \ {i} : m_Requests'[j] = m_Requests[j]
    PROVE  /\ Active' = Active \cup {i}
           /\ Cardinality(Active)' = Cardinality(Active) + IF i \in Active THEN 0 ELSE 1
<1>1. Active' = Active \cup {i}
  BY DEF Active
<1>2. CASE i \in Active
  <2>1. Active' = Active
    BY <1>1, <1>2
  <2> QED
    BY <1>1, <1>2, <2>1, RingIsFinite
<1>3. CASE i \notin Active
  BY <1>1, <1>3, RingIsFinite, FS_AddElement
<1> QED
  BY <1>1, <1>2, <1>3

(* One request less.                                                       *)
LEMMA OneLessActive ==
    ASSUME NEW i \in Active, m_Requests'[i].Status = "INACTIVE",
           \A j \in Indices \ {i} : m_Requests'[j] = m_Requests[j]
    PROVE  /\ Active' = Active \ {i}
           /\ Cardinality(Active)' = Cardinality(Active) - 1
<1>1. Active' = Active \ {i}
  BY DEF Active
<1> QED
  BY <1>1, RingIsFinite, FS_RemoveElement

(* The request Service goes on with.                                       *)
LEMMA RequestAt ==
    ASSUME IInv, ready
    PROVE  /\ at \in Indices /\ at \in Active /\ ~Outstanding
           /\ m_Requests[at] \in RequestRecords /\ RequestFits(m_Requests[at])
           /\ m_Requests[at].Bank \in Banks /\ m_Requests[at].Slot \in Slots
           /\ m_Requests[at].Status \in Pending =>
                 /\ m_Requests[at].StreamBuf \in {Garbage, Wanted(m_Requests[at])}
                 /\ m_Requests[at].StreamBuf \in Buffers
<1>1. at \in Active /\ ~Outstanding /\ at \in Indices
  BY DEF IInv, ServiceAgrees, Active
<1>2. m_Requests[at] \in RequestRecords /\ RequestFits(m_Requests[at])
  BY <1>1 DEF IInv, RequestsFit
<1>3. m_Requests[at].Bank \in Banks /\ m_Requests[at].Slot \in Slots
  BY <1>1, <1>2 DEF Active, RequestFits
<1>4. ASSUME m_Requests[at].Status \in Pending
      PROVE  /\ m_Requests[at].StreamBuf \in {Garbage, Wanted(m_Requests[at])}
             /\ m_Requests[at].StreamBuf \in Buffers
  <2>1. m_Requests[at].StreamBuf # Null
    BY <1>2, <1>4 DEF RequestFits
  <2>2. m_Requests[at].StreamBuf \in Buffers \cup {Null}
    BY <1>2 DEF RequestRecords
  <2> QED
    BY <1>2, <2>1, <2>2 DEF RequestFits
<1> QED
  BY <1>1, <1>2, <1>3, <1>4

(* Service reaches the end of the ring.                                    *)
LEMMA FollowingStays ==
    ASSUME NEW i \in Indices
    PROVE  Following(i) \in Indices \cup {Idle}
  BY SizeAssumption DEF Following, Indices

(* The index of the next request wraps.                                    *)
LEMMA NextIndexStays ==
    ASSUME NEW i \in Indices
    PROVE  NextIndex(i) \in Indices
<1>1. NumRequests \in Nat \ {0} /\ i + 1 \in Nat
  BY SizeAssumption DEF Indices
<1>2. (i + 1) % NumRequests \in 0 .. NumRequests - 1
  BY <1>1
<1> QED
  BY <1>2 DEF NextIndex, Indices

-----------------------------------------------------------------------------
(***************************************************************************)
(* Parts of the invariant that a step leaves alone.                        *)
(***************************************************************************)
LEMMA StreamLeftAlone ==
    ASSUME StreamAgrees, UNCHANGED streamVars
    PROVE  StreamAgrees' /\ (Outstanding' <=> Outstanding)
  BY DEF StreamAgrees, streamVars, Outstanding

(* No slot is written; more may be disputed.                               *)
LEMMA SlotsLeftAlone ==
    ASSUME SlotsTyped, SlotsFit, UNCHANGED slotVars, disputed \subseteq disputed'
    PROVE  SlotsTyped' /\ SlotsFit'
  BY DEF SlotsTyped, SlotsFit, slotVars

(* A step to the next request.                                             *)
LEMMA NextAgrees ==
    ASSUME IInv, ready, NextRequest
    PROVE  ServiceAgrees'
  BY RequestAt, FollowingStays DEF NextRequest, ServiceAgrees

(* A request keeps its slot, or gives it up.                               *)
LEMMA SlotStaysWithOne ==
    ASSUME OneAtATime, Active' \subseteq Active, UNCHANGED disputed,
           \A i \in Active' : m_Requests'[i].Slot = m_Requests[i].Slot
    PROVE  OneAtATime'
  BY DEF OneAtATime

-----------------------------------------------------------------------------
(***************************************************************************)
(* A caller's request.                                                     *)
(***************************************************************************)
LEMMA AddRequestStep ==
    ASSUME IInv, NEW c \in Callers, at = Idle, AddRequest(c)
    PROVE  IInv'
<1>0. ~ready
  <2>1. Idle \notin Indices
    BY SizeAssumption DEF Idle, Indices
  <2> QED
    BY <2>1 DEF IInv, ServiceAgrees, Active
<1>1. CASE UNCHANGED <<loaderVars, slotVars, at, ready, streamVars, ghostVars>>
  <2>1. RequestsFit' /\ CountsFit' /\ GhostsTyped' /\ OneAtATime'
    BY <1>1 DEF IInv, loaderVars, ghostVars, RequestsFit, CountsFit,
                RequestCntCoversRequests, Active, GhostsTyped, OneAtATime
  <2>2. SlotsTyped' /\ SlotsFit' /\ StreamAgrees' /\ (Outstanding' <=> Outstanding)
    BY <1>1, SlotsLeftAlone, StreamLeftAlone DEF IInv, ghostVars
  <2>3. ServiceAgrees'
    BY <1>0, <1>1 DEF IInv, ServiceAgrees
  <2>4. DeviceWritesALiveBuffer' /\ PendingRequestHasItsRead' /\ HeadersAreIn'
    BY <1>1 DEF IInv, loaderVars, slotVars, streamVars, ghostVars,
                DeviceWritesALiveBuffer, PendingRequestHasItsRead, HeadersAreIn
  <2> QED
    BY <2>1, <2>2, <2>3, <2>4 DEF IInv
<1>2. CASE ~SameRequestExists(c)
  <2>1. PICK i \in Indices : i = m_NextRequestIdx
    BY DEF IInv, CountsFit
  <2>2. PICK r : r = [Status |-> "REQUESTED", Bank |-> c.bank, Slot |-> c.slot,
                      SoundID |-> c.sound, Part |-> IF c.sound = -1 THEN WholeBank ELSE Header,
                      StreamBuf |-> Null]
    OBVIOUS
  <2>3. /\ m_Requests' = [m_Requests EXCEPT ![i] = r]
        /\ m_RequestCnt' = m_RequestCnt + 1
        /\ m_NextRequestIdx' = NextIndex(i)
        /\ m_NextOneSoundReqIdx' = m_NextOneSoundReqIdx
        /\ target' = IF target = i THEN Leaked ELSE target
        /\ unread' = unread \ {i}
        /\ disputed' = IF c.slot \in {m_Requests[j].Slot : j \in Active \ {i}}
                       THEN disputed \cup {c.slot} ELSE disputed
        /\ i \in Active => overwritten < MaxOverwritten
        /\ overwritten' = IF i \in Active THEN overwritten + 1 ELSE overwritten
        /\ UNCHANGED <<slotVars, at, ready, streamVars>>
    BY <1>2, <2>1, <2>2 DEF AddRequest
  <2>4. c.bank \in Banks /\ c.slot \in Slots /\ c.sound \in Sounds \cup {-1}
    BY NamesAssumption DEF AskedFor
  <2>5. r \in RequestRecords /\ RequestFits(r)
    BY <2>2, <2>4 DEF RequestRecords, RequestFits, Parts, States, Pending
  <2>6. /\ RequestsFit' /\ m_Requests'[i] = r
        /\ \A j \in Indices \ {i} : m_Requests'[j] = m_Requests[j]
    BY <2>3, <2>5, WriteOne DEF IInv
  <2>7. r.Status = "REQUESTED" /\ r.Slot = c.slot
    BY <2>2
  <2>8. /\ Active' = Active \cup {i}
        /\ Cardinality(Active)' = Cardinality(Active) + IF i \in Active THEN 0 ELSE 1
    BY <2>6, <2>7, OneMoreActive
  <2>9. CountsFit'
    <3>1. m_NextRequestIdx' \in Indices /\ m_NextOneSoundReqIdx' \in Indices
      BY <2>3, NextIndexStays DEF IInv, CountsFit
    <3>2. /\ m_RequestCnt = Cardinality(Active) + overwritten
          /\ overwritten \in 0 .. MaxOverwritten /\ MaxOverwritten \in Nat
          /\ Cardinality(Active) \in Nat
      BY RingIsFinite, SizeAssumption DEF IInv, CountsFit, RequestCntCoversRequests
    <3>3. overwritten' \in 0 .. MaxOverwritten
      BY <2>3, <3>2
    <3>4. m_RequestCnt' = Cardinality(Active)' + overwritten'
      BY <2>3, <2>8, <3>2
    <3> QED
      BY <3>1, <3>3, <3>4 DEF CountsFit, RequestCntCoversRequests
  <2>10. disputed \subseteq disputed' /\ GhostsTyped'
    BY <2>3, <2>4 DEF IInv, GhostsTyped
  <2>11. SlotsTyped' /\ SlotsFit' /\ StreamAgrees' /\ (Outstanding' <=> Outstanding)
    BY <2>3, <2>10, SlotsLeftAlone, StreamLeftAlone DEF IInv
  <2>12. ServiceAgrees'
    BY <1>0, <2>3 DEF IInv, ServiceAgrees
  <2>13. DeviceWritesALiveBuffer'
    <3>1. target' # Leaked => target' = target /\ target \in Indices \ {i}
      BY <2>3 DEF IInv, GhostsTyped
    <3> QED
      BY <2>3, <2>6, <3>1 DEF IInv, DeviceWritesALiveBuffer, streamVars
  <2>14. PendingRequestHasItsRead'
    <3> SUFFICES ASSUME NEW j \in Indices, m_Requests'[j].Status \in Pending
                 PROVE  \/ m_Requests'[j].StreamBuf = Wanted(m_Requests'[j])
                        \/ target' = j /\ Outstanding'
                        \/ j \in unread'
      BY DEF PendingRequestHasItsRead, Outstanding, Wanted
    <3>1. j # i
      BY <2>6, <2>7 DEF Pending
    <3>2. \/ m_Requests[j].StreamBuf = Wanted(m_Requests[j])
          \/ target = j /\ Outstanding
          \/ j \in unread
      BY <2>6, <3>1 DEF IInv, PendingRequestHasItsRead, Outstanding, Wanted
    <3> QED
      BY <2>3, <2>6, <2>11, <3>1, <3>2
  <2>15. OneAtATime'
    <3> SUFFICES ASSUME NEW j \in Active', NEW k \in Active',
                        m_Requests'[j].Slot = m_Requests'[k].Slot,
                        m_Requests'[j].Slot \notin disputed', j # k
                 PROVE  FALSE
      BY DEF OneAtATime
    <3>1. CASE j # i /\ k # i
      BY <2>6, <2>8, <2>10, <3>1 DEF IInv, OneAtATime, Active
    <3>2. ASSUME NEW n \in Active \ {i}, m_Requests'[n].Slot = m_Requests'[i].Slot,
                 m_Requests'[i].Slot \notin disputed'
          PROVE  FALSE
      <4>1. m_Requests[n].Slot = c.slot
        BY <2>6, <2>7, <3>2 DEF Active
      <4>2. c.slot \in disputed'
        BY <2>3, <4>1
      <4> QED
        BY <2>6, <2>7, <3>2, <4>2
    <3>3. CASE j = i
      BY <2>8, <3>2, <3>3
    <3>4. CASE k = i
      BY <2>8, <3>2, <3>4
    <3> QED
      BY <3>1, <3>3, <3>4
  <2>16. HeadersAreIn'
    <3> SUFFICES ASSUME NEW j \in Indices, m_Requests'[j].Status = "PENDING_LOAD_ONE_SOUND",
                        m_Requests'[j].Slot \notin disputed'
                 PROVE  HeaderIsIn(m_BankSlots'[m_Requests'[j].Slot], m_Requests'[j])
      BY DEF HeadersAreIn
    <3>1. j # i /\ m_Requests'[j] = m_Requests[j]
      BY <2>6, <2>7
    <3> QED
      BY <2>3, <2>10, <3>1 DEF IInv, HeadersAreIn, slotVars
  <2> QED
    BY <2>6, <2>9, <2>10, <2>11, <2>12, <2>13, <2>14, <2>15, <2>16 DEF IInv
<1> QED
  BY <1>1, <1>2 DEF AddRequest, loaderVars

-----------------------------------------------------------------------------
(***************************************************************************)
(* The steps of Service.                                                   *)
(***************************************************************************)
(* Service looks at requests and at the stream.                            *)
LEMMA LooksStep ==
    ASSUME IInv, Service \/ Service_Inactive \/ Service_GetStatus
    PROVE  IInv'
<1>1. UNCHANGED <<loaderVars, slotVars, ghostVars>>
  BY DEF Service, Service_Inactive, Service_GetStatus
<1>2. RequestsFit' /\ CountsFit' /\ GhostsTyped' /\ OneAtATime' /\ HeadersAreIn'
  BY <1>1 DEF IInv, loaderVars, slotVars, ghostVars, RequestsFit, CountsFit,
              RequestCntCoversRequests, Active, GhostsTyped, OneAtATime, HeadersAreIn
<1>3. SlotsTyped' /\ SlotsFit'
  BY <1>1, SlotsLeftAlone DEF IInv, ghostVars
<1>4. CASE Service \/ Service_Inactive
  <2>1. UNCHANGED streamVars
    BY <1>4 DEF Service, Service_Inactive
  <2>2. StreamAgrees' /\ (Outstanding' <=> Outstanding)
    BY <2>1, StreamLeftAlone DEF IInv
  <2>3. ServiceAgrees'
    <3>1. Idle \notin Indices /\ 0 \in Indices
      BY SizeAssumption DEF Idle, Indices
    <3>2. at \notin Active /\ ready' = ready
      BY <1>4, <3>1 DEF Service, Service_Inactive, Active
    <3>3. at' \in Indices \cup {Idle}
      BY <1>4, <3>1, FollowingStays DEF Service, Service_Inactive
    <3> QED
      BY <3>2, <3>3 DEF IInv, ServiceAgrees
  <2>4. DeviceWritesALiveBuffer' /\ PendingRequestHasItsRead'
    BY <1>1, <2>1 DEF IInv, loaderVars, streamVars, ghostVars,
                      DeviceWritesALiveBuffer, PendingRequestHasItsRead
  <2> QED
    BY <1>2, <1>3, <2>2, <2>3, <2>4 DEF IInv
<1>5. CASE Service_GetStatus
  <2>1. PICK ch : ch = m_StreamingChannel
    OBVIOUS
  <2>2. /\ at \in Active /\ ready' \in BOOLEAN
        /\ at' = IF ready' THEN at ELSE Following(at)
        /\ UNCHANGED <<phase, data>>
        /\ \/ UNCHANGED <<request, status>> /\ ~ready'
           \/ /\ ~Outstanding
              /\ status' = [status EXCEPT ![ch] = "SUCCESS"]
              /\ request' = [request EXCEPT ![ch] = Garbage]
    <3>1. /\ at \in Active /\ ready' = MayGoOn(ret')
          /\ at' = IF ready' THEN at ELSE Following(at)
      BY <1>5 DEF Service_GetStatus
    <3>2. CASE Stream!ReportBusy(ch)
      <4>1. ret'.val # "SUCCESS" /\ UNCHANGED <<phase, request, status, data>>
        BY <3>2 DEF Stream!ReportBusy, Stream!Answer
      <4> QED
        BY <3>1, <4>1 DEF MayGoOn
    <3>3. CASE Stream!ReportResult(ch)
      <4>1. /\ ~Outstanding /\ UNCHANGED <<phase, data>>
            /\ status' = [status EXCEPT ![ch] = "SUCCESS"]
            /\ request' = [request EXCEPT ![ch] = Garbage]
        BY <2>1, <3>3 DEF Stream!ReportResult, Outstanding
      <4>2. ready' \in BOOLEAN
        BY <3>1 DEF MayGoOn
      <4> QED
        BY <3>1, <4>1, <4>2
    <3> QED
      BY <1>5, <2>1, <3>2, <3>3 DEF Service_GetStatus
  <2>3. Outstanding' <=> Outstanding
    BY <2>2 DEF Outstanding
  <2>4. StreamAgrees'
    BY <2>1, <2>2, <2>3, BuffersDiffer DEF IInv, StreamAgrees
  <2>5. ServiceAgrees'
    <3>1. Active' = Active /\ Active \subseteq Indices /\ ready' \in BOOLEAN
      BY <1>1, <2>2 DEF loaderVars, Active
    <3>2. at' \in Indices \cup {Idle} /\ (ready' => at' \in Active)
      BY <2>2, <3>1, FollowingStays
    <3> QED
      BY <2>2, <2>3, <3>1, <3>2 DEF ServiceAgrees
  <2>6. Outstanding => UNCHANGED request
    BY <2>2
  <2>7. DeviceWritesALiveBuffer' /\ PendingRequestHasItsRead'
    BY <1>1, <2>3, <2>6 DEF IInv, loaderVars, ghostVars, Outstanding,
                      DeviceWritesALiveBuffer, PendingRequestHasItsRead
  <2> QED
    BY <1>2, <1>3, <2>4, <2>5, <2>7 DEF IInv
<1> QED
  BY <1>4, <1>5

(* A request gets a buffer and a read, or the read is refused.             *)
LEMMA AllocateStep ==
    ASSUME IInv, ready, NEW req, NEW r \in RequestRecords,
           r = [req EXCEPT !.StreamBuf = Garbage], RequestFits(r), r.Status \in Pending,
           r.Slot = m_Requests[at].Slot, req.Bank = r.Bank, req.Part = r.Part,
           r.StreamBuf = Garbage,
           AllocateMemoryAndRead(at, req)
    PROVE  /\ RequestsFit' /\ StreamAgrees' /\ GhostsTyped' /\ OneAtATime'
           /\ DeviceWritesALiveBuffer' /\ PendingRequestHasItsRead'
           /\ Cardinality(Active)' = Cardinality(Active)
           /\ UNCHANGED <<disputed, overwritten>>
           /\ m_Requests'[at] = r
           /\ \A j \in Indices \ {at} : m_Requests'[j] = m_Requests[j]
<1>1. /\ at \in Indices /\ at \in Active /\ ~Outstanding
      /\ r.Bank \in Banks
  <2>1. r.Status # "INACTIVE"
    BY DEF Pending
  <2> QED
    BY <2>1, RequestAt DEF RequestFits
<1>2. PICK ch : ch = m_StreamingChannel
  OBVIOUS
<1>3. PICK wanted \in Reads : wanted = [bank |-> req.Bank, part |-> req.Part] /\ wanted = Wanted(r)
  BY <1>1 DEF Wanted, Reads, RequestRecords, Parts
<1>4. /\ m_Requests' = [m_Requests EXCEPT ![at] = r]
      /\ UNCHANGED <<disputed, overwritten>>
      /\ \/ /\ phase' = [phase EXCEPT ![ch] = "waiting"]
            /\ request' = [request EXCEPT ![ch] = wanted]
            /\ status' = [status EXCEPT ![ch] = "SUCCESS"]
            /\ data' = [data EXCEPT ![ch] = Garbage]
            /\ target' = at
            /\ unread' = unread \ {at}
         \/ /\ UNCHANGED <<phase, request, status, data, target>>
            /\ unread' = unread \cup {at}
  BY <1>2, <1>3 DEF AllocateMemoryAndRead, Stream!Accept, Stream!Refuse
<1>5. /\ RequestsFit' /\ m_Requests'[at] = r
      /\ \A j \in Indices \ {at} : m_Requests'[j] = m_Requests[j]
  BY <1>1, <1>4, WriteOne DEF IInv
<1>6. Active' = Active /\ Cardinality(Active)' = Cardinality(Active)
  <2>1. m_Requests'[at].Status # "INACTIVE"
    BY <1>5 DEF Pending
  <2>2. Active' = Active \cup {at}
    BY <1>1, <1>5, <2>1, OneMoreActive
  <2>3. Active' = Active
    BY <1>1, <2>2
  <2> QED
    BY <2>3
<1>7. StreamAgrees'
  BY <1>1, <1>2, <1>4, BuffersDiffer DEF IInv, StreamAgrees, Stream!Phases, Outstanding
<1>8. GhostsTyped'
  BY <1>1, <1>4 DEF IInv, GhostsTyped
<1>9. OneAtATime'
  <2>1. \A i \in Active' : m_Requests'[i].Slot = m_Requests[i].Slot
    BY <1>5, <1>6 DEF Active
  <2> QED
    BY <1>4, <1>6, <2>1, SlotStaysWithOne DEF IInv
<1>10. DeviceWritesALiveBuffer'
  <2>1. CASE UNCHANGED phase
    BY <1>1, <2>1 DEF DeviceWritesALiveBuffer, Outstanding
  <2>2. CASE target' = at /\ request' = [request EXCEPT ![ch] = wanted]
    <3>1. request'[ch] = Wanted(m_Requests'[target'])
      BY <1>2, <1>3, <1>5, <2>2 DEF IInv, StreamAgrees
    <3>2. m_Requests'[target'].Status \in Pending /\ m_Requests'[target'].StreamBuf = Garbage
      BY <1>5, <2>2
    <3> QED
      BY <1>2, <3>1, <3>2 DEF DeviceWritesALiveBuffer, Wanted
  <2> QED
    BY <1>4, <2>1, <2>2
<1>11. PendingRequestHasItsRead'
  <2> SUFFICES ASSUME NEW j \in Indices, m_Requests'[j].Status \in Pending
               PROVE  \/ m_Requests'[j].StreamBuf = Wanted(m_Requests'[j])
                      \/ target' = j /\ Outstanding'
                      \/ j \in unread'
    BY DEF PendingRequestHasItsRead, Outstanding, Wanted
  <2>1. CASE j = at
    <3>1. CASE target' = at /\ phase' = [phase EXCEPT ![ch] = "waiting"]
      <4>1. Outstanding'
        BY <1>2, <3>1 DEF IInv, StreamAgrees, Outstanding
      <4> QED
        BY <2>1, <3>1, <4>1
    <3> QED
      BY <1>4, <2>1, <3>1
  <2>2. CASE j # at
    <3>1. \/ m_Requests[j].StreamBuf = Wanted(m_Requests[j])
          \/ j \in unread
      BY <1>1, <1>5, <2>2 DEF IInv, PendingRequestHasItsRead, Outstanding, Wanted
    <3> QED
      BY <1>4, <1>5, <2>2, <3>1
  <2> QED
    BY <2>1, <2>2
<1> QED
  BY <1>4, <1>5, <1>6, <1>7, <1>8, <1>9, <1>10, <1>11

(* The first read of a request.                                            *)
LEMMA RequestedStep ==
    ASSUME IInv, Service_Requested
    PROVE  IInv'
<1>1. /\ ready /\ m_Requests[at].Status = "REQUESTED"
      /\ NextRequest
      /\ UNCHANGED <<m_RequestCnt, m_NextRequestIdx, m_NextOneSoundReqIdx, slotVars>>
  BY DEF Service_Requested, GoesOn
<1>2. PICK q \in RequestRecords : q = m_Requests[at] /\ RequestFits(q)
  BY <1>1, RequestAt
<1>3. PICK req : req = [q EXCEPT !.Status = "PENDING_READ"]
  OBVIOUS
<1>4. PICK r : r = [req EXCEPT !.StreamBuf = Garbage]
  OBVIOUS
<1>5. /\ r \in RequestRecords /\ r.Status = "PENDING_READ" /\ r.StreamBuf = Garbage
      /\ r.Bank = q.Bank /\ r.Slot = q.Slot /\ r.SoundID = q.SoundID /\ r.Part = q.Part
      /\ req.Bank = r.Bank /\ req.Part = r.Part
  BY <1>2, <1>3, <1>4, BuffersDiffer DEF RequestRecords, States, Pending
<1>6. r.Status \in Pending /\ RequestFits(r)
  BY <1>1, <1>2, <1>5, BuffersDiffer DEF RequestFits, Pending
<1>7. AllocateMemoryAndRead(at, req)
  BY <1>2, <1>3 DEF Service_Requested
<1>8. /\ RequestsFit' /\ StreamAgrees' /\ GhostsTyped' /\ OneAtATime'
      /\ DeviceWritesALiveBuffer' /\ PendingRequestHasItsRead'
      /\ Cardinality(Active)' = Cardinality(Active)
      /\ UNCHANGED <<disputed, overwritten>>
      /\ m_Requests'[at] = r
      /\ \A j \in Indices \ {at} : m_Requests'[j] = m_Requests[j]
  BY <1>1, <1>2, <1>4, <1>5, <1>6, <1>7, AllocateStep
<1>9. CountsFit'
  BY <1>1, <1>8 DEF IInv, CountsFit, RequestCntCoversRequests
<1>10. SlotsTyped' /\ SlotsFit' /\ ServiceAgrees'
  BY <1>1, <1>8, SlotsLeftAlone, NextAgrees DEF IInv
<1>11. HeadersAreIn'
  BY <1>1, <1>5, <1>8 DEF IInv, HeadersAreIn, slotVars
<1> QED
  BY <1>8, <1>9, <1>10, <1>11 DEF IInv

(* The second read of a request for one sound.                             *)
LEMMA HeaderReadStep ==
    ASSUME IInv, Service_HeaderRead
    PROVE  IInv'
<1>1. /\ ready /\ m_Requests[at].Status = "PENDING_READ"
      /\ m_Requests[at].SoundID # -1
      /\ NextRequest
      /\ UNCHANGED <<m_Buffer, m_RequestCnt, m_NextRequestIdx, m_NextOneSoundReqIdx>>
  BY DEF Service_HeaderRead, GoesOn
<1>2. PICK q \in RequestRecords : q = m_Requests[at] /\ RequestFits(q)
  BY <1>1, RequestAt
<1>3. PICK h \in Banks \cup {Garbage} : h = HeaderOf(q.StreamBuf)
  <2>1. q.StreamBuf \in Buffers
    BY <1>1, <1>2, RequestAt DEF Pending
  <2> QED
    BY <2>1, HeaderFacts
<1>4. PICK part : part = IF h = q.Bank THEN q.SoundID ELSE Wild
  OBVIOUS
<1>5. PICK req : req = [q EXCEPT !.Status = "PENDING_LOAD_ONE_SOUND", !.Part = part]
  OBVIOUS
<1>6. PICK r : r = [req EXCEPT !.StreamBuf = Garbage]
  OBVIOUS
<1>7. q.SoundID \in Sounds /\ part \in Parts /\ part \in {q.SoundID, Wild}
  BY <1>1, <1>2, <1>4 DEF RequestRecords, Parts
<1>8. /\ r \in RequestRecords /\ r.Status = "PENDING_LOAD_ONE_SOUND" /\ r.StreamBuf = Garbage
      /\ r.Bank = q.Bank /\ r.Slot = q.Slot /\ r.SoundID = q.SoundID /\ r.Part = part
      /\ req.Bank = r.Bank /\ req.Part = r.Part
  BY <1>2, <1>5, <1>6, <1>7, BuffersDiffer DEF RequestRecords, States, Pending
<1>9. r.Status \in Pending /\ RequestFits(r)
  BY <1>1, <1>2, <1>7, <1>8, BuffersDiffer DEF RequestFits, Pending
<1>10. /\ AllocateMemoryAndRead(at, req)
       /\ m_BankSlots' = [m_BankSlots EXCEPT ![q.Slot] =
              [Bank |-> SND_BANK_UNK, NumSounds |-> -1, Sounds |-> Table(h)]]
       /\ m_BankSlotSound' = [m_BankSlotSound EXCEPT ![q.Slot] = -1]
  BY <1>2, <1>3, <1>4, <1>5 DEF Service_HeaderRead, ReadTheSound
<1>11. /\ RequestsFit' /\ StreamAgrees' /\ GhostsTyped' /\ OneAtATime'
       /\ DeviceWritesALiveBuffer' /\ PendingRequestHasItsRead'
       /\ Cardinality(Active)' = Cardinality(Active)
       /\ UNCHANGED <<disputed, overwritten>>
       /\ m_Requests'[at] = r
       /\ \A j \in Indices \ {at} : m_Requests'[j] = m_Requests[j]
  BY <1>1, <1>2, <1>6, <1>8, <1>9, <1>10, AllocateStep
<1>12. CountsFit'
  BY <1>1, <1>11 DEF IInv, CountsFit, RequestCntCoversRequests
<1>13. ServiceAgrees'
  BY <1>1, NextAgrees
<1>14. PICK slot \in SlotRecords :
          slot = [Bank |-> SND_BANK_UNK, NumSounds |-> -1, Sounds |-> Table(h)]
  BY TableFacts DEF SlotRecords
<1>15. q.Slot \in Slots
  BY <1>1, <1>2, RequestAt
<1>16. /\ SlotsTyped' /\ m_BankSlots'[q.Slot] = slot
       /\ \A s \in Slots \ {q.Slot} : /\ m_BankSlots'[s] = m_BankSlots[s]
                                      /\ m_BankSlotSound'[s] = m_BankSlotSound[s]
  BY <1>1, <1>10, <1>14, <1>15 DEF IInv, SlotsTyped
<1>17. SlotsFit'
  <2>1. ASSUME NEW s \in Slots \ disputed'
        PROVE  SlotFits(m_BankSlots'[s], m_Buffer'[s], m_BankSlotSound'[s])
    <3>1. CASE s = q.Slot
      BY <1>14, <1>16, <3>1 DEF SlotFits
    <3>2. CASE s # q.Slot
      BY <1>1, <1>11, <1>16, <3>2 DEF IInv, SlotsFit
    <3> QED
      BY <3>1, <3>2
  <2> QED
    BY <2>1 DEF SlotsFit
<1>18. HeadersAreIn'
  <2> SUFFICES ASSUME NEW j \in Indices, m_Requests'[j].Status = "PENDING_LOAD_ONE_SOUND",
                      m_Requests'[j].Slot \notin disputed'
               PROVE  HeaderIsIn(m_BankSlots'[m_Requests'[j].Slot], m_Requests'[j])
    BY DEF HeadersAreIn
  <2>1. CASE j = at
    <3>1. part = q.SoundID => h = q.Bank
      BY <1>4, <1>7, PartsDiffer
    <3> QED
      BY <1>8, <1>11, <1>14, <1>16, <2>1, <3>1 DEF HeaderIsIn
  <2>2. CASE j # at
    <3>1. m_Requests'[j] = m_Requests[j] /\ j \in Active /\ m_Requests[j].Slot \in Slots
      BY <1>11, <2>2 DEF IInv, Active, RequestsFit, RequestFits
    <3>2. m_Requests[j].Slot # q.Slot
      BY <1>1, <1>2, <1>11, <2>2, <3>1, RequestAt DEF IInv, OneAtATime
    <3> QED
      BY <1>11, <1>16, <3>1, <3>2 DEF IInv, HeadersAreIn
  <2> QED
    BY <2>1, <2>2
<1> QED
  BY <1>11, <1>12, <1>13, <1>16, <1>17, <1>18 DEF IInv

(* A request is done with.                                                 *)
LEMMA FinishStep ==
    ASSUME IInv, ready,
           m_Requests' = [m_Requests EXCEPT ![at].Status = "INACTIVE", ![at].StreamBuf = Null],
           unread' = unread \ {at}, RequestDone, m_NextOneSoundReqIdx' \in Indices,
           UNCHANGED <<m_NextRequestIdx, streamVars, target, disputed, overwritten>>
    PROVE  /\ RequestsFit' /\ CountsFit' /\ StreamAgrees' /\ GhostsTyped' /\ OneAtATime'
           /\ DeviceWritesALiveBuffer' /\ PendingRequestHasItsRead'
           /\ m_Requests'[at].Status = "INACTIVE"
           /\ \A j \in Indices \ {at} : m_Requests'[j] = m_Requests[j]
<1>1. PICK q \in RequestRecords : q = m_Requests[at] /\ RequestFits(q)
  BY RequestAt
<1>2. at \in Indices /\ at \in Active /\ ~Outstanding
  BY RequestAt
<1>3. PICK r : r = [q EXCEPT !.Status = "INACTIVE", !.StreamBuf = Null]
  OBVIOUS
<1>4. r \in RequestRecords /\ r.Status = "INACTIVE" /\ r.StreamBuf = Null
  BY <1>1, <1>3 DEF RequestRecords, States
<1>5. RequestFits(r)
  BY <1>4 DEF RequestFits, Pending
<1>6. m_Requests' = [m_Requests EXCEPT ![at] = r]
  BY <1>1, <1>2, <1>3 DEF IInv, RequestsFit
<1>7. /\ RequestsFit' /\ m_Requests'[at] = r
      /\ \A j \in Indices \ {at} : m_Requests'[j] = m_Requests[j]
  BY <1>2, <1>4, <1>5, <1>6, WriteOne DEF IInv
<1>8. Active' = Active \ {at} /\ Cardinality(Active)' = Cardinality(Active) - 1
  BY <1>2, <1>4, <1>7, OneLessActive
<1>9. CountsFit'
  <2>1. /\ m_RequestCnt = Cardinality(Active) + overwritten /\ overwritten \in 0 .. MaxOverwritten
        /\ Cardinality(Active) \in Nat /\ MaxOverwritten \in Nat
    BY RingIsFinite, SizeAssumption DEF IInv, CountsFit, RequestCntCoversRequests
  <2>2. m_RequestCnt' = Cardinality(Active)' + overwritten'
    BY <1>8, <2>1 DEF RequestDone
  <2> QED
    BY <2>2 DEF IInv, CountsFit, RequestCntCoversRequests
<1>10. StreamAgrees' /\ ~Outstanding'
  BY <1>2, StreamLeftAlone DEF IInv
<1>11. GhostsTyped'
  BY DEF IInv, GhostsTyped
<1>12. OneAtATime'
  <2>1. \A i \in Active' : m_Requests'[i].Slot = m_Requests[i].Slot
    BY <1>7, <1>8 DEF Active
  <2> QED
    BY <1>8, <2>1, SlotStaysWithOne DEF IInv
<1>13. DeviceWritesALiveBuffer'
  BY <1>10 DEF DeviceWritesALiveBuffer, Outstanding
<1>14. PendingRequestHasItsRead'
  <2> SUFFICES ASSUME NEW j \in Indices, m_Requests'[j].Status \in Pending
               PROVE  \/ m_Requests'[j].StreamBuf = Wanted(m_Requests'[j])
                      \/ j \in unread'
    BY DEF PendingRequestHasItsRead, Wanted
  <2>1. j # at
    BY <1>4, <1>7 DEF Pending
  <2>2. m_Requests[j].StreamBuf = Wanted(m_Requests[j]) \/ j \in unread
    BY <1>2, <1>7, <2>1 DEF IInv, PendingRequestHasItsRead, Outstanding, Wanted
  <2> QED
    BY <1>7, <2>1, <2>2
<1> QED
  BY <1>4, <1>7, <1>9, <1>10, <1>11, <1>12, <1>13, <1>14

(* A slot is written, and the request it was written for is done with.     *)
LEMMA OtherHeadersStay ==
    ASSUME IInv, ready, UNCHANGED disputed, m_Requests'[at].Status = "INACTIVE",
           \A j \in Indices \ {at} : m_Requests'[j] = m_Requests[j],
           \A s \in Slots \ {m_Requests[at].Slot} : m_BankSlots'[s] = m_BankSlots[s]
    PROVE  HeadersAreIn'
<1> SUFFICES ASSUME NEW j \in Indices, m_Requests'[j].Status = "PENDING_LOAD_ONE_SOUND",
                    m_Requests'[j].Slot \notin disputed'
             PROVE  HeaderIsIn(m_BankSlots'[m_Requests'[j].Slot], m_Requests'[j])
  BY DEF HeadersAreIn
<1>1. j # at
  OBVIOUS
<1>2. m_Requests'[j] = m_Requests[j] /\ j \in Active /\ m_Requests[j].Slot \in Slots
  BY <1>1 DEF IInv, Active, RequestsFit, RequestFits
<1>3. m_Requests[j].Slot # m_Requests[at].Slot
  BY <1>1, <1>2, RequestAt DEF IInv, OneAtATime
<1> QED
  BY <1>2, <1>3 DEF IInv, HeadersAreIn

(* A whole bank comes into its slot.                                       *)
LEMMA BankReadStep ==
    ASSUME IInv, Service_BankRead
    PROVE  IInv'
<1>1. /\ ready /\ m_Requests[at].Status = "PENDING_READ" /\ m_Requests[at].SoundID = -1
      /\ m_Requests' = [m_Requests EXCEPT ![at].Status = "INACTIVE", ![at].StreamBuf = Null]
      /\ unread' = unread \ {at} /\ RequestDone /\ NextRequest
      /\ UNCHANGED <<m_NextRequestIdx, m_NextOneSoundReqIdx, streamVars,
                     target, disputed, overwritten>>
  BY DEF Service_BankRead, GoesOn
<1>2. PICK q \in RequestRecords : q = m_Requests[at] /\ RequestFits(q)
  BY <1>1, RequestAt
<1>3. PICK buf \in Buffers : buf = q.StreamBuf /\ buf \in {Garbage, Wanted(q)}
  BY <1>1, <1>2, RequestAt DEF Pending
<1>4. q.Bank \in Banks /\ q.Slot \in Slots /\ q.Part = WholeBank
  BY <1>1, <1>2, RequestAt DEF RequestFits
<1>5. m_NextOneSoundReqIdx' \in Indices
  BY <1>1 DEF IInv, CountsFit
<1>6. /\ RequestsFit' /\ CountsFit' /\ StreamAgrees' /\ GhostsTyped' /\ OneAtATime'
      /\ DeviceWritesALiveBuffer' /\ PendingRequestHasItsRead'
      /\ m_Requests'[at].Status = "INACTIVE"
      /\ \A j \in Indices \ {at} : m_Requests'[j] = m_Requests[j]
  BY <1>1, <1>5, FinishStep
<1>7. ServiceAgrees'
  BY <1>1, NextAgrees
<1>8. PICK slot \in SlotRecords :
         slot = [Bank |-> q.Bank, NumSounds |-> NumSoundsOf(buf), Sounds |-> Table(HeaderOf(buf))]
  BY HeaderFacts, TableFacts DEF SlotRecords, RequestRecords
<1>9. /\ m_BankSlots' = [m_BankSlots EXCEPT ![q.Slot] = slot]
      /\ m_Buffer' = [m_Buffer EXCEPT ![q.Slot] = buf]
      /\ m_BankSlotSound' = [m_BankSlotSound EXCEPT ![q.Slot] = -1]
  BY <1>2, <1>3, <1>8 DEF Service_BankRead
<1>10. /\ SlotsTyped' /\ m_BankSlots'[q.Slot] = slot /\ m_Buffer'[q.Slot] = buf
       /\ \A s \in Slots \ {q.Slot} : /\ m_BankSlots'[s] = m_BankSlots[s]
                                      /\ m_Buffer'[s] = m_Buffer[s]
                                      /\ m_BankSlotSound'[s] = m_BankSlotSound[s]
  BY <1>4, <1>9 DEF IInv, SlotsTyped
<1>11. HoldsBank(slot, buf)
  BY <1>3, <1>4, <1>8 DEF HoldsBank, Wanted
<1>12. SlotsFit'
  <2>1. ASSUME NEW s \in Slots \ disputed'
        PROVE  SlotFits(m_BankSlots'[s], m_Buffer'[s], m_BankSlotSound'[s])
    <3>1. CASE s = q.Slot
      BY <1>10, <1>11, <3>1 DEF SlotFits
    <3>2. CASE s # q.Slot
      BY <1>1, <1>10, <3>2 DEF IInv, SlotsFit
    <3> QED
      BY <3>1, <3>2
  <2> QED
    BY <2>1 DEF SlotsFit
<1>13. HeadersAreIn'
  BY <1>1, <1>2, <1>6, <1>10, OtherHeadersStay
<1> QED
  BY <1>6, <1>7, <1>10, <1>12, <1>13 DEF IInv

(* One sound comes into its slot, which has the header already.            *)
LEMMA SoundReadStep ==
    ASSUME IInv, Service_SoundRead
    PROVE  IInv'
<1>1. /\ ready /\ m_Requests[at].Status = "PENDING_LOAD_ONE_SOUND"
      /\ m_Requests' = [m_Requests EXCEPT ![at].Status = "INACTIVE", ![at].StreamBuf = Null]
      /\ unread' = unread \ {at} /\ RequestDone /\ NextRequest
      /\ m_NextOneSoundReqIdx' = IF m_NextOneSoundReqIdx = at
                                 THEN NextIndex(at) ELSE m_NextOneSoundReqIdx
      /\ UNCHANGED <<m_NextRequestIdx, streamVars, target, disputed, overwritten>>
  BY DEF Service_SoundRead, GoesOn
<1>2. PICK q \in RequestRecords : q = m_Requests[at] /\ RequestFits(q)
  BY <1>1, RequestAt
<1>3. PICK buf \in Buffers : buf = q.StreamBuf /\ buf \in {Garbage, Wanted(q)}
  BY <1>1, <1>2, RequestAt DEF Pending
<1>4. /\ q.Bank \in Banks /\ q.Slot \in Slots
      /\ q.SoundID \in Sounds /\ q.Part \in {q.SoundID, Wild}
  BY <1>1, <1>2, RequestAt DEF RequestFits
<1>5. m_NextOneSoundReqIdx' \in Indices
  BY <1>1, RequestAt, NextIndexStays DEF IInv, CountsFit
<1>6. /\ RequestsFit' /\ CountsFit' /\ StreamAgrees' /\ GhostsTyped' /\ OneAtATime'
      /\ DeviceWritesALiveBuffer' /\ PendingRequestHasItsRead'
      /\ m_Requests'[at].Status = "INACTIVE"
      /\ \A j \in Indices \ {at} : m_Requests'[j] = m_Requests[j]
  BY <1>1, <1>5, FinishStep
<1>7. ServiceAgrees'
  BY <1>1, NextAgrees
<1>8. PICK old \in SlotRecords : old = m_BankSlots[q.Slot]
  BY <1>4 DEF IInv, SlotsTyped
<1>9. PICK tab \in Tables : tab = WithOneSound(old.Sounds, q.SoundID)
  BY <1>4, <1>8, OneSoundFacts DEF SlotRecords
<1>10. PICK slot \in SlotRecords : slot = [old EXCEPT !.Bank = q.Bank, !.Sounds = tab]
  BY <1>4, <1>8 DEF SlotRecords
<1>11. /\ m_BankSlots' = [m_BankSlots EXCEPT ![q.Slot] = slot]
       /\ m_Buffer' = [m_Buffer EXCEPT ![q.Slot] = buf]
       /\ m_BankSlotSound' = [m_BankSlotSound EXCEPT ![q.Slot] = q.SoundID]
  <2>1. m_BankSlots' = [m_BankSlots EXCEPT ![q.Slot].Bank = q.Bank,
                               ![q.Slot].Sounds = WithOneSound(@, q.SoundID)]
    BY <1>2 DEF Service_SoundRead
  <2>2. m_BankSlots' = [m_BankSlots EXCEPT ![q.Slot] = slot]
    BY <1>4, <1>8, <1>9, <1>10, <2>1 DEF IInv, SlotsTyped, SlotRecords
  <2> QED
    BY <1>2, <1>3, <2>2 DEF Service_SoundRead
<1>12. /\ SlotsTyped' /\ m_BankSlots'[q.Slot] = slot /\ m_Buffer'[q.Slot] = buf
       /\ m_BankSlotSound'[q.Slot] = q.SoundID
       /\ \A s \in Slots \ {q.Slot} : /\ m_BankSlots'[s] = m_BankSlots[s]
                                      /\ m_Buffer'[s] = m_Buffer[s]
                                      /\ m_BankSlotSound'[s] = m_BankSlotSound[s]
  BY <1>4, <1>11 DEF IInv, SlotsTyped
<1>13. ASSUME q.Slot \notin disputed
       PROVE  HoldsSound(slot, buf, q.SoundID)
  <2>1. HeaderIsIn(old, q)
    BY <1>1, <1>2, <1>8, <1>13, RequestAt DEF IInv, HeadersAreIn
  <2>2. slot.NumSounds = -1 /\ slot.Bank = q.Bank /\ slot.Sounds = tab
    BY <1>10, <2>1 DEF HeaderIsIn, SlotRecords
  <2>3. q.Part = q.SoundID => slot.Sounds = WithOneSound(Table(q.Bank), q.SoundID)
    BY <1>9, <2>1, <2>2 DEF HeaderIsIn
  <2> QED
    BY <1>3, <1>4, <2>2, <2>3 DEF HoldsSound, Wanted
<1>14. SlotsFit'
  <2>1. ASSUME NEW s \in Slots \ disputed'
        PROVE  SlotFits(m_BankSlots'[s], m_Buffer'[s], m_BankSlotSound'[s])
    <3>1. CASE s = q.Slot
      BY <1>1, <1>12, <1>13, <3>1 DEF SlotFits
    <3>2. CASE s # q.Slot
      BY <1>1, <1>12, <3>2 DEF IInv, SlotsFit
    <3> QED
      BY <3>1, <3>2
  <2> QED
    BY <2>1 DEF SlotsFit
<1>15. HeadersAreIn'
  BY <1>1, <1>2, <1>6, <1>12, OtherHeadersStay
<1> QED
  BY <1>6, <1>7, <1>12, <1>14, <1>15 DEF IInv

-----------------------------------------------------------------------------
(***************************************************************************)
(* The streaming thread.                                                   *)
(***************************************************************************)
(* It carries a read out, successfully or not, or changes its phase only.  *)
LEMMA StreamingCases ==
    ASSUME StreamAgrees, Streaming
    PROVE  \/ /\ UNCHANGED <<request, status, data, m_Requests, unread>>
              /\ phase' \in [{m_StreamingChannel} -> Stream!Phases]
              /\ Outstanding' <=> Outstanding
           \/ /\ Outstanding /\ ~Outstanding'
              /\ phase' \in [{m_StreamingChannel} -> Stream!Phases]
              /\ UNCHANGED request
              /\ \/ /\ UNCHANGED <<status, unread>>
                    /\ data' = [data EXCEPT ![m_StreamingChannel] = request[m_StreamingChannel]]
                    /\ m_Requests' = IF target = Leaked THEN m_Requests
                                     ELSE [m_Requests EXCEPT ![target].StreamBuf =
                                               request[m_StreamingChannel]]
                 \/ /\ UNCHANGED <<data, m_Requests>>
                    /\ status' = [status EXCEPT ![m_StreamingChannel] = "READING_FAILURE"]
                    /\ unread' = IF target = Leaked THEN unread ELSE unread \cup {target}
<1>1. PICK ch : ch = m_StreamingChannel
  OBVIOUS
<1>2. /\ m_Requests' = IF data'[ch] # data[ch] /\ target # Leaked
                       THEN [m_Requests EXCEPT ![target].StreamBuf = data'[ch]]
                       ELSE m_Requests
      /\ unread' = IF status'[ch] # status[ch] /\ target # Leaked
                   THEN unread \cup {target} ELSE unread
      /\ Stream!Start(ch) \/ Stream!Complete(ch) \/ Stream!Settle(ch)
  BY <1>1 DEF Streaming, Stream!Progress
<1>3. CASE Stream!Start(ch)
  BY <1>1, <1>2, <1>3 DEF Stream!Start, StreamAgrees, Stream!Phases, Outstanding
<1>4. CASE Stream!Settle(ch)
  BY <1>1, <1>2, <1>4 DEF Stream!Settle, StreamAgrees, Stream!Phases, Outstanding
<1>5. CASE Stream!Complete(ch)
  <2>1. /\ Outstanding /\ ~Outstanding'
        /\ phase' \in [{ch} -> Stream!Phases]
        /\ UNCHANGED request
    BY <1>1, <1>5 DEF Stream!Complete, StreamAgrees, Stream!Phases, Outstanding
  <2>2. request[ch] \in Reads /\ data[ch] = Garbage /\ status[ch] = "SUCCESS"
    BY <1>1, <2>1 DEF StreamAgrees
  <2>3. CASE data' = [data EXCEPT ![ch] = request[ch]] /\ UNCHANGED status
    <3>1. data'[ch] = request[ch] /\ data'[ch] # data[ch]
      BY <1>1, <2>2, <2>3, BuffersDiffer DEF StreamAgrees
    <3> QED
      BY <1>1, <1>2, <2>1, <2>3, <3>1
  <2>4. CASE status' = [status EXCEPT ![ch] = "READING_FAILURE"] /\ UNCHANGED data
    <3>1. status'[ch] # status[ch]
      BY <1>1, <2>2, <2>4 DEF StreamAgrees
    <3> QED
      BY <1>1, <1>2, <2>1, <2>4, <3>1
  <2> QED
    BY <1>5, <2>3, <2>4 DEF Stream!Complete
<1> QED
  BY <1>2, <1>3, <1>4, <1>5

(* What is read goes to the request that waits for it.                     *)
LEMMA StreamingStep ==
    ASSUME IInv, Streaming
    PROVE  IInv'
<1>1. UNCHANGED <<m_RequestCnt, m_NextRequestIdx, m_NextOneSoundReqIdx, slotVars,
                  at, ready, target, disputed, overwritten>>
  BY DEF Streaming
<1>2. SlotsTyped' /\ SlotsFit'
  BY <1>1, SlotsLeftAlone DEF IInv
<1>3. PICK ch : ch = m_StreamingChannel
  OBVIOUS
<1>4. ASSUME UNCHANGED m_Requests
      PROVE  /\ RequestsFit' /\ CountsFit' /\ OneAtATime' /\ HeadersAreIn'
             /\ Active' = Active
  BY <1>1, <1>4 DEF IInv, slotVars, RequestsFit, CountsFit, RequestCntCoversRequests,
                    Active, OneAtATime, HeadersAreIn
<1>5. ASSUME Active' = Active, Outstanding' => Outstanding
      PROVE  ServiceAgrees'
  BY <1>1, <1>5 DEF IInv, ServiceAgrees
<1>6. CASE /\ UNCHANGED <<request, status, data, m_Requests, unread>>
           /\ phase' \in [{m_StreamingChannel} -> Stream!Phases]
           /\ Outstanding' <=> Outstanding
  <2>1. StreamAgrees' /\ GhostsTyped' /\ ServiceAgrees'
    BY <1>1, <1>4, <1>5, <1>6 DEF IInv, StreamAgrees, GhostsTyped
  <2>2. DeviceWritesALiveBuffer' /\ PendingRequestHasItsRead'
    BY <1>1, <1>6 DEF IInv, DeviceWritesALiveBuffer, PendingRequestHasItsRead, Outstanding
  <2> QED
    BY <1>2, <1>4, <1>6, <2>1, <2>2 DEF IInv
<1>7. CASE /\ Outstanding /\ ~Outstanding'
           /\ phase' \in [{m_StreamingChannel} -> Stream!Phases]
           /\ UNCHANGED <<request, data, m_Requests>>
           /\ status' = [status EXCEPT ![m_StreamingChannel] = "READING_FAILURE"]
           /\ unread' = IF target = Leaked THEN unread ELSE unread \cup {target}
  <2>1. StreamAgrees' /\ GhostsTyped' /\ ServiceAgrees'
    BY <1>1, <1>4, <1>5, <1>7 DEF IInv, StreamAgrees, GhostsTyped
  <2>2. DeviceWritesALiveBuffer'
    BY <1>7 DEF DeviceWritesALiveBuffer, Outstanding
  <2>3. PendingRequestHasItsRead'
    <3>1. Leaked \notin Indices
      BY SizeAssumption DEF Leaked, Indices
    <3> QED
      BY <1>7, <3>1 DEF IInv, PendingRequestHasItsRead
  <2> QED
    BY <1>2, <1>4, <1>7, <2>1, <2>2, <2>3 DEF IInv
<1>8. CASE /\ Outstanding /\ ~Outstanding'
           /\ phase' \in [{m_StreamingChannel} -> Stream!Phases]
           /\ UNCHANGED <<request, status, unread>>
           /\ data' = [data EXCEPT ![m_StreamingChannel] = request[m_StreamingChannel]]
           /\ m_Requests' = IF target = Leaked THEN m_Requests
                            ELSE [m_Requests EXCEPT ![target].StreamBuf =
                                      request[m_StreamingChannel]]
  <2>1. request[ch] \in Reads /\ Reads \subseteq Buffers
    BY <1>3, <1>8, BuffersDiffer DEF IInv, StreamAgrees
  <2>2. StreamAgrees' /\ GhostsTyped'
    BY <1>1, <1>3, <1>8, <2>1 DEF IInv, StreamAgrees, GhostsTyped
  <2>3. DeviceWritesALiveBuffer'
    BY <1>8 DEF DeviceWritesALiveBuffer, Outstanding
  <2>4. Leaked \notin Indices
    BY SizeAssumption DEF Leaked, Indices
  <2>5. CASE target = Leaked
    <3>1. PendingRequestHasItsRead'
      BY <1>8, <2>4, <2>5 DEF IInv, PendingRequestHasItsRead
    <3> QED
      BY <1>2, <1>4, <1>5, <1>8, <2>2, <2>3, <2>5, <3>1 DEF IInv
  <2>6. CASE target # Leaked
    <3>1. PICK i \in Indices : i = target
      BY <2>6 DEF IInv, GhostsTyped
    <3>2. PICK q \in RequestRecords : q = m_Requests[i] /\ RequestFits(q)
      BY <3>1 DEF IInv, RequestsFit
    <3>3. q.Status \in Pending /\ request[ch] = Wanted(q)
      BY <1>3, <1>8, <2>6, <3>1, <3>2 DEF IInv, DeviceWritesALiveBuffer, Outstanding, Wanted
    <3>4. PICK r : r = [q EXCEPT !.StreamBuf = request[ch]]
      OBVIOUS
    <3>5. /\ r \in RequestRecords /\ r.StreamBuf = Wanted(r) /\ r.StreamBuf \in Reads
          /\ r.Status = q.Status /\ r.Bank = q.Bank /\ r.Slot = q.Slot
          /\ r.SoundID = q.SoundID /\ r.Part = q.Part
      BY <2>1, <3>2, <3>3, <3>4 DEF RequestRecords, Wanted
    <3>6. RequestFits(r)
      BY <2>1, <3>2, <3>3, <3>5, BuffersDiffer DEF RequestFits
    <3>7. m_Requests' = [m_Requests EXCEPT ![i] = r]
      BY <1>3, <1>8, <2>6, <3>1, <3>2, <3>4 DEF IInv, RequestsFit
    <3>8. /\ RequestsFit' /\ m_Requests'[i] = r
          /\ \A j \in Indices \ {i} : m_Requests'[j] = m_Requests[j]
      BY <3>5, <3>6, <3>7, WriteOne DEF IInv
    <3>9. \A j \in Indices : /\ m_Requests'[j].Status = m_Requests[j].Status
                             /\ m_Requests'[j].Slot = m_Requests[j].Slot
                             /\ m_Requests'[j].Bank = m_Requests[j].Bank
                             /\ m_Requests'[j].SoundID = m_Requests[j].SoundID
                             /\ m_Requests'[j].Part = m_Requests[j].Part
      BY <3>2, <3>5, <3>8
    <3>10. Active' = Active
      BY <3>9 DEF Active
    <3>11. CountsFit' /\ ServiceAgrees'
      BY <1>1, <1>5, <1>8, <3>10 DEF IInv, CountsFit, RequestCntCoversRequests
    <3>12. OneAtATime'
      BY <1>1, <3>9, <3>10, SlotStaysWithOne DEF IInv, Active
    <3>13. HeadersAreIn'
      BY <1>1, <3>9 DEF IInv, HeadersAreIn, HeaderIsIn, slotVars
    <3>14. PendingRequestHasItsRead'
      <4> SUFFICES ASSUME NEW j \in Indices, m_Requests'[j].Status \in Pending
                   PROVE  \/ m_Requests'[j].StreamBuf = Wanted(m_Requests'[j])
                          \/ j \in unread'
        BY DEF PendingRequestHasItsRead, Wanted
      <4>1. CASE j = i
        BY <3>5, <3>8, <4>1
      <4>2. CASE j # i
        BY <1>8, <3>1, <3>8, <4>2 DEF IInv, PendingRequestHasItsRead, Wanted
      <4> QED
        BY <4>1, <4>2
    <3> QED
      BY <1>2, <2>2, <2>3, <3>8, <3>11, <3>12, <3>13, <3>14 DEF IInv
  <2> QED
    BY <2>5, <2>6
<1>9. StreamAgrees
  BY DEF IInv
<1> QED
  BY <1>6, <1>7, <1>8, <1>9, StreamingCases

-----------------------------------------------------------------------------
(***************************************************************************)
(* The theorems.                                                           *)
(***************************************************************************)
(* It holds at the start.                                                  *)
LEMMA IInvInit ==
    ASSUME Init
    PROVE  IInv
<1>1. 0 \in Indices /\ 0 \in 0 .. MaxOverwritten /\ Idle \notin Indices
  BY SizeAssumption DEF Indices, Idle
<1>2. m_Requests = [i \in Indices |-> NoRequest] /\ NoRequest.Status = "INACTIVE"
  BY DEF Init, NoRequest
<1>3. NoRequest \in RequestRecords /\ RequestFits(NoRequest)
  BY DEF NoRequest, RequestRecords, RequestFits, States, Pending, Parts
<1>4. RequestsFit
  BY <1>2, <1>3 DEF RequestsFit
<1>5. \A i \in Indices : m_Requests[i].Status = "INACTIVE"
  BY <1>2
<1>6. Active = {}
  BY <1>5 DEF Active
<1>7. CountsFit
  BY <1>1, <1>6, FS_EmptySet DEF Init, CountsFit, RequestCntCoversRequests
<1>8. SlotsTyped
  <2>1. [Bank |-> SND_BANK_UNK, NumSounds |-> 0, Sounds |-> Table(Garbage)] \in SlotRecords
    BY TableFacts DEF SlotRecords
  <2>2. \A c \in Callers : c.sound \in Sounds \cup {-1}
    BY NamesAssumption DEF AskedFor
  <2> QED
    BY <2>1, <2>2, BuffersDiffer DEF Init, SlotsTyped
<1>9. StreamAgrees /\ ~Outstanding
  BY BuffersDiffer DEF Init, Stream!Init, StreamAgrees, Stream!Phases, Outstanding
<1>10. ServiceAgrees /\ GhostsTyped
  BY DEF Init, ServiceAgrees, GhostsTyped
<1>11. DeviceWritesALiveBuffer /\ PendingRequestHasItsRead /\ OneAtATime /\ HeadersAreIn
  BY <1>5, <1>6, <1>9 DEF DeviceWritesALiveBuffer, PendingRequestHasItsRead, OneAtATime,
                          HeadersAreIn, Outstanding, Pending
<1>12. SlotsFit
  BY DEF Init, SlotsFit, SlotFits
<1> QED
  BY <1>4, <1>7, <1>8, <1>9, <1>10, <1>11, <1>12 DEF IInv

(* The invariant is inductive.                                             *)
LEMMA IInvStep ==
    ASSUME IInv, [Next]_vars
    PROVE  IInv'
<1>1. CASE Next
  BY <1>1, AddRequestStep, LooksStep, RequestedStep, HeaderReadStep, BankReadStep,
     SoundReadStep, StreamingStep DEF Next, Ask, LoadSoundBank, LoadSound, ServiceStep
<1>2. CASE UNCHANGED vars
  <2>1. UNCHANGED <<loaderVars, slotVars, at, ready, streamVars, ghostVars>>
    BY <1>2 DEF vars
  <2>2. RequestsFit' /\ CountsFit' /\ GhostsTyped' /\ OneAtATime' /\ HeadersAreIn'
    BY <2>1 DEF IInv, loaderVars, slotVars, ghostVars, RequestsFit, CountsFit,
                RequestCntCoversRequests, Active, GhostsTyped, OneAtATime, HeadersAreIn
  <2>3. SlotsTyped' /\ SlotsFit' /\ StreamAgrees' /\ (Outstanding' <=> Outstanding)
    BY <2>1, SlotsLeftAlone, StreamLeftAlone DEF IInv, ghostVars
  <2>4. ServiceAgrees'
    BY <2>1, <2>3 DEF IInv, ServiceAgrees, loaderVars, Active
  <2>5. DeviceWritesALiveBuffer' /\ PendingRequestHasItsRead'
    BY <2>1 DEF IInv, loaderVars, streamVars, ghostVars, DeviceWritesALiveBuffer,
                PendingRequestHasItsRead
  <2> QED
    BY <2>2, <2>3, <2>4, <2>5 DEF IInv
<1> QED
  BY <1>1, <1>2

(* The inductive invariant (see the beginning of this module).             *)
THEOREM InvariantHolds == Spec => []IInv
<1>1. Init => IInv
  BY IInvInit
<1>2. IInv /\ [Next]_vars => IInv'
  BY IInvStep
<1> QED
  BY <1>1, <1>2, PTL DEF Spec

(* Types hold, and the count of requests is that of the ring               *)
(* (AEMP3BankLoader.cpp:187): it covers the active ones, and never falls   *)
(* below zero.                                                             *)
THEOREM BooksHold == Spec => []BooksAgree
<1>1. IInv => BooksAgree
  BY IInvPromises
<1> QED
  BY <1>1, InvariantHolds, PTL

(* The streaming thread never writes to a buffer that Service has freed.   *)
THEOREM BuffersLive == Spec => []DeviceWritesALiveBuffer
<1>1. IInv => DeviceWritesALiveBuffer
  BY DEF IInv
<1> QED
  BY <1>1, InvariantHolds, PTL

(* No read is forgotten.                                                   *)
THEOREM ReadsAreRemembered == Spec => []PendingRequestHasItsRead
<1>1. IInv => PendingRequestHasItsRead
  BY DEF IInv
<1> QED
  BY <1>1, InvariantHolds, PTL

(* A slot for which no two requests were active at once plays the bank it  *)
(* says it has, although all requests share one stream.                    *)
THEOREM SlotsPlayTheirBanks == Spec => []SlotPlaysItsBank
<1>1. IInv => SlotPlaysItsBank
  BY IInvPromises
<1> QED
  BY <1>1, InvariantHolds, PTL
=============================================================================
