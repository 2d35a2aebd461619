----------------------------- MODULE LiveWorld -----------------------------
(***************************************************************************)
(* The world shown by the Linux build in a new game: struct LiveWorld and  *)
(* the frame loop of source/app/platform/linux/Realtime.cpp, PublishWorld  *)
(* and AdoptLiveWorld of RealtimeScriptHost.cpp, and the residency of the  *)
(* car generators (NativeCarGeneratorResidency.cpp), with the worker of    *)
(* RealtimeWorker beside them.                                             *)
(*                                                                         *)
(* A world is published in two ways.  Advance builds one around the camera *)
(* when it has moved; a script may ask for one anywhere (LOAD_SCENE), and  *)
(* then polls until its transaction is Committed.  Each world is a pair of *)
(* a CPU part, built and destroyed by the worker, and a GPU part, uploaded *)
(* and deleted here, a few milliseconds per frame.                         *)
(*                                                                         *)
(* pc is the place of the main thread.  A step makes at most one call to   *)
(* the worker, so the worker may run between any two of them, and at most  *)
(* one step of the transaction, for which its abstract specification       *)
(* stands (NativeScriptServiceTransactionProofs!PhasesImplemented).        *)
(* Two centers are at least 40 metres apart.                               *)
(***************************************************************************)
EXTENDS RealtimeWorker, FiniteSets

CONSTANTS Origin,       \* where the game begins, one of Centers
          NoIdentity,
          MaxMoves,     \* bound: how often the camera moves
          MaxCalls,     \* bound: services that scripts ask for
          MaxPopulation \* bound: vehicle models the traffic asks for

VARIABLES
    pc,
    active, pending,    \* worlds
    retiring,           \* the GPU part of the world shown before
    packet,             \* a world just taken, to be discarded
    scriptWorldPending,
    phase, identity,    \* m_WorldTransaction; m_PendingLoad is set with it
    publication,        \* m_Publication; its Generation is m_WorldRevision
    saved,              \* m_PendingWorldPublication
    residency,          \* m_CarGeneratorResidency
    wait,               \* what the script polls for, its world excepted
    asset,              \* m_PendingModel and m_PendingTexture: tickets
    populationVehicle,
    center,             \* of the camera
    spent               \* how much of each bound

worldVars  == <<active, pending, retiring, packet, scriptWorldPending>>
txnVars    == <<phase, identity>>
hostVars   == <<publication, saved, residency>>
scriptVars == <<wait, asset, populationVehicle>>
boundVars  == <<center, spent>>

liveVars == <<vars, pc, worldVars, txnVars, hostVars, scriptVars, boundVars>>

Txn == INSTANCE NativeScriptServicePhases WITH Identities <- Centers

\* How much of a GPU part there is; see Uploaded and Deleted
GpuParts == {"None", "Part", "Whole", "Torn", "Ruined"}

CpuWorlds      == [Position : Centers, Generation : Nat]
ResidentWorlds == [Position : Centers, Generation : Nat, Gpu : GpuParts]

ASSUME LiveAssumption ==
    /\ Origin \in Centers /\ NoIdentity \notin Centers
    /\ MaxMoves \in Nat /\ MaxCalls \in Nat /\ MaxPopulation \in Nat
    /\ NoWorld \notin CpuWorlds \cup ResidentWorlds

Cpu(w) == [Position |-> w.Position, Generation |-> w.Generation]
Resident(w, gpu) ==
    [Position |-> w.Position, Generation |-> w.Generation, Gpu |-> gpu]
NoVehicle == [Ticket |-> 0, Admitted |-> FALSE]

LiveInit ==
    /\ Init
    /\ pc = "Frame"
    /\ center = Origin /\ world.Center = Origin
    /\ active = [Position |-> center, Generation |-> 1, Gpu |-> "Whole"]
    /\ pending = NoWorld /\ packet = NoWorld
    /\ retiring = "None" /\ scriptWorldPending = FALSE
    /\ Txn!Init
    /\ publication = Cpu(active) /\ saved = NoWorld
    /\ residency = [Attempt |-> 1, Snapshot |-> "Host", Generation |-> 1,
                    Obligations |-> "None"]
    /\ wait = "None" /\ asset = [k \in Kinds |-> 0]
    /\ populationVehicle = NoVehicle
    /\ spent = [Moves |-> 0, Calls |-> 0, Population |-> 0]

Faults == {"WorldError", "UploadError", "AssetError", "CommitRefused",
           "AdoptRefused", "Stale", "AdmissionRefused", "ResidencyError"}

-----------------------------------------------------------------------------
(* The GPU part.  Textures and lists come one by one and go one by one; a  *)
(* world of which some are gone is "Torn", or "Ruined" if `complete` was   *)
(* set, which RetireStep leaves.                                           *)

Complete(w) == w.Gpu \in {"Whole", "Ruined"}

\* After UploadStep: a world takes two of them at most
Uploaded(gpu) ==
    CASE gpu = "None"              -> {"Part", "Whole"}
      [] gpu \in {"Part", "Whole"} -> {"Whole"}
      [] OTHER                     -> {"Ruined"}

\* After RetireStep: "None" when all is deleted
Deleted(gpu) ==
    CASE gpu = "Part"  -> {"Torn", "None"}
      [] gpu = "Whole" -> {"Ruined", "None"}
      [] OTHER         -> {"None"}

(* The car generators: an attempt is tied to a generation and to the very  *)
(* object that holds its collision.  What leaves with the old world has to *)
(* be cleaned up first; only the main loop can say that it has been.       *)

Results == {"Ready", "PendingCleanup", "Error"}

Reconcile(generation, snapshot, cleanup, result) ==
    LET again == generation = residency.Attempt IN
    IF generation < residency.Attempt \/ (again /\ snapshot # residency.Snapshot)
    THEN result = "Error" /\ UNCHANGED residency
    ELSE \E obligations \in IF again THEN {residency.Obligations}
                            ELSE {"None", "Generators", "Vehicle"} :
        LET done == \/ generation = residency.Generation
                    \/ obligations = "None"
                    \/ cleanup /\ obligations = "Generators"
        IN /\ result = IF done THEN "Ready" ELSE "PendingCleanup"
           /\ residency' = [Attempt |-> generation, Snapshot |-> snapshot,
                  Obligations |-> obligations,
                  Generation |-> IF done THEN generation ELSE residency.Generation]

\* The last vehicle of the generators that leave is removed from the pool
VehicleLeaves ==
    /\ residency.Obligations = "Vehicle"
    /\ residency' = [residency EXCEPT !.Obligations = "Generators"]
    /\ UNCHANGED <<vars, pc, worldVars, txnVars, publication, saved, scriptVars, boundVars>>

-----------------------------------------------------------------------------
(* CommitScriptWorld: what the host has published becomes what is shown *)

Staged ==
    /\ pending # NoWorld /\ retiring = "None"
    /\ Complete(pending)
    /\ pending.Generation = publication.Generation
    /\ pending.Generation > active.Generation
    /\ pending.Position = publication.Position

\* active.swap(pending), and the old world is given up
Swap ==
    /\ active' = pending
    /\ pending' = NoWorld
    /\ retiring' = active.Gpu
    /\ Retire(Cpu(active))

\* Mutant: the frame loop goes on waiting for the scripts
CommitScriptWorld_StaysPending == Staged /\ Swap /\ UNCHANGED scriptWorldPending

CommitScriptWorld == Staged /\ Swap /\ scriptWorldPending' = FALSE

\* CancelScriptWorld: the callback m_Cancel of PublishWorld
CancelScriptWorld ==
    /\ IF scriptWorldPending /\ pending # NoWorld
       THEN /\ retiring' = pending.Gpu
            /\ pending' = NoWorld
            /\ Retire(Cpu(pending))
       ELSE UNCHANGED <<vars, pending, retiring>>
    /\ scriptWorldPending' = FALSE
    /\ UNCHANGED <<active, packet>>

-----------------------------------------------------------------------------
(* PublishWorld, and its loader PrepareScriptWorld *)

\* MarkPending, and the pass is over
Wait ==
    /\ Txn!Wait
    /\ pc' = "Pending"

\* releaseFailure, up to the Fail: the script faults, and the program ends
Fail(fault) ==
    /\ Txn!Fail
    /\ pc' = fault

\* Two services in one pass: the world of the first is shown before the
\* second may replace it
Prepare ==
    /\ pc = "Prepare"
    /\ IF publication.Generation > active.Generation
       THEN IF Staged THEN CommitScriptWorld /\ Wait /\ UNCHANGED packet
            ELSE Fail("CommitRefused") /\ UNCHANGED <<vars, worldVars>>
       ELSE /\ IF retiring # "None" THEN Wait
               ELSE UNCHANGED txnVars /\ pc' = "Superseded"
            /\ UNCHANGED <<vars, worldVars>>
    /\ UNCHANGED <<hostVars, scriptVars, boundVars>>

\* A normal upload of another center goes first; one of this center is used
Supersede ==
    /\ pc = "Superseded"
    /\ IF pending # NoWorld /\ pending.Position # identity
       THEN \E gpu \in Deleted(pending.Gpu) :
                IF gpu # "None"
                THEN /\ pending' = Resident(pending, gpu)
                     /\ Wait
                     /\ UNCHANGED vars
                ELSE /\ Discard(Cpu(pending))
                     /\ pending' = NoWorld
                     /\ pc' = "TakeScript"
                     /\ UNCHANGED txnVars
       ELSE /\ pc' = IF pending = NoWorld THEN "TakeScript" ELSE "Upload"
            /\ UNCHANGED <<vars, pending, txnVars>>
    /\ UNCHANGED <<active, retiring, packet, scriptWorldPending, hostVars,
                   scriptVars, boundVars>>

TakeScript ==
    /\ pc = "TakeScript"
    /\ IF world.Ready = NoWorld
       THEN pc' = "Request" /\ UNCHANGED <<vars, pending, packet>>
       ELSE /\ TakeReady
            /\ IF ~world.Ready.Error /\ world.Ready.Position = identity
               THEN /\ pending' = Resident(world.Ready, "None")
                    /\ pc' = "Satisfied"
                    /\ UNCHANGED packet
               ELSE /\ packet' = world.Ready
                    /\ pc' = "Discard"
                    /\ UNCHANGED pending
    /\ UNCHANGED <<active, retiring, scriptWorldPending, txnVars, hostVars,
                   scriptVars, boundVars>>

DiscardPacket ==
    /\ pc = "Discard"
    /\ Discard(Cpu(packet))
    /\ packet' = NoWorld
    /\ IF packet.Error
       THEN scriptWorldPending' = FALSE /\ Fail("WorldError")
       ELSE pc' = "Request" /\ UNCHANGED <<scriptWorldPending, txnVars>>
    /\ UNCHANGED <<active, pending, retiring, hostVars, scriptVars, boundVars>>

RequestScript ==
    /\ pc = "Request"
    /\ Request(identity, TRUE)
    /\ scriptWorldPending' = TRUE
    /\ Wait
    /\ UNCHANGED <<active, pending, retiring, packet, hostVars, scriptVars, boundVars>>

\* The request is taken back: it was repeated while the world was built
Satisfy ==
    /\ pc = "Satisfied"
    /\ Request(pending.Position, FALSE)
    /\ pc' = "Upload"
    /\ UNCHANGED <<worldVars, txnVars, hostVars, scriptVars, boundVars>>

\* Mutant: prepared before the upload is complete
UploadScript_AtOnce ==
    /\ pc = "Upload"
    /\ scriptWorldPending' = TRUE
    /\ \E gpu \in Uploaded(pending.Gpu) : pending' = Resident(pending, gpu)
    /\ Txn!Prepare /\ pc' = "Publish"
    /\ UNCHANGED <<vars, active, retiring, packet, hostVars, scriptVars, boundVars>>

UploadScript ==
    /\ pc = "Upload"
    /\ scriptWorldPending' = TRUE
    /\ \/ Fail("UploadError") /\ UNCHANGED pending
       \/ \E gpu \in Uploaded(pending.Gpu) :
              /\ pending' = Resident(pending, gpu)
              /\ IF Complete(pending') THEN Txn!Prepare /\ pc' = "Publish" ELSE Wait
    /\ UNCHANGED <<vars, active, retiring, packet, hostVars, scriptVars, boundVars>>

\* What is to be published: the staged world, or what was saved of it
Candidate == IF saved # NoWorld THEN saved ELSE Cpu(pending)

StaleCandidate == Candidate.Generation <= publication.Generation

\* The rest of PublishWorld, after the transaction is Prepared
Publish ==
    /\ pc = "Publish"
    /\ \E result \in Results :
        /\ IF StaleCandidate THEN result = "Error" /\ UNCHANGED residency
           ELSE Reconcile(Candidate.Generation, "Host", FALSE, result)
        /\ CASE result = "PendingCleanup" ->
                    /\ saved' = Candidate
                    /\ pc' = "Pending"
                    /\ UNCHANGED <<vars, worldVars, txnVars, publication>>
             [] result = "Ready" ->
                    /\ Txn!Commit
                    /\ publication' = Candidate
                    /\ saved' = NoWorld
                    /\ pc' = "Committed"
                    /\ UNCHANGED <<vars, worldVars>>
             [] result = "Error" ->
                    /\ CancelScriptWorld
                    /\ Fail(IF StaleCandidate THEN "Stale" ELSE "ResidencyError")
                    /\ saved' = NoWorld
                    /\ UNCHANGED publication
    /\ UNCHANGED <<scriptVars, boundVars>>

\* Ready: the script goes on in the same pass
Committed ==
    /\ pc = "Committed"
    /\ Txn!Release
    /\ pc' = "Scripts"
    /\ UNCHANGED <<vars, worldVars, hostVars, scriptVars, boundVars>>

-----------------------------------------------------------------------------
(* A pass of the scripts.  A service that is Pending ends it, and is the   *)
(* first thing the next pass calls, whatever the other scripts want.       *)

Idle == phase = "Idle" /\ wait = "None"

Calls(kind) ==
    /\ pc = "Scripts" /\ Idle /\ spent.Calls < MaxCalls
    /\ spent' = [spent EXCEPT !.Calls = @ + 1]
    /\ UNCHANGED <<vars, worldVars, hostVars, center, populationVehicle>>

\* LOAD_SCENE, REQUEST_COLLISION
CallWorld(c) ==
    /\ Calls("World")
    /\ Txn!Start(c)
    /\ pc' = "Prepare"
    /\ UNCHANGED <<wait, asset>>

\* A model or a texture that is not loaded yet
CallAsset(k) ==
    /\ Calls(k)
    /\ wait' = k
    /\ asset' = [asset EXCEPT ![k] = spent.Calls + 1]
    /\ pc' = "Pending"
    /\ UNCHANGED txnVars

EndPass ==
    /\ pc = "Scripts" /\ Idle
    /\ pc' = "Commit"
    /\ UNCHANGED <<vars, worldVars, txnVars, hostVars, scriptVars, boundVars>>

PollWorld ==
    /\ pc = "Scripts" /\ phase # "Idle"
    /\ pc' = IF phase = "Prepared" THEN "Publish" ELSE "Prepare"
    /\ UNCHANGED <<vars, worldVars, txnVars, hostVars, scriptVars, boundVars>>

PollAsset ==
    /\ pc = "Scripts" /\ wait # "None"
    /\ IF asset[wait] = 0 THEN wait' = "None" /\ UNCHANGED pc
       ELSE pc' = "Pending" /\ UNCHANGED wait
    /\ UNCHANGED <<vars, worldVars, txnVars, hostVars, asset, populationVehicle, boundVars>>

-----------------------------------------------------------------------------
(* The frame loop: after a pass that ended with a Pending service *)

\* TakeStaticModel, TakeScriptTexture: fulfilled, or an error of the parser
FulfillAsset ==
    /\ pc = "Pending" /\ wait # "None" /\ slots[wait].Ready = asset[wait]
    /\ TakeSlot(wait, asset[wait])
    /\ \/ pc' = "AssetError" /\ UNCHANGED asset
       \/ pc' = "Commit" /\ asset' = [asset EXCEPT ![wait] = 0]
    /\ UNCHANGED <<worldVars, txnVars, hostVars, wait, populationVehicle, boundVars>>

\* Mutant: the slot is asked for while the traffic uses it
Blocked_Never == FALSE

\* The slot of models is shared with the traffic
Blocked == wait = "Static" /\ populationVehicle # NoVehicle

\* Not yet: asked for, or asked for again
MissAsset ==
    /\ pc = "Pending" /\ wait # "None" /\ slots[wait].Ready # asset[wait]
    /\ pc' = IF Blocked THEN "Commit" ELSE "Ask"
    /\ UNCHANGED <<vars, worldVars, txnVars, hostVars, scriptVars, boundVars>>

AskAsset ==
    /\ pc = "Ask"
    /\ RequestSlot(wait, asset[wait])
    /\ pc' = IF SlotAdmits(wait, asset[wait]) THEN "Commit" ELSE "AdmissionRefused"
    /\ UNCHANGED <<worldVars, txnVars, hostVars, scriptVars, boundVars>>

\* Mutant: the collision of the worker's packet is tried, not what was saved
CleanUp_WorldOfTheWorker ==
    /\ pc = "Pending" /\ phase # "Idle"
    /\ IF phase = "Prepared"
       THEN \E result \in Results :
                /\ Reconcile(saved.Generation, "Worker", TRUE, result)
                /\ pc' = IF result = "Error" THEN "ResidencyError" ELSE "Commit"
       ELSE pc' = "Commit" /\ UNCHANGED residency
    /\ UNCHANGED <<vars, worldVars, txnVars, publication, saved, scriptVars, boundVars>>

\* ReconcilePendingWorldCleanup, for a world that only waits for it
CleanUp ==
    /\ pc = "Pending" /\ phase # "Idle"
    /\ IF phase = "Prepared"
       THEN \E result \in Results :
                /\ Reconcile(saved.Generation, "Host", TRUE, result)
                /\ pc' = IF result = "Error" THEN "ResidencyError" ELSE "Commit"
       ELSE pc' = "Commit" /\ UNCHANGED residency
    /\ UNCHANGED <<vars, worldVars, txnVars, publication, saved, scriptVars, boundVars>>

\* What the scripts have published is shown before the frame goes on
Commit ==
    /\ pc = "Commit"
    /\ IF publication.Generation > active.Generation
       THEN IF Staged THEN CommitScriptWorld /\ pc' = "Advance" /\ UNCHANGED packet
            ELSE pc' = "CommitRefused" /\ UNCHANGED <<vars, worldVars>>
       ELSE pc' = "Advance" /\ UNCHANGED <<vars, worldVars>>
    /\ UNCHANGED <<txnVars, hostVars, scriptVars, boundVars>>

-----------------------------------------------------------------------------
(* Advance: the world around the camera *)

worldServicePending == scriptWorldPending \/ phase # "Idle"

\* The mailbox of the worker has the center of the last frame
RequestNormal == Request(center, center # active.Position)

\* Mutant: what retires waits for the script
Advance_ScriptsFirst ==
    /\ pc = "Advance"
    /\ IF worldServicePending THEN pc' = "Physics" /\ UNCHANGED vars
       ELSE RequestNormal /\ pc' = "Step"
    /\ UNCHANGED <<worldVars, txnVars, hostVars, scriptVars, boundVars>>

Advance ==
    /\ pc = "Advance"
    /\ IF worldServicePending
       THEN /\ pc' = IF retiring # "None" THEN "Step" ELSE "Physics"
            /\ UNCHANGED vars
       ELSE RequestNormal /\ pc' = "Step"
    /\ UNCHANGED <<worldVars, txnVars, hostVars, scriptVars, boundVars>>

\* Mutant: released before all is deleted
RetireOld_AtOnce ==
    /\ pc = "Step" /\ retiring # "None"
    /\ retiring' \in Deleted(retiring)
    /\ pc' = "Release"
    /\ UNCHANGED <<vars, active, pending, packet, scriptWorldPending, txnVars,
                   hostVars, scriptVars, boundVars>>

RetireOld ==
    /\ pc = "Step" /\ retiring # "None"
    /\ retiring' \in Deleted(retiring)
    /\ pc' = IF retiring' = "None" THEN "Release" ELSE "Physics"
    /\ UNCHANGED <<vars, active, pending, packet, scriptWorldPending, txnVars,
                   hostVars, scriptVars, boundVars>>

ReleaseOld ==
    /\ pc = "Release"
    /\ Release
    /\ pc' = "Physics"
    /\ UNCHANGED <<worldVars, txnVars, hostVars, scriptVars, boundVars>>

TakeNormal ==
    /\ pc = "Step" /\ retiring = "None" /\ pending = NoWorld
    /\ IF world.Ready = NoWorld
       THEN pc' = "Physics" /\ UNCHANGED <<vars, pending>>
       ELSE /\ TakeReady
            /\ pending' = Resident(world.Ready, "None")
            /\ pc' = IF world.Ready.Error THEN "WorldError" ELSE "Step"
    /\ UNCHANGED <<active, retiring, packet, scriptWorldPending, txnVars, hostVars,
                   scriptVars, boundVars>>

UploadNormal ==
    /\ pc = "Step" /\ retiring = "None" /\ pending # NoWorld
    /\ \/ pc' = "UploadError" /\ UNCHANGED pending
       \/ \E gpu \in Uploaded(pending.Gpu) :
              /\ pending' = Resident(pending, gpu)
              /\ pc' = IF Complete(pending') THEN "Adopt" ELSE "Physics"
    /\ UNCHANGED <<vars, active, retiring, packet, scriptWorldPending, txnVars,
                   hostVars, scriptVars, boundVars>>

\* AdoptLiveWorld: the host publishes what Advance is about to show
Adoptable == phase = "Idle" /\ pending.Generation > publication.Generation

\* Mutant: the host is not told
Adopted_HostNotTold ==
    /\ Swap
    /\ UNCHANGED publication
    /\ pc' = "Published"

Adopted ==
    IF Adoptable
    THEN publication' = Cpu(pending) /\ Swap /\ pc' = "Published"
    ELSE pc' = "AdoptRefused" /\ UNCHANGED <<vars, active, pending, retiring, publication>>

Adopt ==
    /\ pc = "Adopt"
    /\ \E result \in Results :
        /\ Reconcile(pending.Generation, "Worker", TRUE, result)
        /\ IF result = "Ready" THEN Adopted
           ELSE /\ pc' = IF result = "Error" THEN "ResidencyError" ELSE "Physics"
                /\ UNCHANGED <<vars, active, pending, retiring, publication>>
    /\ UNCHANGED <<packet, scriptWorldPending, txnVars, saved, scriptVars, boundVars>>

\* The mailbox may still ask for the center just published
Published ==
    /\ pc = "Published"
    /\ RequestNormal
    /\ pc' = "Physics"
    /\ UNCHANGED <<worldVars, txnVars, hostVars, scriptVars, boundVars>>

-----------------------------------------------------------------------------
(* The rest of a frame: physics and the generators run in the active       *)
(* world, the traffic may ask for a model, the world is drawn              *)

\* Mutant: the traffic does not look at what the scripts wait for
MayPopulate_Always == populationVehicle = NoVehicle

MayPopulate == populationVehicle = NoVehicle /\ \A k \in Kinds : asset[k] = 0

Populate ==
    /\ pc = "Physics"
    /\ MayPopulate /\ spent.Population < MaxPopulation
    /\ LET ticket == MaxCalls + spent.Population + 1 \* 2^63 + ..., never a script's
       IN /\ RequestSlot("Static", ticket)
          /\ populationVehicle' = [Ticket |-> ticket,
                                   Admitted |-> SlotAdmits("Static", ticket)]
    /\ spent' = [spent EXCEPT !.Population = @ + 1]
    /\ pc' = "Frame"
    /\ UNCHANGED <<worldVars, txnVars, hostVars, wait, asset, center>>

EndFrame ==
    /\ pc = "Physics"
    /\ pc' = "Frame"
    /\ UNCHANGED <<vars, worldVars, txnVars, hostVars, scriptVars, boundVars>>

Move(c) ==
    /\ pc = "Frame" /\ c # center /\ spent.Moves < MaxMoves
    /\ center' = c
    /\ spent' = [spent EXCEPT !.Moves = @ + 1]
    /\ UNCHANGED <<vars, pc, worldVars, txnVars, hostVars, scriptVars>>

\* Refused at first: asked for again, unless a script waits for the slot
AdmitPopulation ==
    /\ pc = "Frame"
    /\ IF populationVehicle # NoVehicle /\ ~populationVehicle.Admitted /\ asset["Static"] = 0
       THEN /\ RequestSlot("Static", populationVehicle.Ticket)
            /\ populationVehicle' = [populationVehicle EXCEPT !.Admitted =
                                         SlotAdmits("Static", populationVehicle.Ticket)]
       ELSE UNCHANGED <<vars, populationVehicle>>
    /\ pc' = "Take"
    /\ UNCHANGED <<worldVars, txnVars, hostVars, wait, asset, boundVars>>

\* Mutant: the model is taken and still waited for
TakePopulation_Keeps ==
    /\ pc = "Take"
    /\ IF populationVehicle.Admitted /\ slots["Static"].Ready = populationVehicle.Ticket
       THEN TakeSlot("Static", populationVehicle.Ticket)
       ELSE UNCHANGED vars
    /\ pc' = "Scripts"
    /\ UNCHANGED <<worldVars, txnVars, hostVars, scriptVars, boundVars>>

TakePopulation ==
    /\ pc = "Take"
    /\ IF populationVehicle.Admitted /\ slots["Static"].Ready = populationVehicle.Ticket
       THEN /\ TakeSlot("Static", populationVehicle.Ticket)
            /\ \/ pc' = "AssetError" /\ UNCHANGED populationVehicle
               \/ pc' = "Scripts" /\ populationVehicle' = NoVehicle
       ELSE pc' = "Scripts" /\ UNCHANGED <<vars, populationVehicle>>
    /\ UNCHANGED <<worldVars, txnVars, hostVars, wait, asset, boundVars>>

\* The window is closed, or the loop returned 1: ~LiveWorld
Leave ==
    /\ pc \in Faults \cup {"Frame"}
    /\ Stop({active, pending})
    /\ pc' = "Left"
    /\ UNCHANGED <<worldVars, txnVars, hostVars, scriptVars, boundVars>>

Joined == pc = "Left" /\ UNCHANGED liveVars

Service ==
    \/ Prepare \/ Supersede \/ TakeScript \/ DiscardPacket \/ RequestScript
    \/ Satisfy \/ UploadScript \/ Publish \/ Committed

Pass == EndPass \/ PollWorld \/ PollAsset \/ FulfillAsset \/ MissAsset \/ AskAsset \/ CleanUp

Stream ==
    \/ Commit \/ Advance \/ RetireOld \/ ReleaseOld \/ TakeNormal \/ UploadNormal
    \/ Adopt \/ Published

\* What the main thread does of itself
Main == Service \/ Pass \/ Stream \/ EndFrame \/ AdmitPopulation \/ TakePopulation

\* What the scripts, the player and the traffic may want
Wish ==
    \/ \E c \in Centers : CallWorld(c) \/ Move(c)
    \/ \E k \in Kinds : CallAsset(k)
    \/ Populate \/ Leave

RunWorker == Run /\ UNCHANGED <<pc, worldVars, txnVars, hostVars, scriptVars, boundVars>>

LiveNext == Main \/ Wish \/ VehicleLeaves \/ RunWorker \/ Joined

\* Both threads run, and vehicles do not stay for ever
LiveSpec ==
    /\ LiveInit /\ [][LiveNext]_liveVars
    /\ WF_liveVars(Main) /\ WF_liveVars(RunWorker) /\ WF_liveVars(VehicleLeaves)
-----------------------------------------------------------------------------
\* The worlds and the places of the main thread fit together: a world that is
\* on its way in excludes one on its way out, and a transaction is open while
\* its loader runs.
TypeOK ==
    /\ pending # NoWorld => retiring = "None"
    /\ packet # NoWorld <=> pc = "Discard"
    /\ saved # NoWorld => phase \in {"Prepared", "Failed"}
    /\ asset["Static"] # 0 => wait = "Static"
    /\ populationVehicle # NoVehicle => populationVehicle.Admitted
    /\ residency.Generation <= residency.Attempt
    /\ pc \in {"Prepare", "Superseded", "TakeScript", "Request", "Upload"} =>
           phase \in Txn!Preparing

\* "Physics and draw see exactly the same generation" (Realtime.cpp:491): when
\* the frame reaches them the world shown is the world of the host, and it is
\* whole.
SameGeneration ==
    /\ pc = "Physics" => Cpu(active) = publication
    /\ active.Gpu = "Whole"

\* What the script is told is Ready is what it asked for, uploaded completely.
ReadyIsStaged == pc = "Committed" => Staged /\ pending.Position = identity

\* Of the checks the code makes of itself one may fail.  Every world the host
\* has published can be shown, every world that is shown is adopted, generations
\* only go up, a script's model or texture is never refused its slot, and the
\* worker's assertions hold for this caller.  The residency of the generators
\* ends the program (NativeCarGeneratorResidency.cpp:129) only when PublishWorld
\* publishes a world that a script took over from the camera after AdoptLiveWorld
\* had tried it and still waited for vehicles to leave: never a world that
\* Advance shows, one whose cleaning up is under way, or one that is too old.
OnlyATakeOverIsRefused ==
    /\ pc \notin {"CommitRefused", "AdoptRefused", "Stale", "AdmissionRefused"}
    /\ pc = "ResidencyError" =>
           /\ phase = "Failed"
           /\ residency.Snapshot = "Worker"
           /\ residency.Generation < residency.Attempt
           /\ publication.Generation < residency.Attempt
    /\ AssertionsHold

\* "At most two world packets": the one shown and one on its way in or out.
TwoWorldPackets ==
    Cardinality(Packets \cup
        {w.Generation : w \in {active, pending, packet} \ {NoWorld}}) <= 2

\* All three: what is where, how many there are, and what a script is told.
WorldsFitTogether == TypeOK /\ TwoWorldPackets /\ ReadyIsStaged

\* A world that a script asked for comes, unless the program ends.
ScriptGetsItsWorld == phase # "Idle" ~> (phase = "Idle" \/ pc \in Faults \cup {"Left"})

\* So does a model or a texture: the traffic does not keep the slot from it.
ScriptGetsItsAsset == wait # "None" ~> (wait = "None" \/ pc \in Faults \cup {"Left"})

\* Both: the services of the scripts do not starve one another.
ScriptIsServed == ScriptGetsItsWorld /\ ScriptGetsItsAsset

\* The camera gets its world, once it stays and the scripts ask for nothing.
CameraGetsItsWorld ==
    <>[](Idle /\ pc \notin Faults \cup {"Left"}) =>
        <>[](active.Position = center)
=============================================================================
