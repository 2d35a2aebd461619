---------------------------- MODULE MCStreaming ----------------------------
(* Instances of Streaming for TLC. *)
EXTENDS Streaming

CONSTANTS d1, d2, t1, a1

Ask(m, flags) == [model |-> m, flags |-> flags]

\* A vehicle and an object share a dictionary that takes both halves of the
\* buffer
AtomicType      == (d1 :> "VEHICLE") @@ (d2 :> "ATOMIC") @@ (t1 :> "TXD")
AtomicTxd       == (d1 :> t1) @@ (d2 :> t1)
AtomicAnim      == (d1 :> MODEL_INVALID) @@ (d2 :> MODEL_INVALID)
AtomicOffset    == (d1 :> 0) @@ (d2 :> 1) @@ (t1 :> 2)
AtomicSize      == (d1 :> 1) @@ (d2 :> 1) @@ (t1 :> 3)
AtomicFollowing == (d1 :> d2) @@ (d2 :> t1) @@ (t1 :> MODEL_INVALID)
AtomicRequests  == {Ask(d1, {}), Ask(d2, {"PRIORITY_REQUEST"}), Ask(d2, {"MISSION_REQUIRED", "KEEP_IN_MEMORY"})}

\* A collision file that takes both halves of the buffer, and a ped with
\* animations and a small dictionary
PedType      == (d1 :> "COL") @@ (d2 :> "PED") @@ (t1 :> "TXD") @@ (a1 :> "IFP")
PedTxd       == d2 :> t1
PedAnim      == d2 :> a1
PedOffset    == (a1 :> 0) @@ (t1 :> 1) @@ (d1 :> 2) @@ (d2 :> 5)
PedSize      == (d1 :> 3) @@ (d2 :> 1) @@ (t1 :> 1) @@ (a1 :> 1)
PedFollowing == (a1 :> t1) @@ (t1 :> d1) @@ (d1 :> d2) @@ (d2 :> MODEL_INVALID)
PedRequests  == {Ask(d1, {}), Ask(d2, {"PRIORITY_REQUEST"})}
=============================================================================
