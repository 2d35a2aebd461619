-------------------------- MODULE MCRealtimeWorker --------------------------
(* Instances of RealtimeWorkerClient for TLC. *)
EXTENDS RealtimeWorkerClient, TLC

\* The two one-slot services have the same code
JobTickets == "Static" :> 2 @@ "Texture" :> 1

\* Two requests, and one that differs from the first in its definition
JobVehicles ==
    {[Id |-> 1, Definition |-> "a"], [Id |-> 1, Definition |-> "b"],
     [Id |-> 2, Definition |-> "a"]}
=============================================================================
