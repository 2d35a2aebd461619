------------------------ MODULE MCNativeVehiclePool ------------------------
(* Instances of NativeVehiclePool for TLC.                                 *)
EXTENDS NativeVehiclePool
=============================================================================
