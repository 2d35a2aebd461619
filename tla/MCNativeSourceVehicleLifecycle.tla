------------------- MODULE MCNativeSourceVehicleLifecycle -------------------
(* Instances of NativeSourceVehicleLifecycle for TLC.                      *)
EXTENDS NativeSourceVehicleLifecycle
=============================================================================
