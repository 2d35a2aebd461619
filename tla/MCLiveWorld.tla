----------------------------- MODULE MCLiveWorld -----------------------------
(* Instances of LiveWorld for TLC. *)
EXTENDS LiveWorld

CONSTANTS c1, c2 \* two places to be
=============================================================================
