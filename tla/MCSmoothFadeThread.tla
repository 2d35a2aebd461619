------------------------- MODULE MCSmoothFadeThread -------------------------
(* Instances of SmoothFadeThread for TLC.                                  *)
EXTENDS SmoothFadeThread
=============================================================================
