----------------------------- MODULE MCCdStream -----------------------------
(* Instances of CdStream for TLC. *)
EXTENDS CdStream, TLC

\* The files are interchangeable
FileSymmetry == Permutations(Files)
=============================================================================
