------------------- MODULE MCNativeScriptServiceTransaction -------------------
(* Instance of NativeScriptServiceTransaction for TLC. *)
EXTENDS NativeScriptServiceTransaction, TLC

\* Request ids and commands are only compared
IdentitySymmetry == Permutations(Ids) \cup Permutations(Commands)
=============================================================================
