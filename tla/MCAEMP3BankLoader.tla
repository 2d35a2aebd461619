------------------------- MODULE MCAEMP3BankLoader -------------------------
(* Instances of AEMP3BankLoader for TLC. *)
EXTENDS AEMP3BankLoader, TLC

CONSTANTS b1, b2, s1, s2

Load(b, s, snd) == [bank |-> b, slot |-> s, sound |-> snd]

\* One slot: a whole bank, a sound of it and a sound of another
Mixed == {Load(b1, s1, -1), Load(b2, s1, 1), Load(b1, s1, 1)}

\* Two slots that share the stream, one of them for both kinds of request
TwoSlots == {Load(b1, s1, -1), Load(b2, s1, 1), Load(b2, s2, 1)}
=============================================================================
