---------------------- MODULE NativeScriptServicePhases ----------------------
(***************************************************************************)
(* What NativeScriptServiceTransaction promises to its owner, with no      *)
(* ticket, counter or limit: the life of one command of a script.          *)
(*                                                                         *)
(*   Idle -> Preparing -> Pending -> Prepared -> Committed -> Idle         *)
(*                                                                         *)
(* An attempt that is not Prepared yet may be Pending any number of times; *)
(* one that is not over may fail (Failed -> Idle) or be cancelled          *)
(* (Cancelling -> Cancelled), and a cancelled command may only be tried    *)
(* again.                                                                  *)
(***************************************************************************)
CONSTANTS Identities, \* the commands a script may ask for
          NoIdentity  \* the identity of no command

VARIABLES phase, identity

vars == <<phase, identity>>

Preparing == {"Preparing", "Pending"}
Undecided == Preparing \cup {"Prepared"}
Decided   == {"Committed", "Failed"}
Phases    == Undecided \cup Decided \cup {"Idle", "Cancelling", "Cancelled"}

Init == phase = "Idle" /\ identity = NoIdentity

\* A command is begun, or begun again once its cancellation is complete
Start(i) ==
    /\ phase = "Idle" \/ (phase = "Cancelled" /\ identity = i)
    /\ phase' = "Preparing"
    /\ identity' = i

Step(from, to) ==
    /\ phase \in from
    /\ phase' = to
    /\ UNCHANGED identity

Wait        == Step(Preparing, "Pending")
Prepare     == Step(Preparing, "Prepared")
Cancel      == Step(Undecided, "Cancelling")
Acknowledge == Step({"Cancelling"}, "Cancelled")
Commit      == Step({"Prepared"}, "Committed")
Fail        == Step(Undecided, "Failed")

\* The command is over and the next one may come
Release ==
    /\ phase \in Decided
    /\ phase' = "Idle"
    /\ identity' = NoIdentity

Next ==
    \/ \E i \in Identities : Start(i)
    \/ Wait \/ Prepare \/ Cancel \/ Acknowledge \/ Commit \/ Fail \/ Release

Spec == Init /\ [][Next]_vars
=============================================================================
