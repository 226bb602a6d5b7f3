----------------------------- MODULE GuardedCall -----------------------------
(***************************************************************************)
(* What a caller of the pulse executor may count on, without lines, rows   *)
(* or waits: a call begins and returns with the rover at rest, a pulse     *)
(* call fires at most one pulse, and only a live call holds a setpoint.    *)
(* Once a wait has given up before its answer the calls no longer tell     *)
(* what the rover does, but a pulse still needs an arm; once the process   *)
(* has died in a call nothing is promised.                                 *)
(***************************************************************************)

VARIABLES
  call,   \* the call the executor is in: "none", "pulse" or "live"
  rover,  \* what it does for the host: "rest", "armed", "pulse" or "live"
  asked,  \* an arm has been asked for and the rover has not heard it
  trust   \* "full", "some" or "none"

contract == <<call, rover, asked, trust>>

Init == call = "none" /\ rover = "rest" /\ ~asked /\ trust = "full"

\* A pulse call asks for its one arm as it begins.
Begin ==
  /\ trust = "full"
  /\ call = "none" /\ rover = "rest" /\ ~asked
  /\ call' \in {"pulse", "live"} /\ asked' = (call' = "pulse")
  /\ UNCHANGED <<rover, trust>>

Arm ==
  /\ trust = "full"
  /\ call = "pulse" /\ rover = "rest" /\ asked
  /\ rover' \in {"armed", "rest"} /\ ~asked'
  /\ UNCHANGED <<call, trust>>

Fire ==
  /\ trust = "full"
  /\ call = "pulse" /\ rover = "armed" /\ ~asked
  /\ rover' = "pulse"
  /\ UNCHANGED <<call, asked, trust>>

Hold ==
  /\ trust = "full"
  /\ call = "live" /\ rover \in {"rest", "live"}
  /\ rover' = "live"
  /\ UNCHANGED <<call, asked, trust>>

\* Its time is over, the pilot or the receiver took it, or it was told to stop.
Rest == trust = "full" /\ rover' = "rest" /\ UNCHANGED <<call, asked, trust>>

Return ==
  /\ trust = "full"
  /\ call # "none" /\ rover = "rest" /\ ~asked
  /\ call' = "none"
  /\ UNCHANGED <<rover, asked, trust>>

\* A wait gives up, or the process dies.
Doubt ==
  /\ \/ trust = "full" /\ trust' \in {"some", "none"}
     \/ trust = "some" /\ trust' = "none"
  /\ UNCHANGED rover

Drift ==
  /\ trust = "some" /\ trust' = "some"
  /\ rover' = "pulse" => rover \in {"armed", "pulse"}

Lost == trust = "none" /\ trust' = "none"

Next == Begin \/ Arm \/ Fire \/ Hold \/ Rest \/ Return \/ Doubt \/ Drift \/ Lost

Spec == Init /\ [][Next]_contract
=============================================================================
