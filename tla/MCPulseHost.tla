---------------------------- MODULE MCPulseHost -----------------------------
(* The host and the guarded firmware: one kind of pulse, and setpoints that   *)
(* move the rover or ask for nothing, beside which a pulse can be armed.      *)
EXTENDS PulseHost

MCShots == {[op |-> "CMD", size |-> "drive", ms |-> MaxMs]}
MCSetpoints ==
  {[op |-> "SET", seq |-> s, size |-> z, ms |-> LiveMaxMs, ttl |-> LiveTtl] :
     s \in Seqs, z \in {"drive", "zero"}}
MCNoSetpoints == {}
=============================================================================
