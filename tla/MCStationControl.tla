-------------------------- MODULE MCStationControl --------------------------
(* Model-checking instance of StationControl: the .cfg files give the       *)
(* bounds.                                                                  *)
EXTENDS StationControl
=============================================================================
