------------------------------- MODULE MCField -------------------------------
(* Instance of FieldSession for TLC.                                         *)
EXTENDS FieldSession
==============================================================================
