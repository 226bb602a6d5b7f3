---------------------------- MODULE MCGuardedUsb ----------------------------
(* The guarded USB firmware with every line the host could send.            *)
EXTENDS GuardedUsb
=============================================================================
