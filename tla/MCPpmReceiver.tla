---------------------------- MODULE MCPpmReceiver ----------------------------
(* Widths in hundreds of microseconds: full low and full high, a spurious   *)
(* edge early or late in an interval; milliseconds in half timeouts.        *)
EXTENDS PpmReceiver

MCWidths == {10, 20}
MCGlitches == {5, 35}
MCSticks == {0}
=============================================================================
