---------------------------- MODULE MCTimerRace ----------------------------
(* A periodic timer and three nodes for the handshakes: one that is being      *)
(* appended, one that fires, and the one its callback appends.                 *)
EXTENDS TimerRace
============================================================================
