--------------------------- MODULE MCTimerServer ---------------------------
(* A small instance of TimerServer. *)
EXTENDS TimerServer

CONSTANTS poll, a, b

MCIds == {poll, a, b}
MCDelays == 1..3
MCPoolNodes == Cardinality(MCIds) + MaxAsked

============================================================================
