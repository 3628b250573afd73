---------------------------- MODULE MCArtDevice ----------------------------
(* Small instances of ArtDevice: the periods of the code (3000; 50, 1, 3,   *)
(* 170, 1, 1, 1, 1) shrunk with their order kept.                           *)
EXTENDS ArtDevice

MCDelay == [s \in Status |-> CASE s = 0 -> 2 [] s = 3 -> 3 [] OTHER -> 1]

============================================================================
