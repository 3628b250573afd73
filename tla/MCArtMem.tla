------------------------------ MODULE MCArtMem ------------------------------
(* Small pools: timeMemPool has headers of 12 bytes, nodes of 24 and a rest  *)
(* of 32 behind its 54 nodes; here 1, 2 and 2 behind 5.                      *)
EXTENDS ArtMem
============================================================================
