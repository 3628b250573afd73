------------------------------- MODULE MCBox -------------------------------
EXTENDS Box

(* Effects that record and that do not, one of each group; a subtype that   *)
(* is in no table.                                                          *)
MCMessages == {<<1, 1>>, <<2, 4>>, <<3, 5>>}
=============================================================================
