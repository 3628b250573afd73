---------------------------- MODULE MCArtNetTask ----------------------------
(* A small instance of ArtNetTask: two models, two values. *)
EXTENDS ArtNetTask
============================================================================
