---------------------------- MODULE MCStateLayers ----------------------------
(* StateLayers for TLC. *)
EXTENDS StateLayers
=============================================================================
