---------------------------- MODULE MCNavigation ----------------------------
(* Two addresses, three calls under way.                                   *)
EXTENDS Navigation

CONSTANTS a, b
=============================================================================
