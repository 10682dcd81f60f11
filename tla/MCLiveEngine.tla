----------------------------- MODULE MCLiveEngine -----------------------------
(***************************************************************************)
(* Two destinations for TLC.                                               *)
(***************************************************************************)
EXTENDS LiveEngine

CONSTANTS d1, d2
=============================================================================
