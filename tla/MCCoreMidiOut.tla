--------------------------- MODULE MCCoreMidiOut ----------------------------
(***************************************************************************)
(* Two devices, each with a name of its own.                               *)
(***************************************************************************)
EXTENDS CoreMidiOut, TLC

CONSTANTS d1, d2, n1, n2

TwoNames == (d1 :> n1) @@ (d2 :> n2)
=============================================================================
