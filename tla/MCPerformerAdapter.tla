------------------------- MODULE MCPerformerAdapter -------------------------
(***************************************************************************)
(* Three keys, the highest above the split; the second alone makes a chord *)
(* and both lower ones make another.                                       *)
(***************************************************************************)
EXTENDS PerformerAdapter

CONSTANTS CMaj, F

ThreeNotes == 1 .. 3
LowerTwo == {1, 2}
TwoChords == {CMaj, F}
Scan == [notes \in SUBSET LowerTwo |->
           IF notes = LowerTwo THEN CMaj ELSE IF notes = {2} THEN F ELSE NoChord]
=============================================================================
