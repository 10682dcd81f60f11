----------------------------- MODULE MCStylePlayer -----------------------------
(***************************************************************************)
(* A small style for TLC: an intro, a main and a fill over two source      *)
(* notes, on two channels, of which one chord voices both onto the same    *)
(* note.  Bars are one beat of four ticks.                                 *)
(***************************************************************************)
EXTENDS StylePlayer, TLC

Low  == 60
High == 128 + 64

On(src, tick)  == [kind |-> "on", src |-> src, tick |-> tick]
Off(src, tick) == [kind |-> "off", src |-> src, tick |-> tick]

Intro == [kind |-> "intro", events |-> <<On("a", 0), Off("a", 3)>>]

\* Two tracks; the second holds its note over a bar line.
Main == [kind |-> "main",
         events |-> <<On("a", 1), Off("a", 2), On("a", 3), Off("a", 5),
                      On("b", 0), Off("b", 6)>>]

Fill == [kind |-> "fill", events |-> <<On("b", 0), Off("b", 1)>>]

Break == [kind |-> "break", events |-> <<>>]

OneStyle == {(0 :> Intro @@ 1 :> Main @@ 2 :> Fill)}

TwoStyles == {(0 :> Intro @@ 1 :> Main @@ 2 :> Break), (0 :> Fill)}

MCNotes == {Low, High}

\* Under chord F both sources are voiced onto the same note.
MCVoice == [C |-> [a |-> Low, b |-> High], F |-> [a |-> High, b |-> High]]

\* A negative index and a valid one.
SomeIndices == {-1, 1}
=============================================================================
