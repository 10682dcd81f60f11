------------------------------- MODULE DemoStyle -------------------------------
(***************************************************************************)
(* buildDemoStyle() (engine/arranger/style_player.cpp): the style that the  *)
(* session boots with when nothing else is loaded, and that the serializer  *)
(* is tested with, made bar by bar, each note as its on and its off.         *)
(***************************************************************************)
EXTENDS Integers, Sequences, SequencesExt

CONSTANT DemoBars       \* how many bars a track has (4)

ASSUME DemoAssumption == DemoBars \in Nat \ {0}

MakeEvent(type, channel, key, velocity, tick) ==
    [tick |-> tick, type |-> type, channel |-> channel, d1 |-> key, d2 |-> velocity]

Strike(channel, key, velocity, on, off) ==
    <<MakeEvent(9, channel, key, velocity, on), MakeEvent(8, channel, key, 0, off)>>

\* A bar, which is 4 beats of 480 ticks, again and again.
Bars(bar) ==
    FlattenSeq([i \in 1..DemoBars |->
        [k \in DOMAIN bar |-> [bar[k] EXCEPT !.tick = @ + 1920 * (i - 1)]]])

MadeTrack(channel, role, events) ==
    [channel |-> channel, role |-> role, drum |-> role = "Drum", named |-> TRUE,
     events |-> events]

\* Kick on 1 and 3, then snare on 2 and 4, then the hi-hat on every eighth: the
\* list goes back in time twice in every bar.
DrumTrack ==
    LET hats == FlattenSeq([e \in 1..8 |-> Strike(9, 42, 80, 240 * e - 240, 240 * e - 120)])
        bar == Strike(9, 36, 100, 0, 240) \o Strike(9, 36, 100, 960, 1200)
               \o Strike(9, 38, 90, 480, 720) \o Strike(9, 38, 90, 1440, 1680) \o hats
    IN  MadeTrack(9, "Drum", Bars(bar))

\* The root on 1, the fifth on 3.
BassTrack ==
    MadeTrack(1, "Bass", Bars(Strike(1, 48, 90, 0, 480) \o Strike(1, 55, 80, 960, 1440)))

\* A triad held for two beats.
ChordTrack ==
    LET keys == <<60, 64, 67>>
    IN  MadeTrack(2, "Chord",
            Bars([i \in 1..3 |-> MakeEvent(9, 2, keys[i], 70, 0)]
                 \o [i \in 1..3 |-> MakeEvent(8, 2, keys[i], 0, 960)]))

DemoSection(type, bars, tracks) ==
    [type |-> type, bars |-> bars, resolution |-> 480, tracks |-> tracks]

BuildDemoStyle ==
    [resolution |-> 480,
     sections |-> <<DemoSection("Intro1", 4, <<DrumTrack, BassTrack>>),
                    DemoSection("Main1", 4, <<DrumTrack, BassTrack, ChordTrack>>),
                    DemoSection("Fill1", 1, <<DrumTrack>>),
                    DemoSection("Ending1", 2, <<DrumTrack, BassTrack, ChordTrack>>)>>]
===============================================================================
