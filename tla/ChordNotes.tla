------------------------------ MODULE ChordNotes ------------------------------
(***************************************************************************)
(* From the keys held to the notes heard: the chord detectors               *)
(* (engine/chord), the note transposition (engine/music/ntt.cpp) and the    *)
(* articulation renderer (engine/articulation/renderer.cpp).  All three are *)
(* pure, and are operators here.  Keys and notes are MIDI note numbers.     *)
(***************************************************************************)
EXTENDS Integers, Sequences, SequencesExt, FiniteSetsExt

NoChord == [type |-> "NoChord", root |-> 0, bass |-> 0]

(* ------------------------------- detection ------------------------------ *)

\* The templates of matchChordType(): pitch classes above the lowest note.  No
\* two are equal, so the order in which they are tried does not matter.
Templates ==
    [Maj7 |-> {0, 4, 7, 11}, Min7 |-> {0, 3, 7, 10}, Dom7 |-> {0, 4, 7, 10},
     Dim7 |-> {0, 3, 6, 9}, Major |-> {0, 4, 7}, Minor |-> {0, 3, 7},
     Dim |-> {0, 3, 6}, Aug |-> {0, 4, 8}, Sus4 |-> {0, 5, 7},
     Sus2 |-> {0, 2, 7}, Power |-> {0, 7}]

PitchClasses(keys) == {(k - Min(keys)) % 12 : k \in keys}

MatchChordType(keys) ==
    LET found == {t \in DOMAIN Templates : Templates[t] = PitchClasses(keys)}
    IN  IF Cardinality(keys) < 2 \/ found = {} THEN "NoChord"
        ELSE CHOOSE t \in found : TRUE

Fingered(keys) ==
    [type |-> MatchChordType(keys), root |-> Min(keys), bass |-> 0]

\* The keys above the lowest one when they spell a chord, all of them otherwise.
FingeredOnBass(keys) ==
    LET upper == keys \ {Min(keys)}
        slash == Cardinality(keys) >= 4 /\ MatchChordType(upper) # "NoChord"
    IN  [Fingered(IF slash THEN upper ELSE keys) EXCEPT !.bass = Min(keys)]

SingleFinger(keys) ==
    LET interval == (Max(keys) - Min(keys)) % 12
        two == CASE interval = 3 -> "Minor" [] interval = 10 -> "Dom7"
                 [] interval = 7 -> "Power" [] OTHER -> "Major"
        type == CASE Cardinality(keys) = 1 -> "Major"
                  [] Cardinality(keys) = 2 -> two
                  [] MatchChordType(keys) = "NoChord" -> "Major"
                  [] OTHER -> MatchChordType(keys)
    IN  [type |-> type, root |-> Min(keys), bass |-> 0]

Modes == {"fingered", "on_bass", "single"}

Detect(mode, keys) ==
    IF keys = {} THEN NoChord
    ELSE CASE mode = "fingered" -> Fingered(keys)
           [] mode = "on_bass" -> FingeredOnBass(keys)
           [] mode = "single" -> SingleFinger(keys)

(* ----------------------------- transposition ---------------------------- *)

ChordTones(type) ==
    CASE type = "Maj7" -> <<0, 4, 7, 11>> [] type = "Min7" -> <<0, 3, 7, 10>>
      [] type = "Dom7" -> <<0, 4, 7, 10>> [] type = "Dim7" -> <<0, 3, 6, 9>>
      [] type = "Minor" -> <<0, 3, 7>> [] type = "Dim" -> <<0, 3, 6>>
      [] type = "Aug" -> <<0, 4, 8>> [] type = "Sus4" -> <<0, 5, 7>>
      [] type = "Sus2" -> <<0, 2, 7>> [] type = "Power" -> <<0, 7>>
      [] OTHER -> <<0, 4, 7>>

ScaleFor(ntt, type) ==
    CASE ntt = "MelodicMinor"  -> {0, 2, 3, 5, 7, 9, 11}
      [] ntt = "HarmonicMinor" -> {0, 2, 3, 5, 7, 8, 11}
      [] ntt = "NaturalMinor"  -> {0, 2, 3, 5, 7, 8, 10}
      [] ntt = "Dorian"        -> {0, 2, 3, 5, 7, 9, 10}
      [] OTHER ->
         CASE type \in {"Minor", "Min7", "Dim", "Dim7"} -> {0, 2, 3, 5, 7, 8, 10}
           [] type \in {"Dom7", "Sus4", "Sus2"} -> {0, 2, 4, 5, 7, 9, 10}
           [] OTHER -> {0, 2, 4, 5, 7, 9, 11}

SourceChordTones == <<0, 4, 7, 11>>

Distance(a, b) == IF a > b THEN a - b ELSE b - a

\* nearestRepresentative(): of a tone and of its octaves below and above; the
\* first one tried wins a tie, which is the lower tone, and in its lowest octave.
NearestRepresentative(rel, tones) ==
    LET candidates == {<<t, t + k>> : t \in tones, k \in {-12, 0, 12}}
        least == Min({Distance(c[2], rel) : c \in candidates})
        nearest == {c \in candidates : Distance(c[2], rel) = least}
        first == CHOOSE c \in nearest :
                    \A d \in nearest : c[1] < d[1] \/ (c[1] = d[1] /\ c[2] <= d[2])
    IN  first[2]

\* Mutated form: out of range means the end of the range.
Clamped(n) == Max({0, Min({127, n})})

\* Into the MIDI range by octaves.
Folded(n) ==
    IF n < 0 THEN n % 12
    ELSE IF n > 127 THEN CHOOSE m \in 116..127 : m % 12 = n % 12 ELSE n

\* Where a pitch class of the source lands, relative to the root.
Remapped(rel, ntt, type) ==
    LET tones == ChordTones(type)
        scale == ScaleFor(ntt, type)
        degree == SelectInSeq(SourceChordTones, LAMBDA t : t = rel)
        chordTone == NearestRepresentative(rel, ToSet(tones))
        scaleTone == NearestRepresentative(rel, scale)
        near == IF Distance(chordTone, rel) <= Distance(scaleTone, rel)
                THEN chordTone ELSE scaleTone
        landed == IF degree # 0 THEN tones[Min({degree, Len(tones)})]
                  ELSE IF rel \in scale THEN rel ELSE near
    IN  IF ntt \in {"Bass", "Chord", "Guitar"}
        THEN NearestRepresentative(landed, ToSet(tones)) ELSE landed

\* 60 is the root of the style's source chord.
Transpose(note, chord, ntr, ntt) ==
    IF chord.type = "NoChord" \/ "Bypass" \in {ntr, ntt} THEN note
    ELSE LET rel == (note - 60) % 12
             shift == IF ntr = "RootFixed" THEN 0 ELSE chord.root - 60
         IN  Folded(note + shift + Remapped(rel, ntt, chord.type) - rel)

\* The rule StylePlayer::transposeNote() uses for a track.
DefaultRuleForRole(role) ==
    CASE role \in {"Drum", "Percussion"} -> <<"Bypass", "Bypass">>
      [] role = "Bass" -> <<"RootTransposition", "Bass">>
      [] role \in {"Chord", "Pad"} -> <<"RootTransposition", "Chord">>
      [] OTHER -> <<"RootTransposition", "Melody">>

(* ------------------------------- rendering ------------------------------ *)

\* The renderers are "naive", "keyswitch" and "keyswitch-fallback".
\* A note-on of a track with a keyswitch is preceded by that key, on and off one
\* tick earlier; everything else passes through.  0: the track has none.
Render(renderer, event, keyswitch) ==
    IF renderer # "keyswitch" \/ event.velocity = 0 \/ keyswitch = 0
                              \/ keyswitch = event.note
    THEN <<event>>
    ELSE LET tick == IF event.tick > 0 THEN event.tick - 1 ELSE 0
         IN  <<[note |-> keyswitch, velocity |-> 1, tick |-> tick],
               [note |-> keyswitch, velocity |-> 0, tick |-> tick], event>>
===============================================================================
