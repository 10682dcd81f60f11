------------------------------ MODULE MCKeyInput ------------------------------
(***************************************************************************)
(* Packets as CoreMIDI delivers them: whole messages, running status and    *)
(* clock bytes included; only a SysEx may go on in the next packet.  Single *)
(* messages are as the engine itself writes them.                           *)
(***************************************************************************)
EXTENDS KeyInput

Aside(b) == [bytes |-> b, means |-> <<>>]
Data(b, e) == [bytes |-> b, means |-> <<e>>]

\* A message in the engine's own bytes, and the events it stands for.
Sent(type, channel, d1, d2, events) ==
    LET b == MidiEventToBytes([type |-> type, channel |-> channel, d1 |-> d1, d2 |-> d2])
    IN  <<Aside(SubSeq(b, 1, 1)), [bytes |-> Tail(b), means |-> events]>>
On(k) == Sent(9, 0, k, 100, <<<<"NoteOn", k>>>>)
Off(k) == Sent(8, 5, k, 64, <<<<"NoteOff", k>>>>)

\* The keys of a set, in ascending order, with one status byte for all.
ChordOn(keys) ==
    LET s == SetToSortSeq(keys, <)
    IN  <<Aside(<<144>>)>> \o [i \in 1..Len(s) |-> Data(<<s[i], 90>>, <<"NoteOn", s[i]>>)]

\* Running status across a clock byte, and a note-on of velocity 0.
ClockInside ==
    <<Aside(<<144>>), Aside(<<248>>), Data(<<48, 100>>, <<"NoteOn", 48>>), Aside(<<254>>),
      Data(<<52, 100>>, <<"NoteOn", 52>>), Data(<<55, 0>>, <<"NoteOff", 55>>)>>

Pedal ==
    <<Aside(<<176>>), Data(<<64, 127>>, <<"Sustain", 1>>), Data(<<64, 10>>, <<"Sustain", 0>>),
      Data(<<123, 0>>, <<"Panic", 0>>), Aside(<<7, 99>>)>>

MCPackets ==
    {ChordOn(keys) : keys \in {{48}, {48, 52, 55}, {48, 51, 55, 58}, {45, 48, 52, 55},
                               {1, 5, 9}, {120, 124, 127}, {50, 55, 57}, {48, 58},
                               {47, 50, 53, 56}, {48, 55}, {49, 50}}}
    \cup {Off(48), On(52), ClockInside, Pedal, On(55) \o Off(52),
          <<Aside(<<240, 1, 2, 247>>)>> \o On(48),
          <<Aside(<<240, 67, 16>>)>>,
          <<Aside(<<76>>), Aside(<<0>>), Aside(<<247>>)>> \o Off(55),
          On(58) \o Sent(12, 1, 5, 0, <<>>),
          <<Aside(<<209>>), Aside(<<7>>), Aside(<<8>>)>> \o Off(58),
          <<Aside(<<242>>), Aside(<<1>>), Aside(<<2>>)>> \o On(51),
          Sent(14, 0, 0, 64, <<>>),
          Off(48) \o <<Aside(<<144>>), Aside(<<60>>)>>}

\* More messages than the caller's array holds: keys let go, with one status byte.
Released == [k \in 1..65 |-> Data(<<k, 64>>, <<"NoteOff", k>>)]
FullPackets == {<<Aside(<<128>>)>> \o Released}

MCNotes == {0, 36, 59, 61, 63, 66, 70, 127}

MCRenderings ==
    {<<"naive", 12, 480>>, <<"keyswitch", 12, 480>>, <<"keyswitch", 36, 0>>,
     <<"keyswitch-fallback", 12, 480>>}

MCRules ==
    {DefaultRuleForRole(role) : role \in {"Drum", "Bass", "Pad", "Phrase1"}}
    \cup {<<"RootFixed", "Melody">>, <<"Guitar", "Guitar">>,
          <<"Fifth", "MelodicMinor">>, <<"RootTransposition", "HarmonicMinor">>,
          <<"RootFixed", "NaturalMinor">>, <<"RootTransposition", "Dorian">>}
===============================================================================
