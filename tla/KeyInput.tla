------------------------------- MODULE KeyInput -------------------------------
(***************************************************************************)
(* The way of a key press: a CoreMIDI packet goes through parseMidiInput()  *)
(* (midi/midi_input_parser.cpp), byte by byte, its messages through         *)
(* routeMidiInput() (midi/midi_input_router.h) to the adapter, whose held   *)
(* keys a detector turns into the chord that the accompaniment is           *)
(* transposed to.  What the bytes of a packet stand for is given with them, *)
(* so that what arrives can be compared with what was played.               *)
(***************************************************************************)
EXTENDS ChordNotes, FiniteSets

CONSTANTS
    Packets,        \* sequences of pieces: bytes, and the control events they stand for
    MaxPackets,     \* bound: how many arrive
    MaxOut,         \* the messages a packet may be parsed into (64)
    Notes,          \* the recorded notes that are played
    Rules,          \* the <<ntr, ntt>> pairs they are played with
    Renderings      \* <<renderer, keyswitch of the track, tick>> triples

(* ------------------------------ what is sent ---------------------------- *)

ControlEvents == {"NoteOn", "NoteOff", "Sustain", "Panic"} \X (0..127)

\* The running status that MIDI has piece i of a packet read under, or 0: the last
\* status byte, unless a SysEx or system common message has come since.
StatusAt(p, i) ==
    LET setters == {j \in 1..(i - 1) : p[j].bytes[1] \in 128..247}
        last == p[Max(setters)].bytes[1]
    IN  IF setters = {} \/ last >= 240 THEN 0 ELSE last

\* The data bytes of one channel message: program change and channel pressure
\* have one, the others two.
IsMessage(p, i) ==
    /\ StatusAt(p, i) # 0
    /\ Len(p[i].bytes) = IF StatusAt(p, i) \in 192..223 THEN 1 ELSE 2
    /\ \A k \in 1..Len(p[i].bytes) : p[i].bytes[k] \in 0..127

\* What such a message is for an arranger.
StandsFor(s, d1, d2) ==
    CASE s \in 144..159 /\ d2 # 0 -> <<<<"NoteOn", d1>>>>
      [] s \in 128..143 \/ (s \in 144..159 /\ d2 = 0) -> <<<<"NoteOff", d1>>>>
      [] s \in 176..191 /\ d1 = 64 -> <<<<"Sustain", IF d2 < 64 THEN 0 ELSE 1>>>>
      [] s \in 176..191 /\ d1 = 123 -> <<<<"Panic", 0>>>>
      [] OTHER -> <<>>

\* A status byte, a clock byte or a system common byte; a data byte without a
\* status, or of a message that the packet's end breaks off; a SysEx, which the
\* packet's end may break off too.
IsAside(p, i) ==
    LET b == p[i].bytes
    IN  \/ Len(b) = 1 /\ b[1] \in 128..255 \ {240}
        \/ Len(b) = 1 /\ b[1] \in 0..127 /\ (StatusAt(p, i) = 0 \/ i = Len(p))
        \/ /\ b # <<>> /\ b[1] = 240
           /\ \A k \in 2..(Len(b) - 1) : b[k] # 247
           /\ b[Len(b)] = 247 \/ i = Len(p)

PacketsAssumption == \A p \in Packets :
    /\ p \in Seq([bytes : Seq(0..255), means : Seq(ControlEvents)])
    /\ \A i \in 1..Len(p) :
        IF IsMessage(p, i)
        THEN p[i].means = StandsFor(StatusAt(p, i), p[i].bytes[1],
                                    p[i].bytes[Len(p[i].bytes)])
        ELSE IsAside(p, i) /\ p[i].means = <<>>

ASSUME KeyInputAssumption ==
    /\ PacketsAssumption
    /\ MaxPackets \in Nat /\ MaxOut \in Nat
    /\ Notes \subseteq 0..127
    /\ \A r \in Renderings : r[3] \in Nat

\* The caller's array holds what a packet is parsed into; the parser drops the
\* messages beyond it.
MessagesIn(p, n) == {i \in 1..n : IsMessage(p, i)}
FewMessages == \A p \in Packets : Cardinality(MessagesIn(p, Len(p))) <= MaxOut

BytesOf(p) == FlattenSeq([i \in 1..Len(p) |-> p[i].bytes])
MeaningOf(p) == FlattenSeq([i \in 1..Len(p) |-> p[i].means])

VARIABLES
    played,     \* the control events the packets stand for
    arrived,    \* how many packets have come
    bytes,      \* the bytes from i on of the packet being parsed
    status,     \* its running status
    out,        \* its messages
    posted,     \* the control events posted
    heard       \* the last note the accompaniment has played

keyVars == <<played, arrived, bytes, status, out, posted, heard>>

Silence == [chord |-> NoChord, note |-> 0, ntr |-> "Bypass", ntt |-> "Bypass",
            keyswitch |-> 0, events |-> <<>>]

KeyInit ==
    /\ played = <<>> /\ arrived = 0 /\ posted = <<>>
    /\ bytes = <<>> /\ status = 0 /\ out = <<>>
    /\ heard = Silence

(* -------------------------------- packets ------------------------------- *)

\* midiEventToBytes(): how an event leaves an engine, and comes into the next one.
MidiEventToBytes(e) ==
    LET first == 16 * e.type + (e.channel % 16)
    IN  CASE e.type \in {8, 9, 10, 11, 14} -> <<first, e.d1 % 128, e.d2 % 128>>
          [] e.type \in {12, 13} -> <<first, e.d1 % 128>>
          [] OTHER -> <<>>

(* -------------------------------- parsing ------------------------------- *)

\* Nothing is kept from one packet to the next.
Receive ==
    /\ bytes = <<>> /\ out = <<>>
    /\ arrived < MaxPackets
    /\ \E p \in Packets :
        /\ bytes' = BytesOf(p)
        /\ played' = played \o MeaningOf(p)
    /\ arrived' = arrived + 1
    /\ status' = 0
    /\ heard' = Silence
    /\ UNCHANGED <<out, posted>>

At(class) ==
    /\ bytes # <<>>
    /\ Head(bytes) \in class
    /\ UNCHANGED <<played, arrived, posted, heard>>

\* Mutated form: a clock byte ends the running status.
RealtimeEndsStatus ==
    /\ At(248..255)
    /\ bytes' = Tail(bytes)
    /\ status' = 0
    /\ UNCHANGED out

Realtime ==
    /\ At(248..255)
    /\ bytes' = Tail(bytes)
    /\ UNCHANGED <<status, out>>

\* Through the 0xF7, or to the end of the packet.
SysEx ==
    /\ At({240})
    /\ LET end == SelectInSeq(bytes, LAMBDA b : b = 247)
       IN  bytes' = IF end = 0 THEN <<>> ELSE SubSeq(bytes, end + 1, Len(bytes))
    /\ status' = 0
    /\ UNCHANGED out

SystemCommon ==
    /\ At(241..247)
    /\ bytes' = Tail(bytes)
    /\ status' = 0
    /\ UNCHANGED out

StatusByte ==
    /\ At(128..239)
    /\ bytes' = Tail(bytes)
    /\ status' = Head(bytes)
    /\ UNCHANGED out

StrayData ==
    /\ status = 0
    /\ At(0..127)
    /\ bytes' = Tail(bytes)
    /\ UNCHANGED <<status, out>>

Emitted(m) == IF Len(out) < MaxOut THEN Append(out, m) ELSE out

TypeOf(velocity) ==
    CASE status \div 16 = 9 -> IF velocity = 0 THEN "NoteOff" ELSE "NoteOn"
      [] status \div 16 = 8 -> "NoteOff"
      [] status \div 16 = 11 -> "ControlChange"
      [] OTHER -> "Other"

OneDataByte ==
    /\ status \div 16 \in {12, 13}
    /\ At(0..127)
    /\ bytes' = Tail(bytes)
    /\ out' = Emitted([type |-> "Other", d1 |-> Head(bytes), d2 |-> 0])
    /\ UNCHANGED status

\* The second byte is taken whatever it is.
TwoDataBytes ==
    /\ status # 0 /\ status \div 16 \notin {12, 13}
    /\ At(0..127)
    /\ Len(bytes) > 1
    /\ bytes' = SubSeq(bytes, 3, Len(bytes))
    /\ out' = Emitted([type |-> TypeOf(bytes[2]), d1 |-> bytes[1], d2 |-> bytes[2]])
    /\ UNCHANGED status

\* One data byte of two is left: the parser stops.
Incomplete ==
    /\ status # 0 /\ status \div 16 \notin {12, 13}
    /\ At(0..127)
    /\ Len(bytes) = 1
    /\ bytes' = <<>>
    /\ UNCHANGED <<status, out>>

(* -------------------------------- routing ------------------------------- *)

\* The control events a message becomes: at most one.
Routed(m) ==
    CASE m.type \in {"NoteOn", "NoteOff"} -> <<<<m.type, m.d1>>>>
      [] m.type = "ControlChange" /\ m.d1 = 64 ->
            <<<<"Sustain", IF m.d2 >= 64 THEN 1 ELSE 0>>>>
      [] m.type = "ControlChange" /\ m.d1 = 123 -> <<<<"Panic", 0>>>>
      [] OTHER -> <<>>

\* readProc() parses a packet to its end before its messages are routed.
Route ==
    /\ bytes = <<>> /\ out # <<>>
    /\ posted' = posted \o Routed(Head(out))
    /\ out' = Tail(out)
    /\ UNCHANGED <<played, arrived, bytes, status, heard>>

(* -------------------------- chord, accompaniment ------------------------ *)

\* The keys that are down: pressed and not released since.  (The adapter's pedal
\* and panic handling are the subject of PerformerAdapter.)
Held ==
    {posted[j][2] : j \in {j \in 1..Len(posted) :
        /\ posted[j][1] = "NoteOn"
        /\ \A k \in (j + 1)..Len(posted) : posted[k] # <<"NoteOff", posted[j][2]>>}}

\* A recorded note is dispatched while nothing is being parsed.
Sound ==
    /\ bytes = <<>> /\ out = <<>>
    /\ heard = Silence
    /\ \E mode \in Modes, note \in Notes, rule \in Rules, r \in Renderings :
        LET chord == Detect(mode, Held)
            event == [note |-> Transpose(note, chord, rule[1], rule[2]),
                      velocity |-> 100, tick |-> r[3]]
        IN  heard' = [chord |-> chord, note |-> note,
                      ntr |-> rule[1], ntt |-> rule[2], keyswitch |-> r[2],
                      events |-> Render(r[1], event, r[2])]
    /\ UNCHANGED <<played, arrived, bytes, status, out, posted>>

Parse ==
    \/ Realtime \/ SysEx \/ SystemCommon \/ StatusByte \/ StrayData
    \/ OneDataByte \/ TwoDataBytes \/ Incomplete

KeyNext == Receive \/ Parse \/ Route \/ Sound

KeySpec == KeyInit /\ [][KeyNext]_keyVars

(* ------------------------------ properties ------------------------------ *)

\* However the messages are packed, with running status, clock bytes, SysEx (in
\* one packet or several), system messages and messages of no interest between
\* them: what reaches the adapter is exactly what was played, in its order.  A
\* lost or misread note-off would leave a key held (midi_input_parser.cpp:5-61,
\* midi_input_router.h:27-57).
EventsAreTheMessages ==
    bytes = <<>> /\ out = <<>> => posted = played

\* Whatever keys are held: a note is played in the MIDI range, on a tone of the
\* chord, or of the scale that goes with it where the rule allows it; the source
\* chord's root becomes the root; drums, and notes without a chord, are not
\* moved; and a keyswitch sounds and ends before its note does, without replacing
\* it (engine/music/ntt.cpp:86-134, engine/articulation/renderer.cpp:12-50).
AccompanimentFitsChord ==
    heard # Silence =>
        LET main == Last(heard.events)
            extra == Front(heard.events)
            root == IF heard.ntr = "RootFixed" THEN 60 ELSE heard.chord.root
            rel == (main.note - root) % 12
            tones == ToSet(ChordTones(heard.chord.type))
            scale == ScaleFor(heard.ntt, heard.chord.type)
        IN  /\ main.note \in 0..127 /\ main.velocity = 100
            /\ IF heard.chord.type = "NoChord" \/ "Bypass" \in {heard.ntr, heard.ntt}
               THEN main.note = heard.note
               ELSE /\ heard.note % 12 = 0 => rel = 0
                    /\ rel \in IF heard.ntt \in {"Bass", "Chord", "Guitar"}
                               THEN tones ELSE tones \cup scale
            /\ \A i \in 1..Len(extra) : extra[i].tick <= main.tick
            /\ extra # <<>> => [i \in 1..Len(extra) |->
                                    <<extra[i].note, extra[i].velocity>>]
                               = <<<<heard.keyswitch, 1>>, <<heard.keyswitch, 0>>>>
===============================================================================
