------------------------------- MODULE MCImport -------------------------------
(***************************************************************************)
(* Files for the runs of StyleImport, written the way a Standard MIDI File  *)
(* and a CASM chunk are.                                                    *)
(***************************************************************************)
EXTENDS StyleImport

CONSTANTS
    Deltas,         \* delta times
    MaxMessages,    \* messages a track has before its end-of-track event
    Layouts         \* the kinds of file: a subset of {"whole",
                    \* "cut" (with one message less), "chunks", "casm",
                    \* "large"}

(* --------------------------- tracks, as bytes --------------------------- *)

\* A variable-length number below 16384, most significant byte first.
Bytes(n) == IF n < 128 THEN <<n>> ELSE <<128 + (n \div 128), n % 128>>

\* A message: its delta, its status byte, what follows, and whether the status
\* byte is left out when it is the same as before.
Bodies ==
    {[status |-> 144, rest |-> <<60, 100>>], [status |-> 128, rest |-> <<60, 0>>],
     [status |-> 153, rest |-> <<36, 90>>], [status |-> 193, rest |-> <<5>>],
     [status |-> 240, rest |-> <<3, 67, 16, 247>>],
     [status |-> 255, rest |-> <<1, 2, 65, 66>>]}
Messages == [delta : Deltas, body : Bodies, running : BOOLEAN]

EndOfTrackEvent == <<0, 255, 47, 0>>

Encoded(ms) ==
    FlattenSeq([i \in 1..Len(ms) |->
        LET same == i > 1 /\ ms[i].running /\ ms[i].body.status < 240
                          /\ ms[i].body.status = ms[i - 1].body.status
        IN  Bytes(ms[i].delta) \o (IF same THEN <<>> ELSE <<ms[i].body.status>>)
                               \o ms[i].body.rest]) \o EndOfTrackEvent

\* Messages that say "running" say it after one with the same status only.
Lists(n) ==
    {ms \in BoundedSeq(Messages, n) :
        \A i \in 1..Len(ms) : ms[i].running =>
            i > 1 /\ ms[i].body.status < 240
                  /\ ms[i].body.status = ms[i - 1].body.status}

MTrk(ms) == [id |-> "MTrk", data |-> Encoded(ms)]
MThd(division) ==
    [id |-> "MThd", data |-> <<0, 1, 0, 1, division \div 256, division % 256>>]

(* --------------------------------- CASM --------------------------------- *)

Config(words, channel) == [name |-> words, channel |-> channel, bass |-> FALSE]
Ctb2(words, channel) ==
    [id |-> "Ctb2", size |-> 47, config |-> Config(words, channel)]
Sdec(words) == [id |-> "Sdec", name |-> words]
Cseg(items) == [id |-> "CSEG", items |-> items]
Drums == Ctb2({"rhythm"}, 8)
Extra == Ctb2({"rhythm", "rhythm2"}, 9)
Bass  == Ctb2({"bass"}, 1)
Chord == Ctb2({"chord"}, 0)
MainA == Sdec({"main", " a"})
MainB == Sdec({"main", " b"})
FillB == Sdec({"fill", "bb"})
Short == [id |-> "Ctb2", size |-> 12, config |-> Config({"pad"}, 0)]
Other == [id |-> "Cntt"]
TooLong == [id |-> "cut"]

\* The layout of casm-structure-notes.md: the first section directly in the outer
\* CSEG, each of the others in one of its own; with a block that is short, one of
\* another kind, a channel that is none, an inner CSEG that is empty, one that
\* begins with a CSEG, and one that is cut.
Casms ==
    LET inner == {<<>>, <<MainB>>, <<MainB, Bass, Chord>>, <<MainB, Other, Short, Bass>>,
                  <<Cseg(<<FillB, Drums>>)>>, <<MainB, Chord, TooLong>>,
                  <<MainB, Ctb2({"pad"}, 16), Ctb2({"phrase2"}, 2)>>}
    IN  {<<Cseg(<<MainA, Drums, Extra, Cseg(i), Cseg(j)>>)>> : i, j \in inner}
        \cup {<<>>, <<MainA, Chord>>, <<MainA, Chord, Cseg(<<FillB, Bass>>)>>}

(* ---------------------------- what is saved ----------------------------- *)

\* The sizes of format.h's headers and events, and a name of 8 characters.
PartSize == [file |-> 16, section |-> 9, track |-> 12, name |-> 8, event |-> 8]
MCFileSize(parts) == FoldLeft(LAMBDA n, p : n + PartSize[p.kind], 0, parts)

(* -------------------------------- files --------------------------------- *)

Few == {<<>>} \cup {<<m>> : m \in {x \in Messages : ~x.running}}
Note == [delta |-> 0, body |-> [status |-> 144, rest |-> <<60, 100>>], running |-> FALSE]
Cut(c, n) == [c EXCEPT !.data = SubSeq(@, 1, n)]
SInt(n) == [id |-> "SInt", data |-> <<n, 0>>]
Trailing == [id |-> ""]

WholeFiles == {<<MThd(480), MTrk(ms)>> : ms \in Lists(MaxMessages)}

CutFiles ==
    UNION {{<<MThd(1920), Cut(MTrk(ms), n)>> : n \in 0..Len(Encoded(ms))} :
            ms \in Lists(MaxMessages - 1)}

\* Other chunks around one or two tracks, headers that are short or repeated,
\* sections that are not the MIDI file's, bytes after the last chunk.
ChunkFiles ==
    {<<MThd(480), MTrk(a), MTrk(b)>> : a, b \in Few}
    \cup {<<MThd(480), [id |-> "SFF1", data |-> <<>>], SInt(2), MTrk(a), Trailing>> : a \in Few}
    \cup {<<first, MTrk(a)>> : a \in Few, first \in
            {SInt(13), [id |-> "Sect", data |-> <<3>>], Cut(MThd(480), 4),
             [id |-> "OTSc", data |-> <<>>], Trailing}}
    \cup {<<>>, <<[id |-> "MTrk", data |-> <<>>]>>}

CasmFiles ==
    {f \o <<[id |-> "CASM", items |-> c]>> : c \in Casms,
        f \in {<<>>, <<MThd(1920), MTrk(<<Note>>)>>}}

\* What is made of this one is too large to be read back.
LargeFile == <<MThd(480), MTrk([i \in 1..150 |-> Note])>>

MCFiles ==
    (IF "whole" \in Layouts THEN WholeFiles ELSE {})
    \cup (IF "cut" \in Layouts THEN CutFiles ELSE {})
    \cup (IF "chunks" \in Layouts THEN ChunkFiles ELSE {})
    \cup (IF "casm" \in Layouts THEN CasmFiles ELSE {})
    \cup (IF "large" \in Layouts THEN {LargeFile} ELSE {})
===============================================================================
