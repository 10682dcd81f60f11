------------------------------- MODULE UasfFile -------------------------------
(***************************************************************************)
(* The repository's own style file (engine/uasf/): what UasfSerializer      *)
(* writes, how UasfDeserializer reads it back header by header, and what    *)
(* UasfValidator calls a valid style.  A file is the sequence of its        *)
(* fixed-size parts; a file that was not written to the end is a prefix of  *)
(* one, and a part that is cut counts as missing, as ensure() does.         *)
(***************************************************************************)
EXTENDS Integers, Sequences, SequencesExt, FiniteSetsExt

CONSTANTS
    MaxSections, MaxTracks, MaxEvents,  \* format::kMaxSections, ... (32, 16, 65536)
    MaxDelta,                           \* 0xFFFFFFFF, the largest tick_delta
    FileSize(_),                        \* the bytes that parts take on disk
    MaxFileSize                         \* format::kMaxFileSize (10 MB)

ASSUME LimitsAssumption ==
    {MaxSections, MaxTracks, MaxEvents, MaxDelta, MaxFileSize} \subseteq Nat \ {0}

VARIABLES
    style,      \* the style that is saved (of an import: SffToUasfResult::style)
    whole,      \* the file on disk was written to its end
    disk,       \* the file: a sequence of parts, <<>> when there is none
    rest,       \* its parts from pos_ on
    todo,       \* the loop counters of deserialize()
    loaded,     \* result.style.sections so far
    verdict     \* "idle", "reading", "ok" or "refused"

uasfVars == <<disk, rest, todo, loaded, verdict>>

NothingLeft == [sections |-> 0, tracks |-> 0, events |-> 0, name |-> FALSE,
                clock |-> 0]

UasfInit ==
    /\ disk = <<>> /\ rest = <<>> /\ todo = NothingLeft
    /\ loaded = <<>> /\ verdict = "idle"

(* ------------------------------- writing -------------------------------- *)

\* deltaEncode(): unsigned, so a step back in time is the largest delta.
Delta(tick, last) == IF tick < last THEN MaxDelta ELSE Min({tick - last, MaxDelta})

EventParts(events) ==
    [i \in 1..Len(events) |->
        [kind |-> "event",
         delta |-> Delta(events[i].tick, IF i = 1 THEN 0 ELSE events[i - 1].tick),
         type |-> events[i].type, channel |-> events[i].channel,
         d1 |-> events[i].d1, d2 |-> events[i].d2]]

TrackParts(t) ==
    <<[kind |-> "track", channel |-> t.channel, role |-> t.role, drum |-> t.drum,
       named |-> t.named, events |-> Min({Len(t.events), MaxEvents})]>>
    \o (IF t.named THEN <<[kind |-> "name"]>> ELSE <<>>)
    \o EventParts(t.events)

SectionParts(s) ==
    <<[kind |-> "section", type |-> s.type, bars |-> s.bars,
       resolution |-> s.resolution, tracks |-> Min({Len(s.tracks), MaxTracks})]>>
    \o FlattenSeq([i \in 1..Len(s.tracks) |-> TrackParts(s.tracks[i])])

\* serialize(): the counts in the headers are limited, what follows is not.
Serialized(st) ==
    <<[kind |-> "file", sections |-> Min({Len(st.sections), MaxSections})]>>
    \o FlattenSeq([i \in 1..Len(st.sections) |-> SectionParts(st.sections[i])])

\* The file is truncated when it is opened and written without a check: when the
\* program is stopped or the disk is full, a prefix of it remains.
Write(st) ==
    /\ disk' \in Prefixes(Serialized(st))
    /\ whole' = (disk' = Serialized(st))

(* ------------------------------- reading -------------------------------- *)

TooLarge(file) == FileSize(file) > MaxFileSize

\* deserializeFromFile(): a file that is too large or shorter than its header, or
\* has another magic number or version, is refused before anything is read.
OpenFile ==
    /\ verdict = "idle"
    /\ loaded' = <<>>
    /\ IF TooLarge(disk) \/ disk = <<>> \/ Head(disk).kind # "file"
       THEN verdict' = "refused" /\ UNCHANGED <<rest, todo>>
       ELSE /\ verdict' = "reading"
            /\ rest' = Tail(disk)
            /\ todo' = [NothingLeft EXCEPT !.sections = Head(disk).sections]
    /\ UNCHANGED disk

NextPart ==
    /\ verdict = "reading"
    /\ rest # <<>>
    /\ rest' = Tail(rest)
    /\ UNCHANGED <<disk, verdict>>

SectionDone == todo.tracks = 0 /\ todo.events = 0 /\ ~todo.name

ReadSectionHeader ==
    /\ SectionDone /\ todo.sections > 0
    /\ NextPart
    /\ loaded' = Append(loaded, [type |-> Head(rest).type, bars |-> Head(rest).bars,
                                 resolution |-> Head(rest).resolution,
                                 tracks |-> <<>>])
    /\ todo' = [todo EXCEPT !.sections = @ - 1, !.tracks = Head(rest).tracks]

\* The accumulated tick starts at 0 in every track.
ReadTrackHeader ==
    /\ todo.events = 0 /\ ~todo.name /\ todo.tracks > 0
    /\ NextPart
    /\ loaded' = [loaded EXCEPT ![Len(loaded)].tracks =
            Append(@, [channel |-> Head(rest).channel, role |-> Head(rest).role,
                       drum |-> Head(rest).drum, named |-> Head(rest).named,
                       events |-> <<>>])]
    /\ todo' = [todo EXCEPT !.tracks = @ - 1, !.events = Head(rest).events,
                            !.name = Head(rest).named, !.clock = 0]

ReadName ==
    /\ todo.name
    /\ NextPart
    /\ todo' = [todo EXCEPT !.name = FALSE]
    /\ UNCHANGED loaded

ReadEvent ==
    /\ ~todo.name /\ todo.events > 0
    /\ NextPart
    /\ LET s == Len(loaded)
           t == Len(loaded[s].tracks)
           e == Head(rest)
       IN  /\ todo' = [todo EXCEPT !.events = @ - 1, !.clock = @ + e.delta]
           /\ loaded' = [loaded EXCEPT ![s].tracks[t].events =
                 Append(@, [tick |-> todo.clock + e.delta, type |-> e.type,
                            channel |-> e.channel, d1 |-> e.d1, d2 |-> e.d2])]

AllRead == todo.sections = 0 /\ SectionDone

\* Mutated form: what was read before the end of the file is a style.
TruncatedAccepted ==
    /\ verdict = "reading" /\ ~AllRead /\ rest = <<>>
    /\ verdict' = "ok"
    /\ UNCHANGED <<disk, rest, todo, loaded>>

\* ensure() fails: "Truncated section header", "track header", "event data".
Truncated ==
    /\ verdict = "reading" /\ ~AllRead /\ rest = <<>>
    /\ verdict' = "refused"
    /\ UNCHANGED <<disk, rest, todo, loaded>>

Accept ==
    /\ verdict = "reading" /\ AllRead
    /\ verdict' = "ok"
    /\ UNCHANGED <<disk, rest, todo, loaded>>

UasfNext ==
    \/ OpenFile \/ ReadSectionHeader \/ ReadTrackHeader \/ ReadName \/ ReadEvent
    \/ Truncated \/ Accept

\* The style's resolution is that of the first section that has one.
ResolutionOf(sections) ==
    LET i == SelectInSeq(sections, LAMBDA s : s.resolution > 0)
    IN  IF i = 0 THEN 480 ELSE sections[i].resolution

(* ------------------------------ validation ------------------------------ *)

\* UasfValidator::validate(): no issue of severity ERROR.
ValidStyle(st) ==
    /\ st.resolution \in 1..960
    /\ st.sections # <<>>
    /\ \A s \in ToSet(st.sections) :
        /\ s.bars # 0 /\ s.resolution # 0
        /\ \A t \in ToSet(s.tracks) : t.channel <= 15 /\ Len(t.events) <= MaxEvents

(* ---------------------- a style saved and read back ---------------------- *)

\* The styles a file has room for: what a header counts is within its limits, and
\* a tick within the 32 bits of a delta.
Nibble == 0..15
Byte == 0..255
Word == 0..65535
EventDefs ==
    [tick : 0..MaxDelta, type : Nibble, channel : Nibble, d1 : Byte, d2 : Byte]
TrackDefs ==
    {t \in [channel : Byte, role : STRING, drum : BOOLEAN, named : BOOLEAN,
            events : Seq(EventDefs)] : Len(t.events) <= MaxEvents}
SectionDefs ==
    {s \in [type : STRING, bars : Word, resolution : Word, tracks : Seq(TrackDefs)] :
        Len(s.tracks) <= MaxTracks}
Storable ==
    {st \in [resolution : Nat, sections : Seq(SectionDefs)] :
        Len(st.sections) <= MaxSections}

\* What is left of a saved style is read, whoever saved it.
SavedInit ==
    /\ style \in Storable
    /\ disk \in Prefixes(Serialized(style))
    /\ whole = (disk = Serialized(style))
    /\ rest = <<>> /\ todo = NothingLeft /\ loaded = <<>> /\ verdict = "idle"

UasfSpec ==
    SavedInit /\ [][UasfNext /\ UNCHANGED <<style, whole>>]_<<style, whole, uasfVars>>

(* ------------------------------ properties ------------------------------ *)

\* Times survive as long as those of a track do not step back.
Steady(t) == \A i \in 2..Len(t.events) : t.events[i - 1].tick <= t.events[i].tick

Untimed(t) == [t EXCEPT !.events = [i \in DOMAIN @ |-> [@[i] EXCEPT !.tick = 0]]]

SameTracks(mine, theirs) ==
    /\ Len(mine) = Len(theirs)
    /\ \A i \in DOMAIN mine :
        /\ Untimed(mine[i]) = Untimed(theirs[i])
        /\ Steady(theirs[i]) => mine[i] = theirs[i]

\* A UASF file that was not written to its end is refused as a whole, wherever it
\* breaks off, as is one that is too large, which the serializer writes all the
\* same; any other gives back every section, track and event of the style that was
\* saved, each event at its tick in every track whose ticks do not step back,
\* whatever the tracks before it do (serializer.cpp:7-80, deserializer.cpp:7-151).
TornFileRefused ==
    verdict \in {"ok", "refused"} =>
        /\ whole /\ ~TooLarge(disk) <=> verdict = "ok"
        /\ verdict = "ok" =>
            /\ Len(loaded) = Len(style.sections)
            /\ \A i \in DOMAIN loaded :
                /\ [loaded[i] EXCEPT !.tracks = <<>>] = [style.sections[i] EXCEPT !.tracks = <<>>]
                /\ SameTracks(loaded[i].tracks, style.sections[i].tracks)
===============================================================================
