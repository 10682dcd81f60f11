------------------------------ MODULE Sff1Reader ------------------------------
(***************************************************************************)
(* Sff1Reader (importers/sff1/sff1_reader.cpp): one pass over the chunks of *)
(* a Yamaha style file.  A file is the sequence of its chunks.  The bytes   *)
(* of a track chunk and of a header stay bytes, because the reader finds    *)
(* the messages in them; a CASM chunk is a sequence of items, because its   *)
(* framing (id, big-endian size, data) is read the same way everywhere.     *)
(* A name is the set of the words the importer looks for in it.             *)
(***************************************************************************)
EXTENDS Integers, Sequences, SequencesExt, FiniteSetsExt

CONSTANT Files           \* the files that may be opened

VARIABLES
    opened,     \* the file given to parseFile()
    file,       \* its chunks still to be read: data_[pos_..size_)
    reading,    \* which loop the reader is in
    track,      \* the locals of parseMidiEvents()
    calls,      \* the items left of each parseCasm() in progress, inner last
    current,    \* casm_section_idx_ (0: no section yet)
    result      \* result_: chunks read, sections, CASM sections and configs

readerVars == <<opened, file, reading, track, calls, current, result>>

(* ------------------------------ the file -------------------------------- *)

\* What stands where a chunk should: fewer than 8 bytes, or an id that is not
\* printable.  The reader stops there.
IsChunk(c) == c.id # ""

Init ==
    /\ opened \in Files
    /\ file = opened
    /\ reading = "chunks"
    /\ track = [d |-> <<>>, tick |-> 0, running |-> 0, events |-> <<>>]
    /\ calls = <<>>
    /\ current = 0
    /\ result = [chunks |-> 0, sections |-> <<>>, casm |-> <<>>,
                 configs |-> <<>>]

\* The chunk at pos_ is read; its handler leaves these alone.
NextChunk(id) ==
    /\ reading = "chunks"
    /\ file # <<>>
    /\ IsChunk(Head(file))
    /\ Head(file).id \in id
    /\ file' = Tail(file)
    /\ UNCHANGED <<opened, current>>

Counted(r) == [r EXCEPT !.chunks = @ + 1]

(* --------------------------- sections, header --------------------------- *)

\* parseSection(): as many empty tracks as the first byte says, 12 at most,
\* and none when that byte is all there is.  A new SffSection is an Intro 1.
EmptyTracks(data) ==
    IF Len(data) > 1 THEN [i \in 1..Min({data[1], 12}) |-> <<>>] ELSE <<>>

ReadSection ==
    /\ NextChunk({"SInt", "Sect"})
    /\ result' = Counted([result EXCEPT !.sections = Append(@,
            [type |-> "Intro1", resolution |-> 480,
             tracks |-> EmptyTracks(Head(file).data)])])
    /\ UNCHANGED <<reading, track, calls>>

\* parseMThd(): bytes 5 and 6 are the division, without its SMPTE bit.
ReadHeader ==
    /\ NextChunk({"MThd"})
    /\ LET data == Head(file).data
       IN  result' = Counted(IF Len(data) < 6 THEN result
            ELSE [result EXCEPT !.sections = Append(@,
                    [type |-> "Main1",
                     resolution |-> (256 * data[5] + data[6]) % 32768,
                     tracks |-> <<>>])])
    /\ UNCHANGED <<reading, track, calls>>

SkipChunk ==
    /\ NextChunk({"SFF1", "OTSc", "OTS ", "Midi"})
    /\ result' = Counted(result)
    /\ UNCHANGED <<reading, track, calls>>

EndOfFile ==
    /\ reading = "chunks"
    /\ file # <<>> => ~IsChunk(Head(file))
    /\ reading' = "done"
    /\ UNCHANGED <<opened, file, track, calls, current, result>>

(* ------------------------------ one track ------------------------------- *)

\* The length of the variable-length number s begins with: at most 4 bytes,
\* the last one below 128.  0 when s has no such number.
NumberLength(s) ==
    LET ends == {i \in 1..Min({4, Len(s)}) : s[i] < 128}
    IN  IF ends = {} THEN 0 ELSE Min(ends)

\* The reader shifts byte i by 7 * (i - 1).
Number(s) ==
    LET bytes == IF NumberLength(s) = 0 THEN SubSeq(s, 1, Min({4, Len(s)}))
                 ELSE SubSeq(s, 1, NumberLength(s))
    IN  FoldRight(LAMBDA b, high : high * 128 + (b % 128), bytes, 0)

Drop(s, n) == SubSeq(s, n + 1, Len(s))

\* What the loop sees: the time of the next message, its status byte (running
\* status when there is none) and the bytes after that.
AtMessage == NumberLength(track.d) > 0 /\ Len(track.d) > NumberLength(track.d)
AfterDelta == Drop(track.d, NumberLength(track.d))
Time == track.tick + Number(track.d)
Status == IF Head(AfterDelta) >= 128 THEN Head(AfterDelta) ELSE track.running
Body == IF Head(AfterDelta) >= 128 THEN Tail(AfterDelta) ELSE AfterDelta

\* Mutated form: every channel message has two data bytes.
TwoDataBytes(status) == 2

\* One data byte for program change and channel pressure, two for the others.
DataBytes(status) == IF status \div 16 \in {12, 13} THEN 1 ELSE 2

ReadTrack ==
    /\ NextChunk({"MTrk"})
    /\ result' = Counted(result)
    /\ IF Head(file).data = <<>> THEN UNCHANGED <<reading, track>>
       ELSE /\ reading' = "track"
            /\ track' = [d |-> Head(file).data, tick |-> 0, running |-> 0,
                         events |-> <<>>]
    /\ UNCHANGED calls

Message(class) ==
    /\ reading = "track"
    /\ AtMessage
    /\ Status \in class
    /\ UNCHANGED <<opened, file, reading, calls, current, result>>

Event(d1, d2) == [tick |-> Time, status |-> Status, d1 |-> d1, d2 |-> d2]

\* The loop goes on after the first n bytes of the body; e is what it pushes.
Advance(n, e) ==
    track' = [d |-> Drop(Body, n), tick |-> Time, running |-> Status,
              events |-> track.events \o e]

ChannelMessage ==
    /\ Message(128..239)
    /\ LET n == DataBytes(Status)
       IN  /\ Len(Body) >= n
           /\ Advance(n, <<Event(Body[1], IF n = 2 THEN Body[2] ELSE 0)>>)

\* The data is missing: the event is pushed all the same, with zeros.
CutShort ==
    /\ Message(128..239)
    /\ Len(Body) < DataBytes(Status)
    /\ Advance(0, <<Event(0, 0)>>)

\* SysEx and the other system messages: only the status byte is consumed.
SystemMessage == Message(240..254) /\ Advance(0, <<>>)

\* A meta event is skipped by its length.
SkipMeta ==
    /\ Message({255})
    /\ Len(Body) > 1
    /\ Body[1] # 47
    /\ LET length == Tail(Body)
       IN  Advance(1 + NumberLength(length) + Number(length), <<>>)

\* End-of-track, or a meta event cut short: the break leaves the switch only,
\* so the event made below it is pushed, and the loop goes on.
MetaPushed ==
    /\ Message({255})
    /\ Len(Body) > 1 => Body[1] = 47
    /\ Advance(IF Len(Body) < 2 THEN Len(Body)
               ELSE 1 + NumberLength(Tail(Body)), <<Event(0, 0)>>)

\* The loop ends; parseMTrk() gives the events, when there are any, to the
\* section read last.
EndOfTrack ==
    /\ reading = "track"
    /\ AtMessage => Status = 0
    /\ reading' = "chunks"
    /\ LET n == Len(result.sections)
       IN  result' = IF n = 0 \/ track.events = <<>> THEN result
                     ELSE [result EXCEPT !.sections[n].tracks =
                              Append(@, track.events)]
    /\ UNCHANGED <<opened, file, track, calls, current>>

(* -------------------------------- CASM ---------------------------------- *)

\* parseCasm() skips the header of a CSEG at the very start of its data.
Opened(items) ==
    IF Head(items).id = "CSEG" THEN Head(items).items \o Tail(items) ELSE items

OpenCasm ==
    /\ NextChunk({"CASM"})
    /\ result' = Counted(result)
    /\ IF Head(file).items = <<>> THEN UNCHANGED <<reading, calls>>
       ELSE reading' = "casm" /\ calls' = <<Opened(Head(file).items)>>
    /\ UNCHANGED track

Item == Head(Last(calls))
ItemRead == [calls EXCEPT ![Len(calls)] = Tail(@)]

NextItem(id) ==
    /\ reading = "casm"
    /\ Last(calls) # <<>>
    /\ Item.id \in id
    /\ UNCHANGED <<opened, file, reading, track>>

\* Mutated form: the index of the new section is one too low.
ReadSdecOffByOne ==
    /\ NextItem({"Sdec"})
    /\ calls' = ItemRead
    /\ result' = [result EXCEPT !.casm =
                    Append(@, [name |-> Item.name, tracks |-> <<>>])]
    /\ current' = Len(result.casm)

\* A name that is empty, blank or longer than 64 bytes (here: {}) opens nothing.
ReadSdec ==
    /\ NextItem({"Sdec"})
    /\ calls' = ItemRead
    /\ IF Item.name = {} THEN UNCHANGED <<current, result>>
       ELSE /\ result' = [result EXCEPT !.casm =
                            Append(@, [name |-> Item.name, tracks |-> <<>>])]
            /\ current' = Len(result.casm) + 1

\* parseCtb2Block(): a block shorter than 24 bytes is skipped; the others are
\* kept in the flat list and attached to the current section.
Attached(cfg) ==
    [result EXCEPT !.configs = Append(@, cfg),
                   !.casm = IF current = 0 THEN @
                            ELSE [@ EXCEPT ![current].tracks = Append(@, cfg)]]

ReadCtb2 ==
    /\ NextItem({"Ctb2"})
    /\ calls' = ItemRead
    /\ result' = IF Item.size < 24 THEN result ELSE Attached(Item.config)
    /\ UNCHANGED current

EnterCseg ==
    /\ NextItem({"CSEG"})
    /\ calls' = IF Item.items = <<>> THEN ItemRead
                ELSE Append(ItemRead, Opened(Item.items))
    /\ UNCHANGED <<current, result>>

SkipItem ==
    /\ NextItem({"Cntt"})
    /\ calls' = ItemRead
    /\ UNCHANGED <<current, result>>

\* The items are used up, or the next one says it is longer than what is left.
LeaveCasm ==
    /\ reading = "casm"
    /\ Last(calls) # <<>> => Item.id = "cut"
    /\ calls' = Front(calls)
    /\ reading' = IF Len(calls) = 1 THEN "chunks" ELSE "casm"
    /\ UNCHANGED <<opened, file, track, current, result>>

ReaderNext ==
    \/ ReadSection \/ ReadHeader \/ ReadTrack \/ OpenCasm \/ SkipChunk
    \/ EndOfFile
    \/ ChannelMessage \/ CutShort \/ SystemMessage \/ SkipMeta \/ MetaPushed
    \/ EndOfTrack
    \/ ReadSdec \/ ReadCtb2 \/ EnterCseg \/ SkipItem \/ LeaveCasm

\* parseBuffer(): a file is read when it had at least one chunk.
Success == reading = "done" /\ result.chunks > 0
===============================================================================
