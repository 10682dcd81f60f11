----------------------------- MODULE StyleImport -----------------------------
(***************************************************************************)
(* Importing a Yamaha style, end to end.  The live host reads the file,     *)
(* maps it and gives the style to its engine (LiveHostComponent.cpp,        *)
(* loadStyleDialog); the command line tool maps it and writes a UASF file   *)
(* (tools/sff1_parser_cli.cpp), which the style browser and the player tool *)
(* load later.  The reader and the file are the modules extended here; the  *)
(* mapper (importers/sff1/sff1_mapper.cpp) is what stands between them.     *)
(***************************************************************************)
EXTENDS Sff1Reader, UasfFile, SmfCapture, DemoStyle

CONSTANT Shells         \* who imports: a subset of {"live", "tool", "demo"}

VARIABLES
    shell,      \* who does
    stage,      \* "reading", "mapped", "saved", "done"
    casmStyle,  \* SffToUasfResult::casm_sections
    engine      \* <<the style given to the engine>>, <<>> before

importVars == <<shell, stage, style, casmStyle, whole, engine>>
vars == <<readerVars, uasfVars, importVars>>

Nothing == [resolution |-> 480, sections |-> <<>>]

ImportInit ==
    /\ Init /\ UasfInit
    /\ shell \in Shells
    /\ shell = "demo" => opened = <<>>
    /\ stage = "reading" /\ style = Nothing /\ casmStyle = <<>>
    /\ whole = TRUE /\ engine = <<>>

(* ------------------------------ the mapper ------------------------------ *)


\* The tests of an if/else chain in order: <<condition, answer>> pairs, the last
\* condition TRUE.
FirstOf(rules) == rules[SelectInSeq(rules, LAMBDA r : r[1])][2]

CasmTrackRole(cfg) ==
    LET has(word) == word \in cfg.name
        drums == cfg.channel = 9 \/ has("rhythm") \/ has("drum")
    IN  FirstOf(<< <<drums /\ has("rhythm2"), "Percussion">>,
                   <<drums, "Drum">>,
                   <<has("bass") \/ cfg.bass, "Bass">>,
                   <<has("chord"), "Chord">>,
                   <<has("pad"), "Pad">>,
                   <<has("phrase2"), "Phrase2">>,
                   <<has("phrase"), "Phrase1">>,
                   <<TRUE, "Accompaniment">> >>)

CasmSectionType(name) ==
    LET has(word) == word \in name
        Variant(base, words) ==
            FirstOf([i \in 1..Len(words) |-> <<has(words[i][1]), base \o words[i][2]>>]
                    \o << <<TRUE, base \o "1">> >>)
    IN  FirstOf(<< <<has("intro"), Variant("Intro", << <<" c", "3">>, <<" b", "2">> >>)>>,
                   <<has("ending"), Variant("Ending", << <<" c", "3">>, <<" b", "2">> >>)>>,
                   <<has("break"), "Break">>,
                   <<has("fill"), Variant("Fill",
                       << <<"bb", "2">>, <<"cc", "3">>, <<"dd", "4">> >>)>>,
                   <<has("main"), Variant("Main",
                       << <<" d", "4">>, <<" c", "3">>, <<" b", "2">> >>)>>,
                   <<TRUE, "Main1">> >>)

\* chanConfig: the first config for a channel, those beyond 15 left out.
ConfigOf(channel) ==
    SelectInSeq(result.configs, LAMBDA c : c.channel = channel /\ channel <= 15)

MapMidiEvent(e) ==
    [tick |-> e.tick, type |-> e.status \div 16, channel |-> e.status % 16,
     d1 |-> e.d1, d2 |-> e.d2]

Track(channel, events) ==
    LET i == ConfigOf(channel)
        role == IF i # 0 THEN CasmTrackRole(result.configs[i])
                ELSE IF channel = 9 THEN "Drum" ELSE "Phrase1"
    IN  [channel |-> channel, role |-> role,
         drum |-> role \in {"Drum", "Percussion"},
         named |-> i # 0 => result.configs[i].name # {},
         events |-> SelectSeq(events, LAMBDA e : e.channel = channel)]

\* One track for every channel that has events, in ascending order.
MapSection(s) ==
    LET raw == FlattenSeq(s.tracks)
        events == [i \in 1..Len(raw) |-> MapMidiEvent(raw[i])]
        channels == SetToSortSeq({e.channel : e \in ToSet(events)}, <)
    IN  [type |-> s.type, bars |-> 4, resolution |-> s.resolution,
         tracks |-> [i \in 1..Len(channels) |-> Track(channels[i], events)]]

MapCasmSection(s) ==
    [type |-> CasmSectionType(s.name),
     tracks |-> [i \in 1..Len(s.tracks) |->
        <<s.tracks[i].channel, CasmTrackRole(s.tracks[i])>>]]

MapStyle ==
    /\ stage = "reading" /\ Success /\ shell # "demo"
    /\ result.sections # <<>> \/ result.casm # <<>>
    /\ stage' = "mapped"
    /\ style' = [resolution |-> ResolutionOf(result.sections),
                 sections |-> [i \in 1..Len(result.sections) |->
                                MapSection(result.sections[i])]]
    /\ casmStyle' = [i \in 1..Len(result.casm) |-> MapCasmSection(result.casm[i])]
    /\ UNCHANGED <<readerVars, uasfVars, shell, whole, engine>>

\* "Load failed", "Map failed": the old style stays.
ImportFails ==
    /\ stage = "reading" /\ reading = "done" /\ shell # "demo"
    /\ Success => result.sections = <<>> /\ result.casm = <<>>
    /\ stage' = "done"
    /\ UNCHANGED <<readerVars, uasfVars, shell, style, casmStyle, whole, engine>>

(* ------------------------- what becomes of a style ----------------------- *)

\* Nothing is imported: the style is the built-in one, which the session boots
\* with, and which the serializer's test saves and loads.
BootDemo ==
    /\ stage = "reading" /\ shell = "demo"
    /\ stage' = "mapped"
    /\ style' = BuildDemoStyle
    /\ engine' = <<BuildDemoStyle>>
    /\ UNCHANGED <<readerVars, uasfVars, shell, casmStyle, whole>>

\* LiveHostDriver::reloadStyle(): stop, Panic, loadStyle, restart.
GiveToEngine ==
    /\ stage = "mapped" /\ shell = "live"
    /\ stage' = "done"
    /\ engine' = <<style>>
    /\ UNCHANGED <<readerVars, uasfVars, shell, style, casmStyle, whole>>

SaveUasf ==
    /\ stage = "mapped" /\ shell \in {"tool", "demo"}
    /\ stage' = "saved"
    /\ Write(style)
    /\ UNCHANGED <<readerVars, rest, todo, loaded, verdict>>
    /\ UNCHANGED <<shell, style, casmStyle, engine>>

LoadUasf ==
    /\ stage = "saved"
    /\ UasfNext
    /\ UNCHANGED <<readerVars, importVars>>

\* The style browser gives a file that was read to the session, and says nothing
\* of one that was not.
Loaded ==
    /\ stage = "saved" /\ verdict \in {"ok", "refused"}
    /\ stage' = "done"
    /\ engine' = IF verdict = "ok"
                 THEN <<[resolution |-> ResolutionOf(loaded),
                        sections |-> loaded]>>
                 ELSE engine
    /\ UNCHANGED <<readerVars, uasfVars, shell, style, casmStyle, whole>>

ReadFile == stage = "reading" /\ shell # "demo" /\ ReaderNext /\ UNCHANGED <<uasfVars, importVars>>

ImportNext ==
    \/ ReadFile \/ MapStyle \/ ImportFails \/ BootDemo \/ GiveToEngine \/ SaveUasf
    \/ LoadUasf \/ Loaded

Spec == ImportInit /\ [][ImportNext]_vars

(* -------------------- what the tool says of an import -------------------- *)

\* --debug-counters: the note events the reader found, and those of a style.
SourceNotes ==
    LET tracks == FlattenSeq([i \in DOMAIN result.sections |-> result.sections[i].tracks])
    IN  Len(SelectSeq(FlattenSeq(tracks), LAMBDA e : e.status \div 16 \in {8, 9}))

CountNotes(sections) ==
    LET tracks == FlattenSeq([i \in DOMAIN sections |-> sections[i].tracks])
        events == FlattenSeq([i \in DOMAIN tracks |-> tracks[i].events])
    IN  Len(SelectSeq(events, LAMBDA e : e.type \in {8, 9}))

\* The report's event parse rate: sections with events, of all sections.
SectionsWithEvents ==
    Cardinality({i \in DOMAIN result.sections :
                    \E t \in ToSet(result.sections[i].tracks) : t # <<>>})

(* ------------------------------ properties ------------------------------ *)

Replaced == stage = "done" /\ engine # <<>> /\ shell # "demo"

\* A track chunk that was not cut ends with the end-of-track event.
Complete(chunks) ==
    \A c \in ToSet(chunks) : c.id = "MTrk" => IsSuffix(<<255, 47, 0>>, c.data)

\* What a style plays on a channel, in the order of the file: everything but
\* the events whose type is that of no MIDI channel message.
Played(channel) ==
    LET tracks == FlattenSeq([i \in 1..Len(engine[1].sections) |->
                                engine[1].sections[i].tracks])
        mine == SelectSeq(tracks, LAMBDA t : t.channel = channel)
        events == FlattenSeq([i \in 1..Len(mine) |-> mine[i].events])
    IN  SelectSeq(events, LAMBDA e : e.type < 15)

Recorded(channel) ==
    SelectSeq(Captured(opened), LAMBDA e : e.status % 16 = channel)

\* The messages agree, their times left aside.  Of a file that is cut, the last
\* message of a channel may be the one that is.
SameMessages(played, recorded) ==
    /\ Len(played) = Len(recorded)
    /\ \A i \in 1..Len(played) :
        /\ played[i].type = recorded[i].status \div 16
        /\ \/ played[i].d1 = recorded[i].d1 /\ played[i].d2 = recorded[i].d2
           \/ i = Len(played) /\ ~Complete(opened)

\* Whatever mixture of running status, meta events and SysEx a track has, and
\* through whichever shell the style reaches the engine, every channel plays
\* exactly the messages that the repository's other MIDI file reader finds for
\* it, in the order of the file: none is lost, made up, or moved to another
\* channel (sff1_reader.cpp:194-286, sff1_mapper.cpp:74-122, the UASF writer and
\* reader between them).  And of every file, whatever its chunks, what the tool
\* reports is true: its note counters show no loss point
\* (sff1_parser_cli.cpp:71-73), and a section has a track in the style exactly
\* when the report counts it as one with events.
ImportKeepsNotes ==
    /\ Replaced /\ Head(opened).id = "MThd" =>
        \A channel \in 0..15 : SameMessages(Played(channel), Recorded(channel))
    /\ Replaced =>
        LET sections == engine[1].sections
        IN  /\ CountNotes(sections) = SourceNotes
            /\ SectionsWithEvents = Cardinality({i \in DOMAIN sections : sections[i].tracks # <<>>})

\* The same for the times.  The importer's own specification asks for "standard
\* SMF events (variable-length delta time + event data)"
\* (file-import-strategy-v0.9.md:122).
ImportKeepsTicks ==
    Replaced /\ Head(opened).id = "MThd" /\ Complete(opened) =>
        \A channel \in 0..15 :
            LET played == Played(channel)
                recorded == Recorded(channel)
            IN  \A i \in 1..Len(played) \cap 1..Len(recorded) :
                    played[i].tick = recorded[i].tick

\* LiveHostComponent.cpp:155: "Parse + map succeeded, so the old style is only
\* replaced by a valid one."  Validity is UasfValidator's.
OldStyleKeptUnlessValid == shell = "live" /\ Replaced => ValidStyle(engine[1])

\* A track configuration belongs to the section whose Sdec it follows within the
\* same CSEG, and so do its channel and its role: the flat list, the nesting of
\* CSEGs and the index of the current section that is kept across them do not
\* mix them up (sff1_reader.cpp:387-487; docs/importers/casm-structure-notes.md:
\* "The Ctb2 sub-chunks that follow an Sdec (within the same CSEG) are that
\* section's source-channel track configs").
RECURSIVE Declared(_)
Declared(items) ==
    FlattenSeq([i \in 1..Len(items) |->
        CASE items[i].id = "CSEG" -> Declared(items[i].items)
          [] items[i].id = "Sdec" ->
             LET next == {j \in i + 1..Len(items) : items[j].id = "Sdec"}
                 own == SubSeq(items, i + 1,
                               IF next = {} THEN Len(items) ELSE Min(next) - 1)
                 blocks == SelectSeq(own, LAMBDA b : b.id = "Ctb2" /\ b.size >= 24)
             IN  <<[name |-> items[i].name,
                    tracks |-> [b \in 1..Len(blocks) |-> blocks[b].config]]>>
          [] OTHER -> <<>>])

TracksFollowTheirSdec ==
    stage = "mapped" =>
        LET casm == SelectSeq(opened, LAMBDA c : c.id = "CASM")
            declared == FlattenSeq([i \in 1..Len(casm) |-> Declared(casm[i].items)])
        IN  casmStyle = [i \in 1..Len(declared) |-> MapCasmSection(declared[i])]
===============================================================================
