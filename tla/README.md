# TLA+ verification of the AI Arranger engine

The AI Arranger plays an accompaniment style under the chords a performer holds
down: MIDI comes in from a keyboard, chords are detected, the style's current
section is dispatched voiced under the chord, and MIDI goes out to a module. The
hazards of such a program are notes that never end, events in the wrong order,
threads that meet at a callback or a ring, and commands that come at the wrong
moment. This directory holds models of those parts, the TLC runs that check
them, and proofs.

Paths below are relative to the repository; `engine/` is `src/engine/`.

## 1. The system

| Component | State it keeps | Operations | Met by |
|---|---|---|---|
| Section sequencer (`engine/arranger/section_sequencer`) | sections, state, current and queued section, last bar start, chord | setSections, queue*, advance, panic | StylePlayer |
| Style player (`engine/arranger/style_player`) | section origin, dispatch cursor, swing, style | start, stop, panic, setChord, queue*, tick, setSwing, loadStyle | adapter, session |
| MIDI scheduler (`engine/midi/scheduler`) | a ring of events | scheduleEvent, advanceTo, clear | player, facade |
| Panic handler (`engine/midi/panic`) | a bit per note, a count | noteOn, noteOff, flushActiveNotes, panic | player |
| Note balance (`engine/midi/note_balance`) | a count per note of what came out | observe, reset | output callback |
| Realtime clock (`engine/realtime/clock`) | samples, tempo, running, cached values | set*, start, stop, reset, advance | facade, player, adapter |
| Performer adapter (`engine/integration/performer_adapter`, `engine/performance/*`) | held and sustained notes, two state machines, last chord, release latch | one event handler per ControlAction, tick | facade |
| Rings (`engine/midi/scheduler.h`, `control/ui_event_queue.h`, `engine/control/control_surface.h`) | slots, head, tail | push, pop | UI, read thread, engine thread, output thread |
| CoreMIDI input (`engine/midi/coremidi_in`) | source, sink, accepting, in-flight count | initialize, shutdown, selectSource, setSink, readProc | facade, CoreMIDI |
| CoreMIDI output (`engine/midi/coremidi_out`) | endpoint, name, queue, dispatch thread | select, dispatch, hot-plug, all-sound-off | hosts |
| Facade and hosts (`session/live_engine_facade`, `apps/macos/Source`, `bridge`) | two command queues, snapshot, pending tempo | start, stop, commands, tick | UI |
| Session, lifecycle (`session/engine_session`, `engine_lifecycle`) | booted, style loaded; lifecycle state | boot, shutdown, reset; a transition table | facade |
| Snapshots, persistence (`session/`) | files | capture, restore, save, load | hosts |
| Latency trace (`engine/trace`) | a multi-producer ring, a collector | push, drain, correlate | all threads |
| Device managers (`midi/`) | device lists, selection | refresh, select, hot-plug | hosts |
| MIDI parser and router, chord detectors, note transposition, renderer (`midi/`, `engine/chord`, `engine/music`, `engine/articulation`) | the parser's running status | pure functions | adapter, player |
| UASF codec (`engine/uasf`) | a read position | serialize, deserialize, validate | tools, style browser |
| SFF1 importer (`importers/sff1`) | read position, sections, current CASM section | parse, map, report | live host, tool |
| Korg playback and validation tools (`tools/`) | two threads; a list of events | keys; loadSmfBytes | player, output |
| Panels, view models, groove, audio driver, benchmarks | — | presentation, I/O, measurement | — |

**Who runs when.** The engine thread works in rounds (`LiveEngineFacade::tick`): a
pending tempo is applied, UI commands and MIDI input are drained into the
adapter's queue, the clock advances, the adapter handles its events and calls
`StylePlayer::tick`, the scheduler delivers what is due, and the result goes to
the output queue. UI commands arrive from the UI thread and MIDI from CoreMIDI's
read thread, each over a ring; the output thread takes events from a third. The
owner thread starts and stops the session, swaps sinks and selects devices.

**What is hard.** Within the engine thread: sequences of legal calls in any order
between two rounds (a chord change between note-on and note-off, a section switch
in the middle of notes, Start while playing), loops whose queued events interleave
with older ones, ticks rescaled by a tempo change. Between threads: the rings, and
the owner destroying a sink or a port that the read thread is using. Around it:
full queues whose result is ignored, sessions stopped and started again, devices
that vanish. `PROJECT.json` lists these hazards at their lines.

**What makes each part correct.** Player, scheduler, panic handler: every note-on is
answered by one note-off, after a stop nothing sounds, a queued section starts at
the next bar, what is due is delivered. Adapter: a chord consists of the keys
that are down (or held by the pedal), sync start fires once and with the chord that
fired it. Rings: each is a bounded FIFO. CoreMIDI input: no sink and no port goes
away under a read callback, and waiting for that ends. Hosts: where the style or the
device is swapped the engine is at rest; the screen shows what is. Files: a torn one
is refused, a whole one is read back as it was written. Importer: each channel plays
the messages of the file. Trace: a record is collected once or counted as dropped.

## 2. The modules

| Module | Models | Checked by |
|---|---|---|
| `SectionSequencer` | the sequencer's operations | runs play, session |
| `MidiScheduler` | the event queue: schedule, clear, the two outcomes of advanceTo's look at the front | same |
| `PanicHandler` | bits and count, one bit at a time | same |
| `NoteBalance` | the observer of the output | same |
| `StylePlayer` | composes the four with the clock and the round of the engine thread | same |
| `BoundedFifo` | what a ring promises | |
| `SpscQueue` | the ring, load by load; implements BoundedFifo | run ring |
| `CoreMidiIn` | readProc against setSink and shutdown | run midi_in |
| `CoreMidiOut` | the dispatch thread against selection, hot-plug and shutdown | run midi_out |
| `RealtimeStateMachine` | the performer's transition table | runs performer, live, files |
| `PerformerAdapter` | keys, pedal, latch, sync start, restarts | run performer |
| `EngineLifecycle` | the lifecycle's transition table and errors | run live |
| `LiveEngine` | facade, queues and ticks in four hosts | run live |
| `Sff1Reader` | the style file reader, message by message | runs import, import_delta |
| `SmfCapture` | the other MIDI file reader, the reference for it | same |
| `UasfFile` | writing and reading the engine's own format | same |
| `DemoStyle` | the built-in style | same |
| `StyleImport` | composes the four with the mapper and three shells | same |
| `ChordNotes` | chord detectors, transposition, renderer | run keys |
| `KeyInput` | packets parsed, routed, detected, and a note heard | run keys |
| `SessionStore` | snapshot, session file, launches | run files |
| `OutputManager` | the output manager over a provider | run files |
| `DesktopSession` | composes the two | run files |
| `LatencyTrace` | ring, trace points, collector, report | run trace |
| `MC...` | instances for TLC: styles, devices, files, packets, limits | |
| `...Proofs` | theorems about StylePlayer, PerformerAdapter, LiveEngine, LatencyTrace; `MidiInputProofs`: CoreMidiIn and KeyInput; `OutputProofs`: SpscQueue and CoreMidiOut; `FileProofs`: DesktopSession and UasfFile | TLAPS |
| `SequenceLemmas` | what the proofs share: least members, and concatenations of sequences of sequences | TLAPS |

Definitions marked "Mutated" are plausible mistakes in the definition after them; no
specification uses them. Some properties are defined and listed in no run: they state
what a document or comment says and the code does not do (section 4).

### StylePlayer

State and names follow the source (`samples` is the clock's `sample_position_`,
`cursor` is `section_rel_cursor_`, `origin` is `section_origin_tick_`, `active` the
panic handler's bits, `queue` the scheduler's ring). `phase` says where the engine
thread is in its round: `idle` → `commands` → `dispatch` → `drain` → `idle`, with
`flush` and `panic` for the loops of the panic handler, entered from the operation in
`then`. Each loop takes one step per event. Data is abstracted: notes and chords are
values, `Voice` stands for `transposeNote` with any mapping of source notes to
notes, a section is its kind and its note events track after track, time is a sample
count and one unit of tempo is one tick per sample.

Points of correspondence a reader should know:

* `flushActiveNotes` exchanges a 64-bit word and then sends the note-offs of its bits;
  the model clears bit by bit. Nothing else runs on the engine thread in between.
* The rotation in `advanceTo` (an event of the future at the front is pushed back
  behind the others and the loop stops) is `PushBackFront`.
* `boot()`'s clock settings are overwritten by the next start, so boot leaves no
  trace; `shutdown` is the flush and the panic one after the other.
* `setSwing` has no caller outside tests and is modelled as the API offers it;
  `clearStyle`, `isFull` and `scheduleEvents` have none and are not modelled.
* The renderer is the default one, which passes events through.
* Every style has a section (`TablesAssumption`). The live host can load one without
  (section 4); `start` then refuses and nothing of the player moves, and what that does
  to the adapter is in PerformerAdapter.
* A full queue loses the event: `lost` remembers it and the note properties hold
  only while it is false.

### SpscQueue

`PushBegin`/`PushCopy`/`PushPublish` and `PopBegin`/`PopCopy`/`PopRelease` are the
lines of `push` and `pop`. A side may see an old value of the other's index, never
one older than it has seen (`Loads`). Acquire/release makes the slot visible with
the index, so slots are read from memory. The copy is a step of its own, so
a race on a slot would show. The three ring classes have the same code.
`clear()` has one caller, the scheduler, whose queue belongs to one thread.

### CoreMidiIn

The owner thread's and each read thread's stores to `accepting_` and `in_flight_`
wait in a store buffer until a Flush step; loads see memory; a fence waits
for the own buffer. That is the reordering the comment at coremidi_in.cpp:132-138 is
about. Other reorderings of a weaker memory model are not modelled. CoreMIDI may
start a readProc whenever a source is connected, and a call that has begun goes on
after the source is disconnected.

One thing the model has and no property claims: a readProc that has been called but
has not yet counted itself in is invisible to `quiesceReadCallback`, so it can
outlive `MIDIPortDispose`, against the comment at lines 62-64 ("so no callback
survives it"). Whether CoreMIDI itself waits in MIDIPortDispose is outside the
repository.

### CoreMidiOut

`endpoint_`, `selected_index_` and the name are shared by the owner's thread (`owner`
says where its call is) and the dispatch thread (`dispatch`); each access is a step,
except that the two loads of the probe's condition are taken together. The queue is the
sequence that `BoundedFifo` promises. Of `selected_index_` only the sign is read, so
`selected` is a boolean; the list of devices is the set `present`, and resolving picks
any device with the name. `sendAllSoundOff` is one step: what its 32 packets
interleave with is before or after the last of them. An event is a note-on or a
note-off of one note. The failure of CoreMIDI itself in `initialize` leaves no trace
and is not an action, nor is a selection that returns false.

Two races are in the model besides the one `NoHangingNotes` shows, because the
dispatch thread resolves with an index and a name it has read earlier: a selection, or
a disconnect, made in between is undone when it stores what it found, until the next
notification. `Reconnects` therefore claims a device that is there, not that it is
the one selected last.

### PerformerAdapter

One action per event of `handleControl` (Fill, variations, Intro, Break and Ending
change only state that nothing reads back or that StylePlayer models), `BeginTick`
and `EndTick` around the events of a round, and `Restart` for the facade's stop and
start. Of the player only `running`, `samples` and `chord` are here. `Detect` stands
for the scan mode, as a function of the set of held notes. `keys` is the keyboard
itself: a key goes down only when it is up.

`playable` says whether the loaded style has a section; any style may be loaded between
two rounds, as the live host does after a stop and the facade without one.
`StylePlayer::start` refuses a style without sections before it touches anything, and the
adapter does not look at the answer, so `Started` is the player's state before or after,
and `ChordPresent` is `setChord` on what `start` has left: two calls in their order,
each with a chord of its own. `ChosenChordPlays` goes by the history `chooser`: the keys,
the screen, or nobody once Start has set a chord that nobody chose. The mutant `StartWins`
swaps the two calls.

The histories `repressed`, `missed`, `torn` and `armed` say in which situations the two
deviations of section 4 arise, so that the passing run claims everything else, restarts
included; a refused start sets `torn`, as a restart during play does.

`setHoldMode` and `setSplitPoint` have no caller outside tests and snapshot restore;
both hold modes are initial states, the split point is a constant.

### LiveEngine

`host` says which program runs. `live` is `LiveHostDriver` with `LiveHostComponent`:
a timer thread ticks, the message thread gives commands, loads styles and switches
devices, the read thread delivers chords. `driver` is `EngineDriver` with
`MainComponent`, `bridge` the C interface, `korg` the playback tool. A tick is a chain
of steps (`tick`), and between two of them the other threads may move; `ui` says where
the message thread is in stop, reload or switch. `Handle` is what the adapter does
with an event, `Play` the player's tick; of the player there is whether it plays and
whether a note is tracked, since StylePlayer has the rest. The scheduler and the
output bridge are one queue, because every tick empties both. `Lost` as a last error
means that it is still Ok although an event was dropped.

### Sff1Reader, SmfCapture, UasfFile, DemoStyle, StyleImport

Track chunks stay bytes, because the reader finds messages in them; CASM is a
sequence of framed items, and a name is the set of the words the mapper looks for.
One step reads one message, item or part. `SmfCapture` is the repository's second
reader of Standard MIDI Files and what `ImportKeepsNotes` compares with. `StyleImport`
has three shells: the live host's dialog, the command-line tool that saves a UASF
file, which may be cut anywhere before it is read again, and the boot of the demo
style, saved and read too. `DemoBars` shortens the demo's four equal bars. A part of a
UASF file is one of its headers, names or events; how many bytes parts take is the
constant `FileSize`, which only the check of the file's size needs. A style is its
sections, tracks and events here: the tempo (the reader sets 120), the names of style and
sections and the rules of notes (`ntr`, `ntt`) do not come back from a file at all, and no
property claims them.

### ChordNotes, KeyInput

Pure operators, checked along the whole way of a key: a packet is parsed byte by
byte, its messages become control events, the keys held become a chord, and one
recorded note of each kind is transposed and rendered under it. A packet is a sequence
of pieces, the data bytes of one message or something that stands for nothing (a status
byte, a clock byte, a SysEx, a message broken off at the packet's end), and each
piece carries the control events it stands for. `PacketsAssumption` is what MIDI says of the
pieces, in terms of the packet and not of the parser's state: `StatusAt` looks back for the
last status byte, `StandsFor` says what a message is for an arranger. So
`EventsAreTheMessages` compares with an independent statement.
The adapter's held list is the set of keys here (PerformerAdapter has the list).

### SessionStore, OutputManager, DesktopSession

A file is the sequence of its twelve fields in their order, a number the sequence of its
digits, and a name a sequence of quotes, backslashes and of the words between them. So a
write that is cut short ends in the middle of a number; `Esc` puts the backslashes in that
`ReadStr` does not take out again, and a name ends at its first quote, escaped or not. The
reader looks for a key in quotes anywhere in the text, so a device called `theme` is
found before the field (`Hits`), and the number behind it is the next field's
(`FieldOf`). `save()` may end well, end badly unnoticed (the stream is tested before it
is flushed), or take the program with it. No host under src/ calls `save` and `load` yet;
they are modelled as their contract says, with the output device, of which the app
remembers the name. `FileIsWholeOrRefused` claims all that does come back: of any session
whose names are not taken for a key every field but the names, and each name that has no quote
and no backslash. `NamesComeBack` claims the rest and fails (section 4). `SessionStore`
has the sync controller's state, which `capture` and `restore` look at, and not the performer
state beside it.

The manager's calls are steps, between which devices come and go and CoreMidiOut's
thread looks for its device: `LookUp` reads the name, `Scan` looks for it in the list of
that moment, `StoreFound` stores what it found, whatever was selected in the meantime. A
launch begins with the first device selected and a search for it perhaps under way.
`StatusIsTrue` is claimed once the manager has enumerated since the last change, and
unless a search begun before the last selection has undone it (`undone`), which
`StatusIsAlwaysTrue` does not except and which the code does not prevent (section 4).

### LatencyTrace

`try_push` in its steps: read the position, claim the cell, publish it, drop or read
again; the check of the sequence number and the exchange that follows are one step.
`try_pop` copies and releases. The three threads emit at their trace points; the
collector drains. Loads see the latest store. `Verdict` is the report's rule over what
`load_trace` makes of an export: the records, and of a JSON export the counters, of a CSV
export none (`Exports`); without counters no counter is looked at. `PassIsEarned` therefore
asks for enough complete journeys within the limits of either, and that nothing was
dropped and nothing sounds of the first. The collector is started once: a second `start()`
keeps what the first has collected and takes the correlation ids back, which is not modelled.

## 3. The runs

| Run | Question | Bounds |
|---|---|---|
| play | Do notes balance, sections switch and due events come out, over one session after another? | 8 samples (two bars) in blocks of 1 and 3, three sections on two tracks, two chords that voice to a shared note, queue of 20 |
| session | The same with two styles, tempi 0, 1, 2, negative indices, Start while playing | 4 samples |
| ring | Is the ring a bounded FIFO? | 3 slots, 2 items, 5 pushes: the indices wrap and the ring fills |
| midi_in | Can a sink or port go away under a callback, and does the wait end? | 2 read threads, 2 sinks, 1 source, 1 message per call |
| midi_out | Is everything queued sent before the port goes, and a lost device found again? | 2 devices, queue of 1, a probe in every lost round |
| performer | Do chord, latch, pedal and the state machines stay coherent, when starts are refused too? | 3 keys (1 above the split), 2 chords, styles with and without a section, room for 2 held notes, window of 2 samples, clock to 2 |
| live | Is the engine at rest when it is swapped or closed, and does the screen tell the truth? | 4 hosts, 1 device and none, queues of 2, two buttons beside Stop and Panic |
| import | Does a style play the messages of its file, and is a torn UASF file noticed? | every track of up to 3 messages out of 6 kinds, headers, other chunks, cuts at every byte, CASM nested three deep, one track of 150 messages; one bar of the demo |
| import_delta | (violation) delta times of two bytes | every track of one message |
| keys | Does what was played arrive, and does the accompaniment fit the chord? | 2 packets of 24, 8 notes, 10 rules, 4 renderings |
| files | Is a session file whole or refused, restored as saved, and the output's state true? | 1 setting beside that of the boot, a style with a quote in its name and a tempo out of range, 2 devices, one called like a key that comes and goes before the other; the empty file and 2 more places where a write breaks off |
| trace | Is a record collected once, and is a PASS earned? | ring of 2, 3 producers, 5 records, 2 chords, 1 panic; exports with and without counters |

The bounds are small on purpose: a bar of four ticks has events at its first and last
tick, a note over the bar line and blocks that jump over it; a held-note array of two
fills up; rings of two and three slots wrap and fill; queues of two overflow, and with
them every path that ignores a failed push. `QueueCapacity` of 20 is large enough
that runs play and session rarely lose an event, as the real 8191 is. Tracks of three messages have
every pair of kinds behind each other with and without running status. The limits of
the UASF format are the real ones and are not reached, but for `MaxFileSize`, which is
scaled down to 1200 bytes, between the demo (1192) and the file of 150 messages;
`MaxDelta` stands for 2^32 - 1,
since TLC's integers are narrower, and is above every delta of the instance.
Deadlock is checked unless the model comes to an end by its bounds (a file that is
read, a capture that is over).

**Fairness.** Only ring, midi_in, midi_out and live check liveness. In ring, both threads finish a call
they have begun, the consumer's loop polls for ever (the engine's tick and the output
thread's loop do), and a stored index is seen in the end. In midi_in, stores reach
memory, and the owner and a running readProc go on; a sink returns or throws. Nothing
forces packets to come or the owner to call. `QuiesceReturns` claims the wait ends
with the source disconnected: with packets still arriving the spin can in
principle find a reader inside each time it looks. In midi_out both threads go on with
what they have begun and notifications arrive; `Reconnects` assumes that the dispatch
thread keeps up with the engine (it comes to look at `running_` again and again) and
that the devices stop changing. In live, an armed timer fires again and again, both
threads go on with what they have begun, and the screen's timer polls; the loops that
empty a queue end only if a keyboard leaves the queue empty now and then, which
`HostReturns` and `ScreenFollows` state as their premise. `Spec` of the other modules has no
fairness and its properties are safety only.

## 4. Where the code and what is said of it part

`PROJECT.json` quotes the lines. Run import_delta shows the first by its failure; for the
others a passing run claims what does hold, and the property or constant named
here, put into its configuration, shows what does not.

| Where | What | To see it |
|---|---|---|
| Importer | delta times least significant group first, SysEx read as deltas, End of Track stored as an event | run import_delta, `ImportKeepsTicks` |
| MIDI input | of a packet's messages the 65th and later are dropped | keys, `Packets <- FullPackets`: `EventsAreTheMessages` |
| Player | Start while playing sets the chord without a flush: a note never ends; and the queued section waits for the old position | play, `MayRestart = TRUE`: `ActiveNotesWillEnd`, `QueuedRunsAtNextBar` |
| Clock | a tempo change rescales the past: the position jumps | session, `TickNeverJumpsBack` |
| Scheduler | with swing above 50 % a note-off overtakes its note-on, and what is due waits behind what is not | session or play, `Swings = {75}`: `SilentWhenStopped`, `AdvanceDeliversAllDue` |
| CoreMIDI output | a device switch may leave a note on the old device | midi_out, `Events = {"on", "off"}`: `NoHangingNotes` |
| Adapter | a key pressed again under the pedal is held twice | performer, `NoNoteLeftBehind` |
| Session | after stop and start during play, or a start refused for a style without sections, sync start does nothing | performer, `SyncStartArms` |
| Session file | a name with a quote or backslash comes back different, a name like a key shifts other fields | files, `NamesComeBack` |
| CoreMIDI output | a search stores the device of before over one selected meanwhile; the manager shows Connected to the other | files, `StatusIsAlwaysTrue` |
| Facade | events dropped between queues show nowhere | live, `LossIsReported` |
| Korg tool | Stop and PANIC are not sent before the next Start | live, `Hosts = {"korg"}`: `StopIsHeard` |
| UASF | the demo's drum track does not survive saving | import, `loaded = style.sections` in `TornFileRefused` |
| Live host | an invalid style replaces the old one | import, `OldStyleKeptUnlessValid` |
| Trace | the gauge of sounding notes ignores flush and panic | trace, `GaugeIsTrue` |
| Report | a CSV export has no counters and passes without clean ones | trace, `PassHasCleanCounters` |

## 5. The proofs

`StylePlayerProofs` proves, for every style, chord table, queue capacity, tempo and
block size:

| Theorem | States | Needs |
|---|---|---|
| TypeCorrect | `[]TypeOK` | – |
| NoStuckNotes | `[]TrackedNotesMatchOutput` | no swing |
| OutputInTurn | `[]OutputAlternates` | no swing |
| StopSilences | `[]SilentWhenStopped` | no swing |
| NothingDueIsLeft | `AdvanceDeliversAllDue` | no swing |
| CountCorrect | `[]CountMatchesBits` | – |
| NotesEnd | `[]ActiveNotesWillEnd` | paired note-ons, one style, no Start during play |
| QueuedStartsAtBar | `QueuedRunsAtNextBar` | constant tempo, no Start during play |

"No swing" is `Swings \subseteq 0 .. 50`; section 4 shows that it is needed.

The argument: none of the note properties is inductive, because a step of the drain
changes what sounds without touching the bits. The strengthening
(`OutputInvariant`) says three things. The queued events of each note come *in turn*:
event i is a note-on exactly if the note will be silent before it (`SoundsBefore`).
No queued event is due later than the current round, so the rotation in `advanceTo`
never happens and the queue is a FIFO. And the bits match what will sound once the
queue has drained. The queue and the balance change in four ways only (not at
all, cleared, an event appended in turn, the first delivered), each with a lemma of
its own; every action is then one of the four.

NotesEnd holds at every swing and tempo and with lost events. `EndInvariant` sharpens
the property inside the dispatch loop: the note-off of an active note is at the loop's
index or behind it, or its tick is after the window. Its hypotheses are about the caller, and section 4
shows that Start during play breaks it: a note-on has a later note-off of the same note
(`NoteOnsArePaired`), and no second style is loaded.
QueuedStartsAtBar rests on `BarInvariant`: the bar of the sequencer's last bar start is
never ahead of that of the last tick, nor that one of the position's, so the first tick in a
later bar is recognised as one. The blocks may be of any length.

`PerformerAdapterProofs` proves, for any keys, detector, window, block sizes and hold
modes (`AdapterAssumption`), restarts included:

| Theorem | States |
|---|---|
| StatesAgree | `[]PerformerStatesAgree` |
| PlayingIsShown | `[]PlayingIsRunning` |
| SyncStartWorks | `[]SyncStartArmsInSession` |
| ChordIsPlayed | `[]ChosenChordPlays` |
| WindowIsKept | `NoFlicker` |
| KeysStayHeld | `[]HeldKeysStay` |
| NotesLeave | `[]ReleasedNotesLeave` |
| AdapterTypes | `[]TypeOK` |

The first three come from one inductive invariant, `StateInvariant`: the machines
agree and rest in Idle, Armed or Playing, and, but for a restart during play or a refused
start, Playing is running and a sync start asked for is armed. WindowIsKept needs to know why a pending
latch that has run out has seen the whole window: `LatchInvariant` says that what is
missing of the window in samples without a chord never exceeds what is missing
of it on the clock, which may stand still or be set back by a start.
ChordIsPlayed is inductive next to `LatchInvariant`, without which the latch could run out
while the keys make a chord, and `EndTick` would take the chord away.
KeysStayHeld and NotesLeave come from `HeldInvariant`: a key down whose note was taken
has its note in the list and no deferred release; deferred releases are notes of the list,
so there is always room for one more; and a note is in the list twice only if its key was
pressed again, so one removal is enough for any other. What insertion and removal
do is proved position by position. The release of the pedal is a fold over the deferred
notes: that the recursive function behind it exists, and what it returns, is proved by
minimal counterexample on the size of the set (`WorksOffUpTo`, `ReleasedCorrect`), since
the natural numbers are well-founded.

`OutputProofs` proves of `CoreMidiOut`, for any devices, names (two devices may share one), queue
capacity and probe interval, with and without a run loop (`OutputAssumption`):

| Theorem | States |
|---|---|
| PortIsThere | `[]PortOutlivesSend` |
| QueueIsSent | `[]ShutdownDrains` |
| OneStray | `[]AtMostOneStray` |

The first two come from `ThreadInvariant`: the dispatch thread exists only while the
output is initialized, it drains for the last time only when `shutdown()` waits for
it, and then `Send` is impossible, so that what it finds empty stays empty. `OneStray` says
nothing about the device in hand or the endpoint, whose count a stray would raise;
`StrayInvariant` adds that both have had none.

`MidiInputProofs` proves of `CoreMidiIn`, for any sinks and any number of read threads
(`InputAssumption`):

| Theorem | States |
|---|---|
| InputTypes | `[]TypeOK` |
| SinkIsSafe | `[]SinkOutlivesCall` |
| PortIsSafe | `[]PortOutlivesCall` |

A reader raises `in_flight_` and then looks at `accepting_`; the owner clears
`accepting_` and then waits for `in_flight_` to be zero, a fence between the two on either
side. `CountInvariant` says that the count is the number of readers
inside whose store can be seen, and `Handshake` follows each reader with the owner: one that still
found the door open is counted when the owner looks, one that comes later finds it closed.

Of `KeyInput` it proves, for any packets of MIDI messages, notes, rules and renderings
(`KeyInputAssumption`):

| Theorem | States | Needs |
|---|---|---|
| KeysArriveAsPlayed | `[]EventsAreTheMessages` | `FewMessages` |
| AccompanimentAlwaysFits | `[]AccompanimentFitsChord` | |

`EventsAreTheMessages` speaks of packets that have been read to their end. `KeyFlow`
says what holds inside one: the parser stands before a piece of the packet, its status
is the running status there, and what was played is what has been posted, then what the
messages parsed become, then what the rest of the packet stands for. Each action reads
the next piece (`AsideByte`, `SysExFlows`, `OneByteFlows`, `TwoByteFlows`,
`BrokenOffFlows`), which moves what that piece stands for from the rest to the messages, or
was nothing; `Route` moves it on to what has been posted. A packet's bytes and its meaning
are concatenations over its pieces, by a recursive function of the library: that it exists
and can be taken apart at its first and its last member is proved by minimal
counterexample. `KeyFlow` also counts: no more messages have been parsed than the pieces behind
the parser hold, so that under `FewMessages` the array has room for the next. Without
`FewMessages` the theorem is false, as `FullPackets` shows (section 4).

`AccompanimentAlwaysFits` goes the way of the note backwards. What is posted has data bytes
for keys, so the keys held are numbers, and the root detected is a pitch class
(`RootIsKey`). The tone a note is moved to is the nearest, the lowest of those equally
near: that there is one is proved with a rank, a number that orders the candidates as
the code does (`RankOrders`), and it is a tone of the chord, a tone being its own
(`NearestIsOnTone`). The fold by octaves keeps the pitch
class and ends in the MIDI range (`FoldedIsNote`), which a clamp at 0 and 127 would not; and
the renderer puts nothing behind the note or in its place (`RenderFits`).

`OutputProofs` proves of `SpscQueue`, for any capacity and items (`RingAssumption`):

| Theorem | States |
|---|---|
| NoRace | `[]NoSlotRace` |
| RingIsFifo | `ImplementsFifo` |

The second is the refinement of `BoundedFifo` under the mapping of the module: every
step of a push or pop is one step of the bounded queue or none. The invariant orders
the four indices around the ring (seen head, head, tail, seen tail, by their distance modulo
the capacity) and says that the slots between head and tail hold the items in order.

`LiveEngineProofs` proves, for any hosts, devices, queue sizes and buttons
(`EngineAssumption`):

| Theorem | States |
|---|---|
| LiveTypes | `[]TypeOK` |
| SwapsAtRest | `[]SwapIsQuiet` |
| ClosesQuietly | `[]ClosedIsQuiet` |
| SnapshotsAreTrue | `[]SnapshotIsCurrent` |

`LiveInvariant` has four parts besides the types: where the host's thread is says
what the timer, the facade and the lifecycle are (`HostInvariant`); what sounds is
tracked, or its note-off or a silence is still in the output queue (`NotesInvariant`);
while a host stops or swaps, each of its steps has its part of that already empty
(`FlushInvariant`); and what was published is what the last tick left
(`ScreenInvariant`).

`FileProofs` proves of `DesktopSession`, for any settings, lists and cuts (`StoreAssumption`,
`ListsAssumption`):

| Theorem | States |
|---|---|
| ManagerShowsOutput | `[]StatusIsTrue` |
| FileIsWhole | `[]FileIsWholeOrRefused` |
| SavedSessionReturns | `[]SessionComesBack` |

`ManagerInvariant`: once told of the last change, the manager's list is the devices that
are there and what it asked for is what the output has, but for an undone selection; and a search under
way will store just that, unless a selection has overtaken it. `StoreInvariant`: the file
is a beginning of the text of what was given to save. Its core is that reading back
what was written gives the settings (a number of up to three digits, field by field, found
under its key because no name ends in that key behind a quote),
and that a text cut short lacks its last field or cuts that field's number. That last field is the
theme, which `isValid()` does not look at: `StoreAssumption` says what the panel
offers, three themes, of one digit each. With ten a cut could turn one into another. The
same assumption keeps `Words` apart from quotes and backslashes, which is what words are. `ListsAssumption`
excludes a device without a name (`endpointDisplayName` gives an empty one when
CoreMIDI has none), which the manager could not tell from no device.

Of `UasfFile` it proves, for any limits of the format (`LimitsAssumption`) and any measure
of a file's size:

| Theorem | States |
|---|---|
| TornFilesRefused | `UasfSpec => []TornFileRefused` |

`UasfSpec` reads what is left of the file of any style in `Storable`: as many sections,
tracks and events as the headers may count, ticks within 32 bits, and the numbers in the
range of their bytes. `Storable` is what the format asks of a style and nothing more, the
demo and what run import saves are in it; outside it the headers count less than what is written, and the
rest of the file is read as something else. The invariant (`ReaderInv`) is one equation: the parts that
are left of the file, followed by those it has lost (`Lost`), are what remains to be read
of the style (`Remaining`), which the loop counters and the sections read so far
determine. So the next part is always the one the reader expects
(`SectionHeaderRead`, `TrackHeaderRead`, `NameRead`, `NextEventRead`, each moving one part from
what remains to what has been read); as long as a counter is not zero something remains,
and if the file has no more of it, it was lost (`RefusedIsTorn`); when all are zero nothing
remains, hence nothing was lost (`AllIsRead`). What has been read agrees with the style
section by section (`StyleMatches`), and in ticks as long as those of the track do not step back, since
the sum of the deltas read is then the tick of the last event. The theorem is about
`UasfSpec`, which begins where `SaveUasf` of `StyleImport` ends and takes the steps of
`LoadUasf`; the runs check the same property there.

`LatencyTraceProofs` proves, for any capacity, limits and bounds of the model
(`TraceAssumption`):

| Theorem | States |
|---|---|
| TraceTypes | `[]TypeOK` |
| RingLosesNothing | `[]CollectedOnceInOrder` |
| PassMeansPass | `[]PassIsEarned` |

`RingInvariant` says what each position's sequence number is: the positions from the
oldest unread on, one lap long, are published, claimed and being published, or free, and the one slot
the collector has copied and not released says so. That needs that positions less than a lap
apart have different slots, proved from the definition of the remainder. `StreamInvariant` looks
at the records by position, those in the collector's buffer and those in the ring
behind them, as one stream: a pop leaves it as it is and a claim extends it. What a
producer is about to push is later than all of its own in it, which gives the order
and that no record is there twice. For `PassIsEarned` the percentile
of 100 has to be the latency of the slowest of finitely many journeys, which exists
because the natural numbers are well-founded.

`CountCorrect`, `StatesAgree` and the type invariants are steps on the way that no run lists.

`SequenceLemmas` holds what several of these proofs need: that a set of numbers has a
least member, from well-foundedness, and with it what `Min` and `FlattenSeq` are, since
induction over data is not to be had.

Only model-checked: `ImportKeepsNotes` and `TracksFollowTheirSdec`, and all liveness: the
prover has no rule for fairness here. What `StyleImport` says of a style file cannot be
proved with this prover as it is written: `SmfCapture` and `StyleImport` use recursive
operators, and their properties are inductions over data. `KeyInput` takes the
chord detectors as they are: that a detector names the chord a player means is a matter of
its tables, and no property speaks of it.

## 6. Not modelled

`PROJECT.json` lists every component with its status.

* Panels, view models, theme: presentation; only the buttons they offer and the
  polling of telemetry are in LiveEngine.
* `performance/` clocks and groove, `engine/arranger/chord_input`: nothing drives or
  reads them. `MidiDeviceManager` has a test as its only user.
* The audio driver, the benchmarks, the statistics of the validation tool: I/O and
  measurement.
* Fill and variation bookkeeping that nothing reads, setters without a caller, the
  clock's cached values, the pending tempo of the facade (its effect, a tempo that
  changes between two rounds, is in StylePlayer).
* Weak memory beyond what the sections above say: LatencyTrace and LiveEngine are
  sequentially consistent.
* The importer's specification asks for sections from markers; the reader makes none,
  and neither does the model.

## 7. The plan

What is left: a proof that `StylePlayer` gives `PerformerAdapter` and `LiveEngine` the
player they assume, and a form of `SmfCapture` without recursive operators, about which
`ImportKeepsNotes` could be proved.
