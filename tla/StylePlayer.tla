------------------------------ MODULE StylePlayer ------------------------------
(***************************************************************************)
(* StylePlayer (src/engine/arranger/style_player.{h,cpp}) with the parts   *)
(* it drives: the section sequencer, the MIDI scheduler, the panic         *)
(* handler's note bits and the realtime clock; and the observer of what    *)
(* the scheduler delivers.                                                 *)
(*                                                                         *)
(* The engine thread works in rounds, LiveEngineFacade::tick:              *)
(*    idle      a pending tempo is applied and the clock advances;         *)
(*    commands  the adapter drains its queue: any number of calls into the *)
(*              player;                                                    *)
(*    dispatch  StylePlayer::tick puts the due events on the scheduler;    *)
(*    drain     MidiScheduler::advanceTo delivers what is due.             *)
(* flush and panic are the loops of PanicHandler::flushActiveNotes and     *)
(* PanicHandler::panic, entered from the operation in `then', which goes   *)
(* on when the loop ends.  Every loop is one step per event, so that what  *)
(* is checked holds between any two of them; only one operation runs at a  *)
(* time, as on the engine thread.                                          *)
(*                                                                         *)
(* The player runs with the pass-through renderer: nothing under src/ sets *)
(* another.                                                                *)
(***************************************************************************)
EXTENDS SectionSequencer, PanicHandler, NoteBalance

CONSTANTS
  Chords,          \* the chords the detector may hand over
  StartChord,      \* chords::CMaj
  Sources,         \* the notes the style's tracks are written in
  Voice,           \* transposeNote: the note each source becomes in a chord
  StyleTempo,      \* tempo_bpm of the loaded style
  Tempos,          \* tempi the performer may ask for
  TicksPerBeat,    \* the clock's resolution, which the sections share
  BeatsPerBar,
  Swings,          \* the percentages setSwing may be called with
  Steps,           \* sample blocks by which the clock may advance
  MaxSamples,      \* bound: the clock stops advancing here
  MayRestart       \* whether Start may be pressed while the style plays

ASSUME ChordsAssumption ==
  /\ StartChord \in Chords
  /\ Voice \in [Chords -> [Sources -> Notes]]

ASSUME ClockAssumption ==
  /\ StyleTempo \in Nat
  /\ Tempos \subseteq Nat
  /\ TicksPerBeat \in Nat \ {0}
  /\ BeatsPerBar \in Nat \ {0}
  /\ Steps \subseteq Nat
  /\ MaxSamples \in Nat
  /\ Swings \subseteq 0 .. 255
  /\ MayRestart \in BOOLEAN

(***************************************************************************)
(* A section is its kind and the note events of its tracks, track after    *)
(* track: what the dispatch loop walks over.                               *)
(***************************************************************************)
SectionEvent == [kind : {"on", "off"}, src : Sources, tick : Nat]

ASSUME EventsAssumption ==
  \A t \in SectionTables : \A i \in DOMAIN t : t[i].events \in Seq(SectionEvent)

VARIABLES
  running,         \* the clock's running_
  samples,         \* the clock's sample_position_
  tempo,           \* the clock's tempo_bpm_
  chord,           \* the sequencer's current_chord_
  origin,          \* section_origin_tick_
  cursor,          \* section_rel_cursor_
  swing,           \* swing_percent_
  phase,           \* where the engine thread is
  then,            \* the operation that a flush or panic loop belongs to
  newChord,        \* setChord's argument while it flushes
  index,           \* the event the dispatch loop is at; controllers sent by panic
  lastTickBar      \* history: the bar at the previous tick of the running clock

playVars == <<chord, origin, cursor, swing>>
clockVars == <<running, samples, tempo>>
loopVars == <<phase, then, newChord, index>>
vars == <<seqVars, panicVars, schedVars, balanceVars, playVars, clockVars,
          loopVars, lastTickBar>>

(***************************************************************************)
(* The clock: a unit of tempo is one tick per sample, and a zero tempo     *)
(* makes the bar zero ticks long.                                          *)
(***************************************************************************)
Position == samples * tempo

BarSize == IF tempo = 0 THEN 0 ELSE TicksPerBeat * BeatsPerBar

BarOf(tick) == tick \div (TicksPerBeat * BeatsPerBar)

(***************************************************************************)
(* applySwing(): an event in the second half of a beat slides later.       *)
(***************************************************************************)
StraightSwing == 50
MaxSwing == 75

Swung(tick) ==
  IF \/ swing <= StraightSwing
     \/ TicksPerBeat \div 2 = 0
     \/ tick % TicksPerBeat < TicksPerBeat \div 2
  THEN tick
  ELSE tick + ((swing - StraightSwing) * TicksPerBeat) \div 100

Init ==
  /\ SeqInit /\ HandlerInit /\ SchedInit /\ BalanceInit
  /\ running = FALSE /\ samples = 0 /\ tempo = StyleTempo
  /\ chord = StartChord
  /\ origin = 0 /\ cursor = -1 /\ swing = StraightSwing
  /\ phase = "idle" /\ then = "none" /\ newChord = StartChord /\ index = 0
  /\ lastTickBar = 0
-----------------------------------------------------------------------------
(***************************************************************************)
(* Between rounds.                                                         *)
(***************************************************************************)

LoadStyle ==
  /\ phase = "idle"
  /\ \E table \in SectionTables : SetSections(table)
  /\ UNCHANGED <<panicVars, schedVars, balanceVars, playVars, clockVars,
                 loopVars, lastTickBar>>

SetSwing ==
  /\ phase = "idle"
  /\ \E pct \in Swings : swing' = IF pct > MaxSwing THEN MaxSwing ELSE pct
  /\ UNCHANGED <<seqVars, panicVars, schedVars, balanceVars, chord, origin,
                 cursor, clockVars, loopVars, lastTickBar>>

(***************************************************************************)
(* The head of a round: the tempo the performer asked for, if any, and the *)
(* next block of samples, which only a running clock counts.  The bound    *)
(* MaxSamples is on the block, not on the round.                           *)
(***************************************************************************)
BeginRound ==
  /\ phase = "idle"
  /\ tempo' \in Tempos \cup {tempo}
  /\ \E n \in Steps : samples' = IF running /\ samples + n <= MaxSamples
                                 THEN samples + n ELSE samples
  /\ phase' = "commands"
  /\ UNCHANGED <<seqVars, panicVars, schedVars, balanceVars, playVars, running,
                 then, newChord, index, lastTickBar>>
-----------------------------------------------------------------------------
(***************************************************************************)
(* The performer's commands.                                               *)
(***************************************************************************)

(***************************************************************************)
(* start(): nothing is flushed and the section playing, if any, goes on:   *)
(* only the clock, the chord and the cursor start over.                    *)
(***************************************************************************)
Start(intro) ==
  /\ phase = "commands"
  /\ sections # EmptyTable
  /\ MayRestart \/ ~running
  /\ tempo' = StyleTempo
  /\ samples' = 0
  /\ running' = TRUE
  /\ chord' = StartChord
  /\ origin' = 0
  /\ cursor' = -1
  /\ QueueSection(IF intro \in DOMAIN sections THEN intro ELSE 0)
  /\ lastTickBar' = 0
  /\ UNCHANGED <<panicVars, schedVars, balanceVars, swing, loopVars>>

Queue ==
  /\ phase = "commands"
  /\ \/ QueueIntro
     \/ QueueFill
     \/ QueueBreak
     \/ QueueEnding
     \/ \E i \in QueueArgs : QueueSection(i)
  /\ UNCHANGED <<panicVars, schedVars, balanceVars, playVars, clockVars,
                 loopVars, lastTickBar>>

SetChordStopped(c) ==
  /\ phase = "commands"
  /\ ~running
  /\ chord' = c
  /\ UNCHANGED <<seqVars, panicVars, schedVars, balanceVars, origin, cursor,
                 swing, clockVars, loopVars, lastTickBar>>

(***************************************************************************)
(* setChord() on a running clock and stop() first flush what is sounding.  *)
(***************************************************************************)
EnterFlush(op) == phase' = "flush" /\ then' = op

SetChordRunning(c) ==
  /\ phase = "commands"
  /\ running
  /\ EnterFlush("chord")
  /\ newChord' = c
  /\ UNCHANGED <<seqVars, panicVars, schedVars, balanceVars, playVars, clockVars,
                 index, lastTickBar>>

(***************************************************************************)
(* Stop is a command of the performer's; EngineSession::shutdown calls     *)
(* stop() and panic() between rounds.                                      *)
(***************************************************************************)
Stopped == running' = FALSE /\ SequencerPanic

Stop ==
  /\ \/ phase = "commands" /\ EnterFlush("stop")
     \/ phase = "idle" /\ EnterFlush("shutdown")
  /\ UNCHANGED <<seqVars, panicVars, schedVars, balanceVars, playVars, clockVars,
                 newChord, index, lastTickBar>>

EnterPanic(op) ==
  /\ ClearQueue
  /\ phase' = "panic" /\ then' = op /\ index' = 0

Panic ==
  /\ phase = "commands"
  /\ EnterPanic("panic")
  /\ UNCHANGED <<seqVars, panicVars, balanceVars, playVars, clockVars, newChord,
                 lastTickBar>>
-----------------------------------------------------------------------------
(***************************************************************************)
(* The loops, and how the operation goes on after them.                    *)
(***************************************************************************)

(***************************************************************************)
(* A note-off, due at tick 0, for the lowest note whose bit is set.        *)
(***************************************************************************)
FlushNote ==
  /\ phase = "flush"
  /\ \E n \in active :
       /\ \A m \in active : n <= m
       /\ TakeBit(n)
       /\ Schedule(NoteOffEvent(n, 0))
  /\ UNCHANGED <<seqVars, balanceVars, playVars, clockVars, loopVars, lastTickBar>>

FlushEnd ==
  /\ phase = "flush"
  /\ active = {}
  /\ ResetCount
  /\ UNCHANGED <<balanceVars, swing, samples, tempo>>

AfterFlushStop ==
  /\ then = "stop"
  /\ FlushEnd
  /\ Stopped
  /\ phase' = "commands" /\ then' = "none"
  /\ UNCHANGED <<schedVars, chord, origin, cursor, newChord, index, lastTickBar>>

AfterFlushShutdown ==
  /\ then = "shutdown"
  /\ FlushEnd
  /\ Stopped
  /\ EnterPanic("shutdown")
  /\ UNCHANGED <<chord, origin, cursor, newChord, lastTickBar>>

AfterFlushChord ==
  /\ then = "chord"
  /\ FlushEnd
  /\ chord' = newChord
  /\ newChord' = StartChord
  /\ phase' = "commands" /\ then' = "none"
  /\ UNCHANGED <<seqVars, schedVars, origin, cursor, running, index, lastTickBar>>

\* Mutated: the loop starts one event early.
EnterDispatchFromZero ==
  IF current \in DOMAIN sections
  THEN phase' = "dispatch" /\ index' = 0
  ELSE phase' = "drain" /\ UNCHANGED index

EnterDispatch ==
  IF current \in DOMAIN sections
  THEN phase' = "dispatch" /\ index' = 1
  ELSE phase' = "drain" /\ UNCHANGED index

AfterFlushSwitch ==
  /\ then = "switch"
  /\ FlushEnd
  /\ origin' = Position
  /\ cursor' = -1
  /\ then' = "none"
  /\ EnterDispatch
  /\ UNCHANGED <<seqVars, schedVars, chord, running, newChord, lastTickBar>>

(***************************************************************************)
(* Two controllers for every channel, then the bits are cleared.           *)
(***************************************************************************)
SilenceChannel ==
  /\ phase = "panic"
  /\ index < 2 * (MaxChannel + 1)
  /\ Schedule(SilenceEvent(index \div 2))
  /\ index' = index + 1
  /\ UNCHANGED <<seqVars, panicVars, balanceVars, playVars, clockVars, phase, then,
                 newChord, lastTickBar>>

AfterPanic ==
  /\ phase = "panic"
  /\ index = 2 * (MaxChannel + 1)
  /\ ClearBits
  /\ Stopped
  /\ phase' = IF then = "shutdown" THEN "idle" ELSE "commands"
  /\ then' = "none"
  /\ index' = 0
  /\ UNCHANGED <<schedVars, balanceVars, playVars, samples, tempo, newChord,
                 lastTickBar>>
-----------------------------------------------------------------------------
(***************************************************************************)
(* tick(): the sequencer advances; a switch flushes the old section's      *)
(* notes and puts the new section's origin at the current tick.            *)
(***************************************************************************)
TickStopped ==
  /\ phase = "commands"
  /\ sections = EmptyTable \/ ~running
  /\ phase' = "drain"
  /\ UNCHANGED <<seqVars, panicVars, schedVars, balanceVars, playVars, clockVars,
                 then, newChord, index, lastTickBar>>

TickRunning ==
  /\ phase = "commands"
  /\ sections # EmptyTable
  /\ running
  /\ Advance(Position, BarSize)
  /\ IF Switches(Position, BarSize)
     THEN EnterFlush("switch") /\ UNCHANGED index
     ELSE EnterDispatch /\ UNCHANGED then
  /\ lastTickBar' = BarOf(Position)
  /\ UNCHANGED <<panicVars, schedVars, balanceVars, playVars, clockVars, newChord>>

(***************************************************************************)
(* dispatchSectionEvents(): the events in (cursor, rel], in track order.   *)
(* A note-on whose note is already sounding and a note-off whose note is   *)
(* not are skipped.                                                        *)
(***************************************************************************)
Rel == Position - origin

Events == sections[current].events

\* Mutated: the window is open at its end.
InOpenWindow(e) == cursor < e.tick /\ e.tick < Rel

InWindow(e) == cursor < e.tick /\ e.tick <= Rel

\* Mutated: a second note-on of a sounding note is let through.
RedundantOff(e) == e.kind = "off" /\ Voice[chord][e.src] \notin active

Redundant(e) ==
  IF e.kind = "on" THEN Voice[chord][e.src] \in active
                   ELSE Voice[chord][e.src] \notin active

\* Mutated: a note-off leaves the bit set.
DispatchedUntracked(e) ==
  LET n == Voice[chord][e.src]
      at == Swung(origin + e.tick)
  IN  IF e.kind = "on" THEN MarkOn(n) /\ Schedule(NoteOnEvent(n, at))
                       ELSE UNCHANGED panicVars /\ Schedule(NoteOffEvent(n, at))

Dispatched(e) ==
  LET n == Voice[chord][e.src]
      at == Swung(origin + e.tick)
  IN  IF e.kind = "on" THEN MarkOn(n) /\ Schedule(NoteOnEvent(n, at))
                       ELSE MarkOff(n) /\ Schedule(NoteOffEvent(n, at))

DispatchEvent ==
  /\ phase = "dispatch"
  /\ index <= Len(Events)
  /\ IF InWindow(Events[index]) /\ ~Redundant(Events[index])
     THEN Dispatched(Events[index])
     ELSE UNCHANGED <<panicVars, schedVars>>
  /\ index' = index + 1
  /\ UNCHANGED <<seqVars, balanceVars, playVars, clockVars, phase, then,
                 newChord, lastTickBar>>

DispatchEnd ==
  /\ phase = "dispatch"
  /\ index > Len(Events)
  /\ cursor' = IF Rel > cursor THEN Rel ELSE cursor
  /\ phase' = "drain"
  /\ index' = 0
  /\ UNCHANGED <<seqVars, panicVars, schedVars, balanceVars, chord, origin, swing,
                 clockVars, then, newChord, lastTickBar>>

(***************************************************************************)
(* advanceTo(), with an output callback that delivers to the observer.     *)
(***************************************************************************)
Deliver ==
  /\ phase = "drain"
  /\ FrontIsDue(Position)
  /\ Observe(Head(queue))
  /\ PopFront
  /\ UNCHANGED <<seqVars, panicVars, playVars, clockVars, loopVars, lastTickBar>>

DrainEnd ==
  /\ phase = "drain"
  /\ ~FrontIsDue(Position)
  /\ IF queue = <<>> THEN UNCHANGED schedVars ELSE PushBackFront
  /\ phase' = "idle"
  /\ UNCHANGED <<seqVars, panicVars, balanceVars, playVars, clockVars, then, newChord,
                 index, lastTickBar>>

Next ==
  \/ LoadStyle \/ SetSwing \/ BeginRound
  \/ \E i \in QueueArgs : Start(i)
  \/ Queue
  \/ \E c \in Chords : SetChordStopped(c) \/ SetChordRunning(c)
  \/ Stop \/ Panic
  \/ FlushNote \/ SilenceChannel \/ AfterPanic
  \/ AfterFlushStop \/ AfterFlushShutdown \/ AfterFlushChord \/ AfterFlushSwitch
  \/ TickStopped \/ TickRunning
  \/ DispatchEvent \/ DispatchEnd
  \/ Deliver \/ DrainEnd

Spec == Init /\ [][Next]_vars
-----------------------------------------------------------------------------
Phases == {"idle", "commands", "flush", "panic", "dispatch", "drain"}

Operations == {"none", "chord", "stop", "shutdown", "switch", "panic"}

(***************************************************************************)
(* The type invariant.  The bounds on the loop counter and the places an   *)
(* operation can be in are part of it: the loops of flushActiveNotes and   *)
(* panic belong to the operations that call them.                          *)
(***************************************************************************)
TypeOK ==
  /\ SeqTypeOK /\ SchedTypeOK /\ BalanceTypeOK
  /\ active \subseteq Notes /\ noteCount \in Int
  /\ running \in BOOLEAN /\ samples \in Nat /\ tempo \in Nat
  /\ chord \in Chords /\ newChord \in Chords
  /\ origin \in Nat /\ cursor \in Int /\ cursor >= -1
  /\ swing \in 0 .. MaxSwing
  /\ phase \in Phases /\ then \in Operations
  /\ phase = "flush" => then \in {"chord", "stop", "shutdown", "switch"}
  /\ phase = "panic" => then \in {"shutdown", "panic"}
  /\ phase \notin {"flush", "panic"} => then = "none"
  /\ phase = "dispatch" => current \in DOMAIN sections
  /\ index \in Nat
  /\ phase = "panic" => index <= 2 * (MaxChannel + 1)
  /\ phase = "dispatch" => index >= 1
  /\ lastTickBar \in Nat

(***************************************************************************)
(* Whether note n sounds once the first i - 1 events of the queue q have   *)
(* been delivered after the balance b: the last of them that addresses n   *)
(* has the last word.                                                      *)
(***************************************************************************)
SoundsBefore(i, q, b, n) ==
  IF \A j \in 1 .. i - 1 : ~Addresses(q[j], n)
  THEN b[n] > 0
  ELSE \E j \in 1 .. i - 1 :
         /\ Addresses(q[j], n)
         /\ q[j].kind = "on"
         /\ \A k \in j + 1 .. i - 1 : ~Addresses(q[k], n)

WillSound(n) == SoundsBefore(Len(queue) + 1, queue, balance, n)

(***************************************************************************)
(* No stuck notes (style_player.cpp:57, 109, 143, 217): unless an event    *)
(* was lost to a full queue, the notes that will sound once the queue has  *)
(* drained are exactly those the engine tracks, so each can still be       *)
(* turned off by the next flush.  The panic loop is the one place where    *)
(* the bits are behind the queue.                                          *)
(***************************************************************************)
TrackedNotesMatchOutput ==
  ~lost /\ phase # "panic" => \A n \in Notes : WillSound(n) <=> n \in active

(***************************************************************************)
(* One note-on and one note-off per sounding note, in turn                 *)
(* (style_player.cpp:247-250): the observer never counts a second note-on  *)
(* of a note, nor a note-off of a silent one.                              *)
(***************************************************************************)
OutputAlternates ==
  ~lost => ~orphaned /\ \A n \in Notes : balance[n] <= 1

(***************************************************************************)
(* After stop() or panic() the output is silent once the queue has been    *)
(* delivered (style_player.cpp:57), whatever was queued when it came.      *)
(***************************************************************************)
SilentWhenStopped ==
  ~lost /\ ~running /\ phase = "idle" /\ queue = <<>>
    => \A n \in Notes : balance[n] = 0

(***************************************************************************)
(* A note never outlives its chord (style_player.cpp:108-110): between     *)
(* operations each tracked note has a note-off still to come in the        *)
(* section that plays, under the chord that is set.                        *)
(***************************************************************************)
ActiveNotesWillEnd ==
  phase \in {"idle", "commands", "drain"} =>
    \A n \in active :
      /\ current \in DOMAIN sections
      /\ \E i \in DOMAIN Events :
           /\ Events[i].kind = "off"
           /\ Events[i].tick > cursor
           /\ Voice[chord][Events[i].src] = n

(***************************************************************************)
(* hasActiveNotes() reads the count, the flush the bits: the two agree     *)
(* whenever no flush is under way.                                         *)
(***************************************************************************)
CountMatchesBits ==
  phase \notin {"flush", "panic"} => noteCount = Cardinality(active)

(***************************************************************************)
(* A queued section starts at the next bar line (section_sequencer.h:16):  *)
(* the first tick in a later bar than the tick before it switches.         *)
(***************************************************************************)
QueuedRunsAtNextBar ==
  [][TickRunning /\ QueuedIsValid /\ BarOf(Position) > lastTickBar
       => current' = queued]_vars

(***************************************************************************)
(* advanceTo() leaves nothing behind that is due (scheduler.h:97).         *)
(***************************************************************************)
AdvanceDeliversAllDue ==
  [][DrainEnd => \A i \in DOMAIN queue' : queue'[i].tick > Position]_vars

(***************************************************************************)
(* A tempo change replaces the ticks per sample and nothing else: ticks    *)
(* accumulate and never jump (arranger-engine-spec-v0.9.md:77).            *)
(***************************************************************************)
TickNeverJumpsBack == [][BeginRound /\ running => Position' >= Position]_vars
=============================================================================
